------------------------------ MODULE Listings ------------------------------
(***************************************************************************)
(* Reading a list page by page: every list of the API counts its rows with *)
(* one statement and fetches a page by offset with another, while other    *)
(* requests commit.  The reader asks for the next page as long as the last *)
(* answer says there is one.                                               *)
(***************************************************************************)
EXTENDS Integers, FiniteSets, FiniteSetsExt

CONSTANTS
    Rows, PageLength,
    LastKey,   \* bound: places in the order of a list
    NoRow

ASSUME ListingAssumption ==
    /\ PageLength \in Nat \ {0} /\ LastKey \in Nat
    /\ IsFiniteSet(Rows) /\ NoRow \notin 1..LastKey

-----------------------------------------------------------------------------
(* The lists.  by: what orders the rows; a "created" row, or in a list     *)
(* that begins with the "oldest", stays where it is, a "changed" one moves *)
(* with every change, a "ranked" one with a change of what it is ranked by.*)
(* leaves: a row may drop out, being removed or no longer meeting the      *)
(* filter.  together: one transaction may write several rows of one        *)
(* instant, or several rows have one rank.                                 *)

List(by, leaves, together) == [by |-> by, leaves |-> leaves, together |-> together]

AdminUsers == List("created", TRUE, FALSE)
AdminSessions == List("changed", TRUE, FALSE)
AuditCenter == List("created", FALSE, TRUE)
Users == List("created", TRUE, FALSE)
AuditLog == List("created", FALSE, TRUE)
CasesOf == List("changed", TRUE, FALSE)
Activities == List("created", FALSE, TRUE)
EvidenceOf == List("created", TRUE, FALSE)
Custody == List("created", FALSE, TRUE)
AlertsOf == List("created", TRUE, TRUE)
NotificationsOf == List("created", TRUE, TRUE)
Watchlists == List("created", TRUE, FALSE)
ChatHistory == List("oldest", FALSE, TRUE)
EntitiesOf == List("ranked", TRUE, TRUE)
KeywordsOf == List("ranked", TRUE, TRUE)
ExtractedEvents == List("ranked", TRUE, TRUE)
TimelineEvents == List("ranked", TRUE, TRUE)

Lists ==
    {AdminUsers, AdminSessions, AuditCenter, Users, AuditLog, CasesOf, Activities,
     EvidenceOf, Custody, AlertsOf, NotificationsOf, Watchlists, ChatHistory,
     EntitiesOf, KeywordsOf, ExtractedEvents, TimelineEvents}

-----------------------------------------------------------------------------
VARIABLES
    list,      \* the list that is read
    place,     \* instant or rank of each row that is listed
    reader,    \* page asked for, rows shown, pages as last told, what it does
    steady,    \* listed since the reading began, never moved, alone in place,
               \* and no row ahead has dropped out or fallen behind
    torn       \* a commit fell between the last count and its page

listVars == <<list, place, reader, steady, torn>>

Listed == {r \in Rows : place[r] # NoRow}
Started == reader.does # "rests"

ListInit ==
    /\ list \in Lists
    /\ place = [r \in Rows |-> NoRow]
    /\ reader = [does |-> "rests", page |-> 1, pages |-> 1, shown |-> {}]
    /\ steady = {} /\ torn = FALSE

(* ORDER BY: rows at one place come in any order, each time anew.          *)
Before(p, q) == IF list.by = "oldest" THEN p <= q ELSE p >= q

FirstRows(n) ==
    {A \in kSubset(Min({n, Cardinality(Listed)}), Listed) :
        \A a \in A, b \in Listed \ A : Before(place[a], place[b])}

(* Slip: the first page is numbered zero. *)
OffsetFromZero(page) == page * PageLength

Offset(page) == (page - 1) * PageLength

PagesAt(page) ==
    {rows \in SUBSET Listed :
        \E A \in FirstRows(Offset(page)), B \in FirstRows(Offset(page) + PageLength) :
            A \subseteq B /\ rows = B \ A}

PagesFor(total) == Max({1, (total + PageLength - 1) \div PageLength})

-----------------------------------------------------------------------------
(* The reader.                                                             *)

Open ==
    /\ ~Started
    /\ reader' = [reader EXCEPT !.does = "asks"]
    /\ steady' = {r \in Listed : \A q \in Listed \ {r} : place[q] # place[r]}
    /\ UNCHANGED <<list, place, torn>>

CountRows ==
    /\ reader.does = "asks"
    /\ reader' = [reader EXCEPT !.does = "fetches", !.pages = PagesFor(Cardinality(Listed))]
    /\ torn' = FALSE
    /\ UNCHANGED <<list, place, steady>>

FetchPage ==
    /\ reader.does = "fetches"
    /\ \E rows \in PagesAt(reader.page) :
         reader' = [reader EXCEPT
            !.shown = @ \cup rows,
            !.page = @ + 1,
            !.does = IF reader.page < reader.pages THEN "asks" ELSE "done"]
    /\ UNCHANGED <<list, place, steady, torn>>

-----------------------------------------------------------------------------
(* The writers.  Until the reading begins the list is only filled; what    *)
(* moved or left before is of no account to it.  A transaction that writes *)
(* several rows comes as several steps with no statement of the reader     *)
(* between them.                                                           *)

Disturbs == torn' = (torn \/ reader.does = "fetches")

(* A row that comes to an occupied place makes both unsteady.              *)
Shared(p) == {r \in Listed : place[r] = p}
Free(p) == list.together \/ Shared(p) = {}

Behind(p) == {r \in Listed : ~Before(place[r], p)}

(* An instant is the begin of the transaction that writes (now()), so that *)
(* a row may come behind rows committed before it.                         *)
Insert(r, p) ==
    /\ reader.does # "done"
    /\ place[r] = NoRow /\ Free(p)
    /\ place' = [place EXCEPT ![r] = p]
    /\ steady' = steady \ Shared(p)
    /\ Disturbs
    /\ UNCHANGED <<list, reader>>

(* A row moves when an UPDATE sets its instant or what it is ranked by,    *)
(* like the date of an event.                                              *)
Touch(r, p) ==
    /\ reader.does \in {"asks", "fetches"}
    /\ list.by \in {"changed", "ranked"} /\ r \in Listed
    /\ place[r] # p /\ Free(p)
    /\ place' = [place EXCEPT ![r] = p]
    /\ steady' = steady \ ({r} \cup Shared(p) \cup (Behind(place[r]) \ Behind(p)))
    /\ Disturbs
    /\ UNCHANGED <<list, reader>>

Leave(r) ==
    /\ reader.does \in {"asks", "fetches"}
    /\ list.leaves /\ r \in Listed
    /\ place' = [place EXCEPT ![r] = NoRow]
    /\ steady' = steady \ ({r} \cup Behind(place[r]))
    /\ Disturbs
    /\ UNCHANGED <<list, reader>>

ListNext ==
    \/ Open \/ CountRows \/ FetchPage
    \/ \E r \in Rows : Leave(r)
    \/ \E r \in Rows, p \in 1..LastKey : Insert(r, p) \/ Touch(r, p)

ListSpec == ListInit /\ [][ListNext]_listVars

-----------------------------------------------------------------------------
(* Whoever pages through a list has been shown every row that was listed   *)
(* from the start, stayed alone where it was, and behind no row that then  *)
(* dropped out or fell behind it; whatever else was added, moved or        *)
(* dropped meanwhile, unless that was between the last count and its page  *)
(* (the offset queries of the services).                                   *)
PagesMissNothing ==
    reader.does = "done" /\ ~torn => steady \subseteq reader.shown
=============================================================================
