---------------------------- MODULE CaseRecords ----------------------------
(***************************************************************************)
(* Cases, their teams, tasks, notes and activity feed: CaseService over    *)
(* CaseRepository.  A request loads its rows in its own session when it    *)
(* begins (the action named after it) and writes the columns it changed    *)
(* when it commits.  Years go by: reference numbers start again in each.   *)
(***************************************************************************)
EXTENDS Naturals, Sequences, FiniteSets

CONSTANTS
    Cases, Tasks, Notes,
    Earlier,      \* a case that has been filed before
    Users,
    Filers,       \* users who hold case:create
    Supervisors,  \* users who hold case:assign or case:delete
    Requests,     \* requests that may be on their way at once
    Statuses,     \* CaseStatus: "open", "closed", "archived" among them
    MaxServed,    \* how many requests come in one behaviour
    LastYear,
    Idle, NoRow

Years == 0..LastYear
TaskStatuses == {"pending", "in_progress", "completed", "cancelled"}

Case == [number : Years \X (Nat \ {0}), created : Years, status : Statuses,
         archived : BOOLEAN, closed : BOOLEAN, deleted : BOOLEAN,
         private : BOOLEAN, starred : BOOLEAN, owner : Users]
CaseColumns == {"status", "archived", "closed", "deleted", "private", "starred"}
Task == [case : Cases, status : TaskStatuses, completed : BOOLEAN]
Note == [case : Cases, author : Users]
Words == {"created", "updated", "archived", "restored", "assigned", "completed", "deleted"}
Activity == [about : Cases \cup Tasks \cup Notes, what : Words]

ASSUME CaseAssumption ==
    /\ {"open", "closed", "archived"} \subseteq Statuses
    /\ Supervisors \subseteq Users /\ Filers \subseteq Users /\ Earlier \in Cases
    /\ MaxServed \in Nat /\ LastYear \in Nat
    /\ IsFiniteSet(Cases)

(* Identifiers are UUIDs, of one row of one table; no row is none of them. *)
ASSUME RowAssumption ==
    /\ Cases \cap Tasks = {} /\ Cases \cap Notes = {} /\ Tasks \cap Notes = {}
    /\ NoRow \notin Cases \cup Tasks \cup Notes
    /\ NoRow \notin Users
    /\ NoRow \notin Case /\ NoRow \notin Task /\ NoRow \notin Note

VARIABLES
    case,      \* rows of cases
    team,      \* assigned users of each case
    task,      \* rows of tasks
    note,      \* rows of notes
    log,       \* activity feed, oldest first
    year,
    req,       \* requests on their way
    served,    \* requests begun
    byHand,    \* cases whose archived status was not left to archive and restore
    straddled, \* a creation has begun in one year and taken a number in the next
    overlaid   \* tasks of which an update committed on top of an update that
               \* came after it had read

vars == <<case, team, task, note, log, year, req, served, byHand, straddled, overlaid>>

NewCase(u, status, private, number, created) ==
    [number |-> number, created |-> created, status |-> status,
     archived |-> FALSE, closed |-> FALSE, deleted |-> FALSE,
     private |-> private, starred |-> FALSE, owner |-> u]

Exists(c) == case[c] # NoRow
Filed == {c \in Cases : Exists(c)}

(* Type invariant: rows, their references, and the unique number.          *)
TypeOK ==
    /\ case \in [Cases -> Case \cup {NoRow}]
    /\ \A c, d \in Filed : case[c].number = case[d].number => c = d
    /\ team \in [Cases -> SUBSET Users]
    /\ task \in [Tasks -> Task \cup {NoRow}]
    /\ note \in [Notes -> Note \cup {NoRow}]
    /\ \A i \in 1..Len(log) : log[i] \in Activity
    /\ \A c \in Cases : ~Exists(c) => team[c] = {}
    /\ \A t \in Tasks : task[t] # NoRow => Exists(task[t].case)
    /\ \A n \in Notes : note[n] # NoRow => Exists(note[n].case)
    /\ year \in Years
    /\ served \in 0..MaxServed

Init ==
    /\ \E u \in Filers, private \in BOOLEAN :
         case = [c \in Cases |-> IF c = Earlier THEN NewCase(u, "open", private, <<0, 1>>, 0) ELSE NoRow]
    /\ team = [c \in Cases |-> {}]
    /\ task = [t \in Tasks |-> NoRow]
    /\ note = [n \in Notes |-> NoRow]
    /\ log = <<>>
    /\ year = 0
    /\ req = [q \in Requests |-> Idle]
    /\ served = 0
    /\ byHand = {}
    /\ straddled = FALSE
    /\ overlaid = {}

-----------------------------------------------------------------------------
(* Who may see a case.                                                     *)

(* get_active *)
Active(c) == Exists(c) /\ ~case[c].deleted

(* _assert_can_view *)
CanView(u, c) ==
    \/ ~case[c].private
    \/ case[c].owner = u
    \/ u \in team[c]
    \/ u \in Supervisors

-----------------------------------------------------------------------------
(* Requests.  One that has read so far writes nothing.                     *)

Reading(about) ==
    [kind |-> "update", about |-> about, set |-> <<>>, log |-> <<>>,
     row |-> <<>>, loaded |-> {}, wanted |-> {}, year |-> year, stale |-> FALSE]

Sends(q, request) ==
    /\ req[q] = Idle
    /\ served < MaxServed
    /\ served' = served + 1
    /\ req' = [req EXCEPT ![q] = request]
    /\ UNCHANGED <<case, team, task, note, log, year, byHand, straddled, overlaid>>

(* An identifier is new: no request and no activity is about it. *)
Fresh(x) ==
    /\ \A p \in Requests : req[p] # Idle => req[p].about # x
    /\ \A i \in 1..Len(log) : log[i].about # x

(* Slip: every column goes back as it was loaded. *)
ChangesWholeRow(row, want, columns, stamped) == [c \in columns |-> want[c]]

(* SQLAlchemy: the columns with a new value; a time stamp always is one.   *)
Changes(row, want, columns, stamped) ==
    [c \in {d \in columns : want[d] # row[d]} \cup stamped |-> want[c]]

Updates(c, want, stamped, what) ==
    [Reading(c) EXCEPT !.set = Changes(case[c], want, CaseColumns, stamped), !.log = what]

(* Slip: the count itself is the number. *)
NextNumberCount == <<year, Cardinality({c \in Filed : case[c].created = year})>>

(* Slip: removed cases are not counted. *)
NextNumberLive == <<year, Cardinality({c \in Filed : case[c].created = year /\ ~case[c].deleted}) + 1>>

(* generate_reference_number: cases created this year, plus one.           *)
NextNumber == <<year, Cardinality({c \in Filed : case[c].created = year}) + 1>>

(* The transaction has begun with the authentication of the request, and   *)
(* its time stamps the row; the number is read from the clock afterwards.  *)
BeginCreate(q) == Sends(q, [Reading(NoRow) EXCEPT !.kind = "began"])

Create(q, u, c, status, private) ==
    /\ req[q] # Idle /\ req[q].kind = "began"
    /\ ~Exists(c) /\ \A p \in Requests : req[p] # Idle => req[p].about # c
    /\ req' = [req EXCEPT ![q] = [@ EXCEPT
         !.kind = "insert", !.about = c, !.log = <<"created">>,
         !.row = NewCase(u, status, private, NextNumber, req[q].year)]]
    /\ straddled' = (straddled \/ req[q].year # year)
    /\ UNCHANGED <<case, team, task, note, log, year, served, byHand, overlaid>>

MayWrite(u, c) == Active(c) /\ CanView(u, c)

Closes(row, status) == row.closed \/ status = "closed"

UpdateStatus(q, u, c, status) ==
    /\ MayWrite(u, c)
    /\ Sends(q, Updates(c, [case[c] EXCEPT !.status = status, !.closed = Closes(case[c], status)],
                        IF status = "closed" /\ ~case[c].closed THEN {"closed"} ELSE {}, <<"updated">>))

(* is_private and is_starred are not logged; star and unstar do the same.  *)
UpdateFlags(q, u, c, private, starred) ==
    /\ MayWrite(u, c)
    /\ Sends(q, Updates(c, [case[c] EXCEPT !.private = private, !.starred = starred], {}, <<>>))

Archive(q, u, c) ==
    /\ MayWrite(u, c)
    /\ ~case[c].archived
    /\ Sends(q, Updates(c, [case[c] EXCEPT !.archived = TRUE, !.status = "archived"],
                        {"archived"}, <<"archived">>))

Restored(row) == [row EXCEPT !.archived = FALSE, !.status = "open"]

Restore(q, u, c) ==
    /\ MayWrite(u, c)
    /\ case[c].archived
    /\ Sends(q, Updates(c, Restored(case[c]), {}, <<"restored">>))

SoftDelete(q, u, c) ==
    /\ MayWrite(u, c)
    /\ Sends(q, Updates(c, [case[c] EXCEPT !.deleted = TRUE], {"deleted"}, <<>>))

(* The loaded members are deleted, the entries inserted.                   *)
AssignUsers(q, u, c, entries) ==
    /\ MayWrite(u, c)
    /\ Sends(q, [Reading(c) EXCEPT
         !.kind = "assign", !.loaded = team[c], !.wanted = entries, !.log = <<"assigned">>])

CreateTask(q, u, c, t) ==
    /\ MayWrite(u, c)
    /\ task[t] = NoRow /\ Fresh(t)
    /\ Sends(q, [Reading(t) EXCEPT
         !.kind = "insert", !.log = <<"created">>,
         !.row = [case |-> c, status |-> "pending", completed |-> FALSE]])

(* Slip: every completion is logged as the first. *)
FirstCompletionAny(row, status) == status = "completed"

FirstCompletion(row, status) == status = "completed" /\ ~row.completed

UpdateTask(q, u, t, status) ==
    LET row == task[t]
        first == FirstCompletion(row, status) IN
    /\ row # NoRow /\ MayWrite(u, row.case)
    /\ Sends(q, [Reading(t) EXCEPT
         !.set = Changes(row, [row EXCEPT !.status = status, !.completed = @ \/ first],
                         {"status", "completed"}, IF first THEN {"completed"} ELSE {}),
         !.log = IF first THEN <<"completed">> ELSE <<>>])

DeleteTask(q, u, t) ==
    /\ task[t] # NoRow /\ MayWrite(u, task[t].case)
    /\ Sends(q, [Reading(t) EXCEPT !.kind = "delete"])

CreateNote(q, u, c, n) ==
    /\ MayWrite(u, c)
    /\ note[n] = NoRow /\ Fresh(n)
    /\ Sends(q, [Reading(n) EXCEPT
         !.kind = "insert", !.log = <<"created">>, !.row = [case |-> c, author |-> u]])

(* Columns of a note are not told apart; updated_by_id says who wrote.     *)
UpdateNote(q, u, n) ==
    /\ note[n] # NoRow /\ MayWrite(u, note[n].case)
    /\ Sends(q, [Reading(n) EXCEPT !.set = [author |-> note[n].author]])

DeleteNote(q, u, n) ==
    /\ note[n] # NoRow /\ MayWrite(u, note[n].case)
    /\ Sends(q, [Reading(n) EXCEPT !.kind = "delete", !.log = <<"deleted">>])

-----------------------------------------------------------------------------
(* Commits.                                                                *)

Over(row, set) == [c \in DOMAIN row |-> IF c \in DOMAIN set THEN set[c] ELSE row[c]]

(* INSERT, UPDATE or DELETE of the row of x in a table.                    *)
Stored(table, r) ==
    CASE r.about \notin DOMAIN table -> table
      [] r.about \in DOMAIN table /\ r.kind = "insert" -> [table EXCEPT ![r.about] = r.row]
      [] r.about \in DOMAIN table /\ r.kind = "delete" -> [table EXCEPT ![r.about] = NoRow]
      [] r.about \in DOMAIN table /\ r.kind = "update" -> [table EXCEPT ![r.about] = Over(@, r.set)]
      [] OTHER -> table

(* An UPDATE of a row that is gone, a number or a member that exists       *)
(* already: the request fails and writes nothing.                          *)
Refused(r) ==
    \/ r.kind = "insert" /\ r.about \in Cases /\ \E c \in Filed : case[c].number = r.row.number
    \/ r.kind = "update" /\ r.about \in Tasks /\ task[r.about] = NoRow
    \/ r.kind = "update" /\ r.about \in Notes /\ note[r.about] = NoRow
    \/ r.kind = "assign" /\ (team[r.about] \ r.loaded) \cap r.wanted # {}

Finished(q) == [req EXCEPT ![q] = Idle]

Fails(q) ==
    /\ req[q] # Idle /\ req[q].kind # "began"
    /\ Refused(req[q])
    /\ req' = Finished(q)
    /\ UNCHANGED <<case, team, task, note, log, year, served, byHand, straddled, overlaid>>

NewTeam(r) == (team[r.about] \ r.loaded) \cup r.wanted

(* A creation or an update that writes the status of an archived case, or  *)
(* that status.                                                            *)
ByHand(r) ==
    /\ r.about \in Cases
    /\ \/ r.kind = "insert" /\ r.row.status = "archived"
       \/ /\ r.kind = "update" /\ r.log = <<"updated">> /\ "status" \in DOMAIN r.set
          /\ r.set["status"] = "archived" \/ case[r.about].archived

Commit(q) ==
    LET r == req[q] IN
    /\ r # Idle /\ r.kind # "began"
    /\ ~Refused(r)
    /\ case' = Stored(case, r)
    /\ task' = Stored(task, r)
    /\ note' = Stored(note, r)
    /\ team' = IF r.kind = "assign" THEN [team EXCEPT ![r.about] = NewTeam(r)] ELSE team
    /\ log' = log \o [i \in DOMAIN r.log |-> [about |-> r.about, what |-> r.log[i]]]
    /\ byHand' = byHand \cup (IF ByHand(r) THEN {r.about} ELSE {})
    /\ overlaid' = overlaid \cup (IF r.stale THEN {r.about} ELSE {})
    /\ req' = [p \in Requests |->
                 IF p # q /\ req[p] # Idle
                 THEN [req[p] EXCEPT !.stale = @ \/ (r.about \in Tasks /\ req[p].about = r.about)]
                 ELSE Idle]
    /\ UNCHANGED <<year, served, straddled>>

NewYear ==
    /\ year < LastYear
    /\ year' = year + 1
    /\ UNCHANGED <<case, team, task, note, log, req, served, byHand, straddled, overlaid>>

-----------------------------------------------------------------------------

(* The routes of /cases. *)
CaseRoutes(q, u) ==
    \/ \E c \in Cases, status \in Statuses : UpdateStatus(q, u, c, status)
    \/ /\ u \in Filers
       /\ \E c \in Cases, status \in Statuses, private \in BOOLEAN : Create(q, u, c, status, private)
    \/ \E c \in Filed :
         \/ UpdateFlags(q, u, c, ~case[c].private, case[c].starred)
         \/ UpdateFlags(q, u, c, case[c].private, ~case[c].starred)
    \/ \E c \in Cases : Archive(q, u, c) \/ Restore(q, u, c) \/ SoftDelete(q, u, c)
    \/ \E c \in Cases, entries \in SUBSET Users : AssignUsers(q, u, c, entries)

(* The routes of /cases/{case_id}/tasks and /notes. *)
WorkRoutes(q, u) ==
    \/ \E c \in Cases, t \in Tasks : CreateTask(q, u, c, t)
    \/ \E t \in Tasks, status \in TaskStatuses : UpdateTask(q, u, t, status)
    \/ \E t \in Tasks : DeleteTask(q, u, t)
    \/ \E c \in Cases, n \in Notes : CreateNote(q, u, c, n)
    \/ \E n \in Notes : UpdateNote(q, u, n) \/ DeleteNote(q, u, n)

Next ==
    \/ \E q \in Requests : BeginCreate(q) \/ Commit(q) \/ Fails(q)
    \/ \E q \in Requests, u \in Users : CaseRoutes(q, u) \/ WorkRoutes(q, u)
    \/ NewYear

Spec == Init /\ [][Next]_vars

-----------------------------------------------------------------------------
(* Properties.                                                             *)

(* The next number is free, so that a case can always be filed, unless a   *)
(* creation began in one year and took its number in the next: its row     *)
(* counts for the old year and holds the first number of the new one, and  *)
(* every later creation of that year computes that number again            *)
(* (generate_reference_number).                                            *)
NextNumberFree == ~straddled => \A c \in Filed : case[c].number # NextNumber

(* A case is archived exactly when its status says so, whatever requests   *)
(* overlap, unless a creation or an update has written that status itself: *)
(* archive and restore move both columns, the others only one.             *)
ArchiveAgrees ==
    \A c \in Filed \ byHand :
        case[c].archived <=> case[c].status = "archived"

(* A task that is completed has its time, whatever requests overlap, and   *)
(* its first completion is logged once, however often it is opened again   *)
(* (update_task), unless two updates of it overlapped.                     *)
CompletedOnce ==
    /\ \A t \in Tasks : task[t] # NoRow /\ task[t].status = "completed" => task[t].completed
    /\ \A t \in Tasks \ overlaid :
         Cardinality({i \in 1..Len(log) : log[i] = [about |-> t, what |-> "completed"]}) <= 1

(* What two columns, or a column and the feed, say of a case or a task is  *)
(* the same (update, archive, restore, update_task).                       *)
CaseFlagsAgree == ArchiveAgrees /\ CompletedOnce
=============================================================================
