----------------------------- MODULE CaseSearch -----------------------------
(***************************************************************************)
(* Searching for one query: SearchService over all the cases a user may    *)
(* see, AIIntelligenceService.search_evidence within a case, and the       *)
(* OpenSearch index both consult.  An evidence item is told by how the     *)
(* query occurs in it.                                                     *)
(***************************************************************************)
EXTENDS Naturals, Sequences, FiniteSets, SequencesExt, FiniteSetsExt, StableSort

CONSTANTS
    Cases, Items,
    PerType,    \* _MAX_PER_TYPE: 30
    IndexSize,  \* size: 20
    Fallback,   \* limit of the search without the index: 20
    PageSize,
    NoItem, NoCase

ASSUME SearchAssumption ==
    /\ {PerType, IndexSize, Fallback, PageSize} \subseteq Nat \ {0}
    /\ IsFiniteSet(Items) /\ IsFiniteSet(Cases) /\ NoCase \notin Cases

VARIABLES
    dossier,  \* the cases: not removed, open to the user
    item,     \* the evidence items
    indexed,  \* items with a document in the index
    up        \* OpenSearch answers

searchVars == <<dossier, item, indexed, up>>

(* A word of the filename; a word of the text; a part of a word, or past   *)
(* the 50,000 characters indexed; only as an entity or keyword.            *)
Occurrences == {"name", "text", "part", "entity"}
Item == [case : Cases, occurs : Occurrences, live : BOOLEAN, read : BOOLEAN]

SearchInit ==
    /\ dossier = [c \in Cases |-> [live |-> TRUE, open |-> TRUE]]
    /\ item = [i \in Items |-> NoItem]
    /\ indexed = {}
    /\ up = TRUE

Known == {i \in Items : item[i] # NoItem}
AtMost(S, n) == {T \in SUBSET S : Cardinality(T) = Min({n, Cardinality(S)})}

-----------------------------------------------------------------------------
(* The index.                                                              *)

(* opensearch_service.search: the analyser matches whole words.            *)
Matching(S) == {i \in S \cap indexed : up /\ item[i].occurs \in {"name", "text", "entity"}}

(* Slip: the case is read from the document. *)
HitCaseStored(i) == item[i].case

(* A hit has an evidence id, a filename and a score, but no case.          *)
HitCase(i) == NoCase

-----------------------------------------------------------------------------
(* Without the index: LIKE on the filename and the extracted text.         *)

Like(i) ==
    \/ item[i].occurs = "name"
    \/ item[i].read /\ item[i].occurs \in {"text", "part"}

(* search_evidence: what it may return for a case.                         *)
InCase(c) ==
    LET ofCase == {i \in Known : item[i].case = c}
        hits == Matching(ofCase)
    IN IF hits # {} THEN AtMost(hits, IndexSize)
       ELSE AtMost({i \in ofCase : item[i].live /\ Like(i)}, Fallback)

-----------------------------------------------------------------------------
(* The search over all cases.                                              *)

Accessible == {c \in Cases : dossier[c].live /\ dossier[c].open}
Within(S) == {i \in S : item[i].case \in Accessible}

(* Cases, and with them their notes and tasks; a user is never found,      *)
(* since nobody holds a permission on "users".                             *)
CasesFound == AtMost(Accessible, PerType)
EvidenceFound == AtMost({i \in Within(Known) : item[i].live /\ Like(i)}, PerType)

(* Summaries, entities and events of an item; they stay when it is removed. *)
ExtractsFound == AtMost({i \in Within(Known) : item[i].read}, PerType)

(* Hits of the index that the tables did not give, in a case of the user.  *)
Merged(found) == {i \in Matching(Known) \ found : HitCase(i) \in Accessible}

(* all_items: the lists one after the other.                               *)
Found ==
    {<<cs, ev \cup Merged(ev), ex>> : cs \in CasesFound, ev \in EvidenceFound, ex \in ExtractsFound}

AllItems(found) ==
    LET rows(k) == SetToSeq({k} \X found[k]) IN rows(1) \o rows(2) \o rows(3)

(* A hit in the title counts 3, in the text 1, that of an extract is       *)
(* weighted by its confidence.                                             *)
Score(r) == CASE r[1] = 3 -> 2
              [] r[1] = 2 /\ item[r[2]].occurs = "name" -> 3
              [] OTHER -> 1

(* all_items.sort: best first.                                             *)
Ranked(found) ==
    LET all == AllItems(found) IN SortedBy(all, [i \in DOMAIN all |-> 3 - Score(all[i])])

Pages(n) == Max({1, (n + PageSize - 1) \div PageSize})

Page(s, k) == SubSeq(s, (k - 1) * PageSize + 1, Min({Len(s), k * PageSize}))

-----------------------------------------------------------------------------
(* What happens to the evidence meanwhile.                                 *)

Upload(i, c, how) ==
    /\ item[i] = NoItem /\ dossier[c].live
    /\ item' = [item EXCEPT ![i] = [case |-> c, occurs |-> how, live |-> TRUE, read |-> FALSE]]
    /\ UNCHANGED <<dossier, indexed, up>>

(* The pipeline extracts the text, later it writes the document.           *)
ReadText(i) ==
    /\ item[i] # NoItem /\ ~item[i].read
    /\ item' = [item EXCEPT ![i].read = TRUE]
    /\ UNCHANGED <<dossier, indexed, up>>

(* index_evidence: without the index, nothing and no error.                *)
IndexItem(i) ==
    /\ item[i] # NoItem /\ item[i].read /\ up
    /\ indexed' = indexed \cup {i}
    /\ UNCHANGED <<dossier, item, up>>

(* Its document stays: delete_evidence has no caller.                      *)
RemoveItem(i) ==
    /\ item[i] # NoItem /\ item[i].live /\ dossier[item[i].case].live
    /\ item' = [item EXCEPT ![i].live = FALSE]
    /\ UNCHANGED <<dossier, indexed, up>>

CloseDossier(c) ==
    /\ dossier[c].live
    /\ dossier' = [dossier EXCEPT ![c].live = FALSE]
    /\ UNCHANGED <<item, indexed, up>>

(* The case is made private or public, the user assigned or taken off.     *)
Reassign(c) ==
    /\ dossier[c].live
    /\ dossier' = [dossier EXCEPT ![c].open = ~@]
    /\ UNCHANGED <<item, indexed, up>>

(* OpenSearch goes away and comes back with its documents.                 *)
Toggle == up' = ~up /\ UNCHANGED <<dossier, item, indexed>>

SearchNext ==
    \/ \E i \in Items, c \in Cases, how \in Occurrences : Upload(i, c, how)
    \/ \E i \in Items : ReadText(i) \/ IndexItem(i) \/ RemoveItem(i)
    \/ \E c \in Cases : CloseDossier(c) \/ Reassign(c)
    \/ Toggle

SearchSpec == SearchInit /\ [][SearchNext]_searchVars

-----------------------------------------------------------------------------
(* Properties.                                                             *)

(* The search over all cases shows nothing of a case that is removed or    *)
(* closed to the user, and no evidence that was removed, although the      *)
(* index keeps documents of both (SearchService.search).                   *)
OnlyOpenCases ==
    \A found \in Found :
        /\ found[1] \subseteq Accessible
        /\ \A i \in found[2] \cup found[3] : item[i].case \in Accessible
        /\ \A i \in found[2] : item[i].live

(* Losing the index loses no words: an item that is indexed, not removed   *)
(* and has the query as a word is found in its case with and without the   *)
(* index; before it is indexed, unless the index has another item to show  *)
(* (search_evidence).                                                      *)
WordsFound ==
    \A i \in {j \in Known : item[j].live /\ item[j].occurs \in {"name", "text"} /\ item[j].read} :
        LET c == item[i].case
            others == {j \in Matching(Known) : item[j].case = c}
        IN i \in indexed \/ others = {} => \A result \in InCase(c) :
              i \in result \/ Cardinality(result) >= Min({IndexSize, Fallback})

(* The pages of a result are the result: everything found, once, best      *)
(* first; and the counts beside it add up to its length                    *)
(* (SearchService.search).                                                 *)
ResultsComplete ==
    \A found \in Found :
        LET s == Ranked(found) IN
        /\ FlattenSeq([k \in 1..Pages(Len(s)) |-> Page(s, k)]) = s
        /\ ToSet(s) = UNION {{k} \X found[k] : k \in 1..3}
        /\ Len(s) = Cardinality(found[1]) + Cardinality(found[2]) + Cardinality(found[3])
        /\ \A i \in 1..Len(s) - 1 : Score(s[i]) >= Score(s[i + 1])

(* The ways to search agree with the evidence and with one another.        *)
SearchAgrees == OnlyOpenCases /\ WordsFound /\ ResultsComplete
=============================================================================
