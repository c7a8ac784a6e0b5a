------------------------------ MODULE MCConsoles ------------------------------
(* Searching, paging and counting share no state: each behaviour follows   *)
(* one of them while the others rest.                                      *)
EXTENDS CaseSearch, Listings, Tallies
CONSTANTS r1, r2, r3, r4, t1, t2
Sym == Permutations({r1, r2, r3, r4}) \cup Permutations({t1, t2})

ListRests == ListInit /\ list = AuditLog
TallyRests == TallyInit /\ board = "inbox_figures" /\ table = [r \in TableRows |-> Missing]

(* Bound: the rows that one commit changes are alike afterwards.           *)
Values == Boards[board].rows \cup {Missing}
TallyStep ==
    \/ AskNext
    \/ \E r \in TableRows, value \in Values : CommitRows([table EXCEPT ![r] = value])
    \/ \E value \in Values : CommitRows([r \in TableRows |-> value])

ConsolesInit ==
    /\ SearchInit
    /\ \/ ListRests /\ TallyInit
       \/ ListInit /\ TallyRests
ConsolesNext ==
    \/ ListRests /\ TallyRests /\ SearchNext /\ UNCHANGED <<listVars, tallyVars>>
    \/ SearchInit /\ TallyRests /\ ListNext /\ UNCHANGED <<searchVars, tallyVars>>
    \/ SearchInit /\ ListRests /\ TallyStep /\ UNCHANGED <<searchVars, listVars>>
ConsolesSpec == ConsolesInit /\ [][ConsolesNext]_<<searchVars, listVars, tallyVars>>
=============================================================================
