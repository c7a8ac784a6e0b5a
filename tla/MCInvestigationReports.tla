------------------------ MODULE MCInvestigationReports ------------------------
(* Small instances of InvestigationReports: how often each operation comes. *)
EXTENDS InvestigationReports, TLC

(* Two generations that overlap with every other kind of request, and a fault. *)
OverlapBudget ==
    [create |-> 1, generate |-> 2, publish |-> 1, version |-> 1, delete |-> 1, export |-> 1,
     fault |-> 1]
=============================================================================
