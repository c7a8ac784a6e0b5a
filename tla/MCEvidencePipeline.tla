------------------------ MODULE MCEvidencePipeline ------------------------
(* Small instances of EvidencePipeline for TLC: how much trouble each run  *)
(* allows, and the retry limits (3 and 2 in the code, smaller here).       *)
EXTENDS EvidencePipeline, TLC

MCMaxRetries == [process |-> 1, match |-> 1]

NoTrouble == [t \in Troubles |-> 0]

(* Two slots whose runs overlap after a visibility timeout, with failures  *)
(* in the stages and an ingest on demand.                                  *)
OverlapTrouble ==
    [NoTrouble EXCEPT !.redelivery = 1, !.stageFailure = 1, !.ingest = 1]

(* Two slots and every fault, two of them in one behaviour: messages are   *)
(* repeated and dropped, tries used up, processes die, commits fail.       *)
FaultTrouble ==
    [NoTrouble EXCEPT !.crash = 1, !.childLoss = 1, !.sendFailure = 1, !.redelivery = 1,
                      !.dbError = 2, !.stageFailure = 1, !.exception = 1]

MostTroubles == 2

TroublesSpent == UNION {{<<t, n>> : n \in left[t] + 1 .. Allowed[t]} : t \in Troubles}
FewTroubles == Cardinality(TroublesSpent) <= MostTroubles

WorkerSymmetry == Permutations(Workers)
=============================================================================
