--------------------------- MODULE MCEvidenceVault ---------------------------
(* Small instances of EvidenceVault: which requests and faults come. *)
EXTENDS EvidenceVault, TLC

None == [what \in Requests \cup Faults |-> 0]

(* Uploads against removals and other requests, with every fault once. *)
RequestBudget ==
    [None EXCEPT !.star = 1, !.verify = 1, !.delete = 2,
                 !.tooLarge = 1, !.diskError = 1, !.crash = 1, !.caseRemoval = 1,
                 !.tampering = 1]

UploadSymmetry == Permutations(Uploads) \cup Permutations(Contents) \cup Permutations(Threads)
=============================================================================
