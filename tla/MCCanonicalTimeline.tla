----------------------- MODULE MCCanonicalTimeline -----------------------
(* Small instances of CanonicalTimeline: which requests arrive, how often. *)
EXTENDS CanonicalTimeline, TLC

None == [op \in Operations |-> 0]

(* Curation of two events under overlapping requests. *)
CurationAllowed ==
    [None EXCEPT !.create = 1, !.update = 1, !.delete = 1, !.pin = 1, !.verify = 1, !.merge = 1,
                 !.split = 1]

Sym == Permutations(Ids) \cup Permutations(Origins) \cup Permutations(Requests)

(* Merging, splitting and ingesting, three events. *)
FoldingAllowed ==
    [None EXCEPT !.create = 2, !.delete = 1, !.merge = 2, !.split = 1, !.ingest = 2]
=============================================================================
