------------------------------ MODULE StableSort ------------------------------
(***************************************************************************)
(* list.sort of Python: the entries of a list that have a key, by rising   *)
(* key; entries of one key stay in the order they had.                     *)
(***************************************************************************)
EXTENDS Naturals, FiniteSets

Smaller(key, i) ==
    {j \in DOMAIN key : key[j] < key[i] \/ (key[j] = key[i] /\ j < i)}

SortPlace(key, i) == Cardinality(Smaller(key, i)) + 1

SortedBy(list, key) ==
    [k \in 1..Cardinality(DOMAIN key) |->
        list[CHOOSE i \in DOMAIN key : SortPlace(key, i) = k]]
=============================================================================
