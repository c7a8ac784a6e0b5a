----------------------------- MODULE MCCaseDesk -----------------------------
EXTENDS AlertInbox, TLC
CONSTANTS q1, q2, c1, c2, k1, k2
Sym == Permutations({q1, q2}) \cup Permutations({c1, c2})
=============================================================================
