--------------------------- MODULE MCAuthSessions ---------------------------
(* A small instance of AuthSessions: one account, two requests at a time.  *)
EXTENDS AuthSessions, TLC

CONSTANTS q1, q2

SameRequests == Permutations({q1, q2})
=============================================================================
