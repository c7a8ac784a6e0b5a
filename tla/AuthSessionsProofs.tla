------------------------- MODULE AuthSessionsProofs -------------------------
(* Locks, guesses and tokens, for any number of accounts, any number of    *)
(* requests that overlap, and any limit of failed attempts.                *)
EXTENDS AuthSessions, FiniteSetTheorems, TLAPS

(***************************************************************************)
(* The inductive invariant.  What a commit does to a row depends on the    *)
(* row that its request has read, so the invariant tells what each request *)
(* on its way will write, and how far the row it read is still the row.    *)
(***************************************************************************)

Fields == {"user", "set", "from", "seen", "stale", "revoke", "revokeAll", "close",
           "closeAll", "login", "parent", "voidResets", "newReset", "uses", "wrong", "clears"}

Pending == {q \in Requests : req[q] # Idle}

(* A column as the request leaves it in a row. *)
After(set, row, c) == IF c \in DOMAIN set THEN set[c] ELSE row[c]

(* A lock in the row is only taken away by who has read it there. *)
LiftsKnowingly(set, row) ==
    "locked" \in DOMAIN set => set["locked"] \in BOOLEAN /\ (row["locked"] \/ set["locked"])

Guesses(set, row) ==
    /\ row["locked"] => row["until"] # "future"
    /\ "failed" \in DOMAIN set /\ set["failed"] = row["failed"] + 1
    /\ IF row["failed"] + 1 >= MaxFailed
       THEN After(set, row, "locked") = TRUE /\ "until" \in DOMAIN set /\ set["until"] = "future"
       ELSE "locked" \notin DOMAIN set /\ "until" \notin DOMAIN set

Clears(set, row) ==
    /\ After(set, row, "failed") = 0
    /\ After(set, row, "locked") = FALSE
    /\ After(set, row, "until") = "none"

Locks(set, row) ==
    /\ "failed" \notin DOMAIN set
    /\ After(set, row, "locked") = TRUE
    /\ "until" \in DOMAIN set /\ set["until"] = "future"

Spares(set) == {"failed", "locked", "until"} \cap DOMAIN set = {}

(* What each kind of request does to the lock. *)
Effect(set, row, wrong, clears) ==
    /\ LiftsKnowingly(set, row)
    /\ \/ wrong = TRUE /\ clears = FALSE /\ Guesses(set, row)
       \/ wrong = FALSE /\ clears = TRUE /\ Clears(set, row)
       \/ wrong = FALSE /\ clears = FALSE /\ (Locks(set, row) \/ Spares(set))

(* A row stays one whatever it was when the request commits. *)
Retypes(set) == \A row \in Row : [c \in Columns |-> After(set, row, c)] \in Row

IsRequest(r) ==
    /\ DOMAIN r = Fields
    /\ r["user"] \in Users /\ r["from"] \in Row /\ Retypes(r["set"])
    /\ r["stale"] \in BOOLEAN /\ r["login"] \in BOOLEAN
    /\ r["seen"] \in 0..Len(token)
    /\ r["revoke"] \subseteq Issued /\ r["parent"] \subseteq Issued
    /\ Effect(r["set"], r["from"], r["wrong"], r["clears"])

(* A row that has not been written since only lets its lock expire. *)
Agrees(old, new) ==
    /\ new["failed"] = old["failed"]
    /\ new["locked"] = old["locked"]
    /\ new["until"] = old["until"] \/ (old["until"] = "future" /\ new["until"] = "past")

(* The tables; a token comes from its own login or an earlier one. *)
Tables ==
    /\ user \in [Users -> Row]
    /\ token \in Seq(Token)
    /\ \A t \in Issued : token[t].login \in 1..t
    /\ session \subseteq {t \in Issued : token[t].login = t}
    /\ reset \in Seq(ResetToken)
    /\ spent \in Seq(Nat) /\ Len(spent) = Len(reset)
    /\ access \subseteq Users
    /\ raced \subseteq Users
    /\ served \in 0..MaxServed

RequestsRight ==
    /\ DOMAIN req = Requests
    /\ \A q \in Pending : IsRequest(req[q])

(* Of an account whose requests have not overlapped, a request that no     *)
(* commit has overtaken knows the row.                                     *)
ReadsCurrent ==
    \A q \in Pending :
        ~req[q]["stale"] /\ req[q]["user"] \notin raced =>
            Agrees(req[q]["from"], user[req[q]["user"]])

Counted(row, n) ==
    /\ n <= MaxFailed
    /\ row["failed"] >= MaxFailed => row["locked"]
    /\ row["locked"] <=> row["until"] # "none"
    /\ row["until"] # "future" => n = 0 \/ (n <= row["failed"] /\ row["failed"] < MaxFailed)

GuessesCounted ==
    /\ guesses \in [Users -> Nat]
    /\ \A u \in Users \ raced : Counted(user[u], guesses[u])

AuthInv ==
    /\ Tables
    /\ RequestsRight
    /\ ReadsCurrent
    /\ GuessesCounted

-----------------------------------------------------------------------------
(* Rows and what a request will write in them. *)

IsRow(row) ==
    /\ DOMAIN row = Columns
    /\ row["locked"] \in BOOLEAN
    /\ row["until"] \in Whiles
    /\ row["failed"] \in Nat

LEMMA RowIs ==
    ASSUME NEW row \in Row
    PROVE  IsRow(row)
  BY DEF Row, IsRow, Columns

LEMMA TokenIs ==
    ASSUME AuthInv, NEW t \in Issued
    PROVE  token[t] \in Token /\ token[t].user \in Users
  <1>1. token \in Seq(Token) /\ t \in 1..Len(token)
    BY DEF AuthInv, Tables, Issued
  <1>2. token[t] \in Token
    BY <1>1
  <1> QED
    BY <1>2 DEF Token

LEMMA ResetIs ==
    ASSUME AuthInv, NEW x \in Resets
    PROVE  reset[x] \in ResetToken /\ reset[x].user \in Users
  <1>1. reset \in Seq(ResetToken) /\ x \in 1..Len(reset)
    BY DEF AuthInv, Tables, Resets
  <1>2. reset[x] \in ResetToken
    BY <1>1
  <1> QED
    BY <1>2 DEF ResetToken

(* Every column of the wanted row is reached, and nothing else is written. *)
LEMMA ChangesReach ==
    ASSUME NEW row, NEW want, NEW stamped \in SUBSET Columns, NEW set,
           set = Changes(row, want, stamped)
    PROVE  /\ \A c \in DOMAIN set : set[c] = want[c] /\ (c \in stamped \/ want[c] # row[c])
           /\ \A c \in Columns : After(set, row, c) = want[c]
           /\ stamped \subseteq DOMAIN set
           /\ DOMAIN set \subseteq Columns
  BY DEF Changes, After

LEMMA ChangesRetype ==
    ASSUME NEW row, NEW want \in Row, NEW stamped \in SUBSET Columns
    PROVE  Retypes(Changes(row, want, stamped))
  <1> DEFINE set == Changes(row, want, stamped)
  <1> SUFFICES ASSUME NEW old \in Row
               PROVE  [c \in Columns |-> After(set, old, c)] \in Row
    BY DEF Retypes
  <1>1. \A c \in DOMAIN set : set[c] = want[c]
    BY ChangesReach
  <1> HIDE DEF set
  <1>2. \A c \in Columns : After(set, old, c) \in {want[c], old[c]}
    BY <1>1 DEF After
  <1> DEFINE new == [c \in Columns |-> After(set, old, c)]
  <1>3. new = [c \in Columns |-> new[c]] /\ \A c \in Columns : new[c] \in {want[c], old[c]}
    BY <1>2
  <1> HIDE DEF new
  <1>4. new \in Row
    BY <1>3 DEF Row, Columns
  <1> QED
    BY <1>4 DEF new

LEMMA UnlockedClears ==
    ASSUME NEW row \in Row, NEW want \in Row,
           want["failed"] = 0, want["locked"] = FALSE, want["until"] = "none",
           NEW set, set = Changes(row, want, {})
    PROVE  Effect(set, row, FALSE, TRUE) /\ Retypes(set)
  <1>1. /\ \A c \in DOMAIN set : set[c] = want[c] /\ want[c] # row[c]
        /\ \A c \in Columns : After(set, row, c) = want[c]
    BY ChangesReach
  <1>2. {"failed", "locked", "until"} \subseteq Columns
    BY DEF Columns
  <1>3. Clears(set, row)
    BY <1>1, <1>2 DEF Clears
  <1>4. LiftsKnowingly(set, row)
    <2> SUFFICES ASSUME "locked" \in DOMAIN set
                 PROVE  set["locked"] = FALSE /\ row["locked"] = TRUE
      BY DEF LiftsKnowingly
    <2> QED
      BY <1>1, RowIs DEF IsRow
  <1> QED
    BY <1>3, <1>4, ChangesRetype DEF Effect

(* A request that leaves the lock alone. *)
LEMMA SparesLock ==
    ASSUME NEW set, Spares(set), NEW row
    PROVE  Effect(set, row, FALSE, FALSE)
  BY DEF Effect, Spares, LiftsKnowingly

LEMMA ChangesSpare ==
    ASSUME NEW row, NEW want \in Row, NEW stamped \in SUBSET {"hash", "deleted", "active"},
           want["failed"] = row["failed"], want["locked"] = row["locked"],
           want["until"] = row["until"]
    PROVE  Spares(Changes(row, want, stamped)) /\ Retypes(Changes(row, want, stamped))
  <1>1. stamped \in SUBSET Columns
    BY DEF Columns
  <1>2. \A c \in DOMAIN Changes(row, want, stamped) : c \in stamped \/ want[c] # row[c]
    BY <1>1, ChangesReach
  <1>3. Spares(Changes(row, want, stamped))
    BY <1>2 DEF Spares
  <1> QED
    BY <1>1, <1>3, ChangesRetype

-----------------------------------------------------------------------------
(* A request on its way. *)

LEMMA SendsRight ==
    ASSUME AuthInv, NEW q \in Requests, NEW r, Sends(q, r), IsRequest(r),
           r["from"] = user[r["user"]]
    PROVE  AuthInv'
  <1>1. /\ req' = [req EXCEPT ![q] = r]
        /\ served < MaxServed /\ served' = served + 1
        /\ UNCHANGED <<user, token, session, reset, access, guesses, spent, raced>>
    BY DEF Sends
  <1>2. Tables'
    BY <1>1, AuthAssumption DEF AuthInv, Tables, Issued
  <1>3. RequestsRight'
    BY <1>1 DEF AuthInv, RequestsRight, Pending, IsRequest, Issued
  <1>4. ReadsCurrent'
    <2>1. Agrees(r["from"], user[r["user"]])
      BY DEF Agrees
    <2> QED
      BY <1>1, <2>1 DEF AuthInv, ReadsCurrent, RequestsRight, Pending
  <1>5. GuessesCounted'
    BY <1>1 DEF AuthInv, GuessesCounted
  <1> QED
    BY <1>2, <1>3, <1>4, <1>5 DEF AuthInv

(* What a request looks like when it has read u's row. *)
LEMMA ReadingFields ==
    ASSUME NEW u
    PROVE  /\ DOMAIN Reading(u) = Fields
           /\ Reading(u)["user"] = u /\ Reading(u)["from"] = user[u]
           /\ Reading(u)["seen"] = Len(token) /\ Reading(u)["stale"] = FALSE
           /\ Reading(u)["set"] = << >>
           /\ Reading(u)["wrong"] = FALSE /\ Reading(u)["clears"] = FALSE
           /\ Reading(u)["login"] = FALSE
           /\ Reading(u)["revoke"] = {} /\ Reading(u)["parent"] = {}
  BY DEF Reading, Fields

(* A request that has read u's row and asks for tokens that are there. *)
Reads(r, u) ==
    /\ DOMAIN r = Fields
    /\ r["user"] = u /\ r["from"] = user[u]
    /\ r["seen"] = Len(token) /\ r["stale"] = FALSE
    /\ r["login"] \in BOOLEAN
    /\ r["revoke"] \subseteq Issued /\ r["parent"] \subseteq Issued

(* It is in order if what it writes is. *)
LEMMA ReadsRight ==
    ASSUME AuthInv, NEW q \in Requests, NEW u \in Users, NEW r, Reads(r, u), Sends(q, r),
           Effect(r["set"], user[u], r["wrong"], r["clears"]), Retypes(r["set"])
    PROVE  AuthInv'
  <1>1. user[u] \in Row /\ Len(token) \in 0..Len(token)
    BY DEF AuthInv, Tables
  <1>2. IsRequest(r) /\ r["from"] = user[r["user"]]
    BY <1>1 DEF Reads, IsRequest
  <1> QED
    BY <1>2, SendsRight

LEMMA ClearingRight ==
    ASSUME AuthInv, NEW q \in Requests, NEW u \in Users, NEW want \in Row,
           want["failed"] = 0, want["locked"] = FALSE, want["until"] = "none",
           NEW r, Reads(r, u), Sends(q, r),
           r["set"] = Changes(user[u], want, {}), r["wrong"] = FALSE, r["clears"] = TRUE
    PROVE  AuthInv'
  <1>1. user[u] \in Row
    BY DEF AuthInv, Tables
  <1>2. Effect(r["set"], user[u], FALSE, TRUE) /\ Retypes(r["set"])
    BY <1>1, UnlockedClears
  <1> QED
    BY <1>2, ReadsRight

LEMMA SparingRight ==
    ASSUME AuthInv, NEW q \in Requests, NEW u \in Users,
           NEW r, Reads(r, u), Sends(q, r),
           Spares(r["set"]), Retypes(r["set"]), r["wrong"] = FALSE, r["clears"] = FALSE
    PROVE  AuthInv'
  BY SparesLock, ReadsRight

LEMMA WritesNothing ==
    ASSUME NEW set, set = << >>
    PROVE  Spares(set) /\ Retypes(set)
  <1>1. DOMAIN set = {}
    OBVIOUS
  <1>2. \A row \in Row : [c \in Columns |-> row[c]] = row
    BY DEF Row, Columns
  <1>3. \A row \in Row : [c \in Columns |-> After(set, row, c)] = [c \in Columns |-> row[c]]
    BY <1>1 DEF After
  <1> QED
    BY <1>1, <1>2, <1>3 DEF Spares, Retypes

-----------------------------------------------------------------------------
(* The requests, one by one. *)

LEMMA FailedLoginRight ==
    ASSUME AuthInv, NEW q \in Requests, NEW u \in Users, FailedLogin(q, u)
    PROVE  AuthInv'
  <1> DEFINE row == user[u]
             want == Attempt(row)
             stamped == IF want.failed >= MaxFailed THEN {"until"} ELSE {}
             set == Changes(row, want, stamped)
             r == [Reading(u) EXCEPT !.set = set, !.wrong = TRUE]
  <1>1. row \in Row
    BY DEF AuthInv, Tables
  <1>2. /\ want \in Row
        /\ want["failed"] = row["failed"] + 1
        /\ row["failed"] + 1 >= MaxFailed => want["locked"] = TRUE /\ want["until"] = "future"
        /\ ~(row["failed"] + 1 >= MaxFailed) =>
              want["locked"] = row["locked"] /\ want["until"] = row["until"]
    <2>1. row["failed"] \in Nat /\ row["failed"] + 1 \in Nat
      BY <1>1, RowIs DEF IsRow
    <2>2. CASE row["failed"] + 1 >= MaxFailed
      <3>1. want = [row EXCEPT !.failed = row["failed"] + 1, !.locked = TRUE, !.until = "future"]
        BY <2>2 DEF Attempt
      <3> QED
        BY <1>1, <2>1, <2>2, <3>1 DEF Row, Whiles
    <2>3. CASE ~(row["failed"] + 1 >= MaxFailed)
      <3>1. want = [row EXCEPT !.failed = row["failed"] + 1]
        BY <2>3 DEF Attempt
      <3> QED
        BY <1>1, <2>1, <2>3, <3>1 DEF Row, Whiles
    <2> QED
      BY <2>2, <2>3
  <1>3. stamped \in SUBSET Columns /\ stamped \in SUBSET {"until"}
    BY DEF Columns
  <1> HIDE DEF want
  <1>4. /\ \A c \in DOMAIN set : set[c] = want[c] /\ (c \in stamped \/ want[c] # row[c])
        /\ \A c \in Columns : After(set, row, c) = want[c]
        /\ stamped \subseteq DOMAIN set
        /\ Retypes(set)
    BY <1>2, <1>3, ChangesReach, ChangesRetype
  <1>5. {"failed", "locked", "until"} \subseteq Columns
    BY DEF Columns
  <1>6. "failed" \in DOMAIN set /\ set["failed"] = row["failed"] + 1
    BY <1>1, <1>2, <1>4, <1>5, RowIs DEF After, IsRow
  <1>7. IF row["failed"] + 1 >= MaxFailed
        THEN After(set, row, "locked") = TRUE /\ "until" \in DOMAIN set /\ set["until"] = "future"
        ELSE "locked" \notin DOMAIN set /\ "until" \notin DOMAIN set
    BY <1>2, <1>3, <1>4, <1>5
  <1>8. LiftsKnowingly(set, row)
    BY <1>1, <1>2, <1>3, <1>4, RowIs DEF LiftsKnowingly, IsRow
  <1>9. row["locked"] => row["until"] # "future"
    BY DEF FailedLogin, MayLogin
  <1>10. Sends(q, r)
    BY DEF FailedLogin, want
  <1> HIDE DEF set
  <1>11. Effect(set, row, TRUE, FALSE)
    BY <1>6, <1>7, <1>8, <1>9 DEF Effect, Guesses
  <1>12. Reads(r, u) /\ r["set"] = set /\ r["wrong"] = TRUE /\ r["clears"] = FALSE
    BY ReadingFields DEF Fields, Reads
  <1> HIDE DEF r
  <1> QED
    BY <1>4, <1>10, <1>11, <1>12, ReadsRight

LEMMA LoginRight ==
    ASSUME AuthInv, NEW q \in Requests, NEW u \in Users, Login(q, u)
    PROVE  AuthInv'
  <1> DEFINE want == [Unlocked(user[u]) EXCEPT !.hash.weak = FALSE]
             set == Changes(user[u], want, {})
             r == [Reading(u) EXCEPT !.set = set, !.login = TRUE, !.clears = TRUE]
  <1>1. user[u] \in Row
    BY DEF AuthInv, Tables
  <1>2. want \in Row /\ want["failed"] = 0 /\ want["locked"] = FALSE /\ want["until"] = "none"
    BY <1>1 DEF Unlocked, Row, Hash, Whiles
  <1>3. Sends(q, r)
    BY DEF Login
  <1> HIDE DEF set
  <1>4. Reads(r, u) /\ r["set"] = set /\ r["wrong"] = FALSE /\ r["clears"] = TRUE
    BY ReadingFields DEF Fields, Reads
  <1> HIDE DEF want, r
  <1> QED
    BY <1>2, <1>3, <1>4, ClearingRight DEF set

LEMMA EnableRight ==
    ASSUME AuthInv, NEW q \in Requests, NEW u \in Users, Enable(q, u)
    PROVE  AuthInv'
  <1> DEFINE want == [Unlocked(user[u]) EXCEPT !.active = TRUE]
             set == Changes(user[u], want, {})
             r == [Reading(u) EXCEPT !.set = set, !.clears = TRUE]
  <1>1. user[u] \in Row
    BY DEF AuthInv, Tables
  <1>2. want \in Row /\ want["failed"] = 0 /\ want["locked"] = FALSE /\ want["until"] = "none"
    BY <1>1 DEF Unlocked, Row, Whiles
  <1>3. Sends(q, r)
    BY DEF Enable
  <1> HIDE DEF set
  <1>4. Reads(r, u) /\ r["set"] = set /\ r["wrong"] = FALSE /\ r["clears"] = TRUE
    BY ReadingFields DEF Fields, Reads
  <1> HIDE DEF want, r
  <1> QED
    BY <1>2, <1>3, <1>4, ClearingRight DEF set

LEMMA UnlockUserRight ==
    ASSUME AuthInv, NEW q \in Requests, NEW u \in Users, UnlockUser(q, u)
    PROVE  AuthInv'
  <1> DEFINE want == Unlocked(user[u])
             set == Changes(user[u], want, {})
             r == [Reading(u) EXCEPT !.set = set, !.clears = TRUE]
  <1>1. user[u] \in Row
    BY DEF AuthInv, Tables
  <1>2. want \in Row /\ want["failed"] = 0 /\ want["locked"] = FALSE /\ want["until"] = "none"
    BY <1>1 DEF Unlocked, Row, Whiles
  <1>3. Sends(q, r)
    BY DEF UnlockUser
  <1> HIDE DEF set
  <1>4. Reads(r, u) /\ r["set"] = set /\ r["wrong"] = FALSE /\ r["clears"] = TRUE
    BY ReadingFields DEF Fields, Reads
  <1> HIDE DEF want, r
  <1> QED
    BY <1>2, <1>3, <1>4, ClearingRight DEF set

LEMMA LockUserRight ==
    ASSUME AuthInv, NEW q \in Requests, NEW u \in Users, LockUser(q, u)
    PROVE  AuthInv'
  <1> DEFINE row == user[u]
             want == [row EXCEPT !.locked = TRUE, !.until = "future"]
             set == Changes(row, want, {"until"})
             r == [Reading(u) EXCEPT !.set = set]
  <1>1. row \in Row
    BY DEF AuthInv, Tables
  <1>2. /\ want \in Row
        /\ want["failed"] = row["failed"] /\ want["locked"] = TRUE /\ want["until"] = "future"
    BY <1>1 DEF Row, Whiles
  <1>3. {"failed", "locked", "until"} \subseteq Columns
    BY DEF Columns
  <1>4. Sends(q, r)
    BY DEF LockUser
  <1> HIDE DEF want
  <1>5. /\ \A c \in DOMAIN set : set[c] = want[c] /\ (c \in {"until"} \/ want[c] # row[c])
        /\ \A c \in Columns : After(set, row, c) = want[c]
        /\ {"until"} \subseteq DOMAIN set
        /\ Retypes(set)
    BY <1>2, <1>3, ChangesReach, ChangesRetype
  <1> HIDE DEF set
  <1>6. Effect(set, row, FALSE, FALSE)
    BY <1>2, <1>3, <1>5 DEF Effect, Locks, LiftsKnowingly
  <1>7. Reads(r, u) /\ r["set"] = set /\ r["wrong"] = FALSE /\ r["clears"] = FALSE
    BY ReadingFields DEF Fields, Reads
  <1> HIDE DEF r
  <1> QED
    BY <1>4, <1>5, <1>6, <1>7, ReadsRight

(* Those that leave the row alone. *)
LEMMA QuietRight ==
    ASSUME AuthInv, NEW q \in Requests, NEW u \in Users,
           NEW r, Reads(r, u), Sends(q, r),
           r["set"] = << >>, r["wrong"] = FALSE, r["clears"] = FALSE
    PROVE  AuthInv'
  BY WritesNothing, SparingRight

LEMMA RefreshRight ==
    ASSUME AuthInv, NEW q \in Requests, NEW t \in Issued, Refresh(q, t)
    PROVE  AuthInv'
  <1> DEFINE u == token[t].user
             r == [Reading(u) EXCEPT !.revoke = Rotates(t), !.parent = {t}]
  <1>1. u \in Users
    BY TokenIs
  <1>2. Sends(q, r)
    BY DEF Refresh
  <1> HIDE DEF u
  <1>3. Reads(r, u) /\ r["set"] = << >> /\ r["wrong"] = FALSE /\ r["clears"] = FALSE
    BY ReadingFields DEF Fields, Reads, Rotates
  <1> HIDE DEF r
  <1> QED
    BY <1>1, <1>2, <1>3, QuietRight

LEMMA LogoutRight ==
    ASSUME AuthInv, NEW q \in Requests, NEW u \in Users, NEW t, Logout(q, u, t)
    PROVE  AuthInv'
  <1> DEFINE r == [Reading(u) EXCEPT !.revoke = {t} \cap Issued, !.closeAll = TRUE]
  <1>1. Sends(q, r)
    BY DEF Logout
  <1>2. Reads(r, u) /\ r["set"] = << >> /\ r["wrong"] = FALSE /\ r["clears"] = FALSE
    BY ReadingFields DEF Fields, Reads
  <1> HIDE DEF r
  <1> QED
    BY <1>1, <1>2, QuietRight

LEMMA ForgotPasswordRight ==
    ASSUME AuthInv, NEW q \in Requests, NEW u \in Users, ForgotPassword(q, u)
    PROVE  AuthInv'
  <1> DEFINE r == [Reading(u) EXCEPT !.voidResets = VoidsEarlier, !.newReset = TRUE]
  <1>1. Sends(q, r)
    BY DEF ForgotPassword
  <1>2. Reads(r, u) /\ r["set"] = << >> /\ r["wrong"] = FALSE /\ r["clears"] = FALSE
    BY ReadingFields DEF Fields, Reads
  <1> HIDE DEF r
  <1> QED
    BY <1>1, <1>2, QuietRight

LEMMA RevokeSessionRight ==
    ASSUME AuthInv, NEW q \in Requests, NEW t, RevokeSession(q, t)
    PROVE  AuthInv'
  <1> DEFINE u == token[t].user
             r == [Reading(u) EXCEPT !.close = {t}]
  <1>1. t \in Issued
    BY DEF RevokeSession, AuthInv, Tables
  <1>2. u \in Users
    BY <1>1, TokenIs
  <1>3. Sends(q, r)
    BY DEF RevokeSession
  <1> HIDE DEF u
  <1>4. Reads(r, u) /\ r["set"] = << >> /\ r["wrong"] = FALSE /\ r["clears"] = FALSE
    BY ReadingFields DEF Fields, Reads
  <1> HIDE DEF r
  <1> QED
    BY <1>2, <1>3, <1>4, QuietRight

LEMMA RevokeAllSessionsRight ==
    ASSUME AuthInv, NEW q \in Requests, NEW u \in Users, RevokeAllSessions(q, u)
    PROVE  AuthInv'
  <1> DEFINE r == [Reading(u) EXCEPT !.closeAll = TRUE]
  <1>1. Sends(q, r)
    BY DEF RevokeAllSessions
  <1>2. Reads(r, u) /\ r["set"] = << >> /\ r["wrong"] = FALSE /\ r["clears"] = FALSE
    BY ReadingFields DEF Fields, Reads
  <1> HIDE DEF r
  <1> QED
    BY <1>1, <1>2, QuietRight

(* Those that write other columns. *)
LEMMA NewHashIs ==
    ASSUME NEW row \in Row
    PROVE  /\ NewHash(row) \in Row
           /\ NewHash(row)["failed"] = row["failed"]
           /\ NewHash(row)["locked"] = row["locked"]
           /\ NewHash(row)["until"] = row["until"]
  <1>1. row.hash.password + 1 \in Nat
    BY DEF Row, Hash
  <1> QED
    BY <1>1 DEF NewHash, Row, Hash

LEMMA ResetPasswordRight ==
    ASSUME AuthInv, NEW q \in Requests, NEW x \in Resets, ResetPassword(q, x)
    PROVE  AuthInv'
  <1> DEFINE u == reset[x].user
             set == Changes(user[u], NewHash(user[u]), {"hash"})
             r == [Reading(u) EXCEPT !.set = set, !.uses = {x}, !.revokeAll = TRUE, !.closeAll = TRUE]
  <1>1. u \in Users
    BY ResetIs
  <1>2. Sends(q, r)
    BY DEF ResetPassword
  <1> HIDE DEF u
  <1>3. user[u] \in Row
    BY <1>1 DEF AuthInv, Tables
  <1>4. Spares(set) /\ Retypes(set)
    BY <1>3, NewHashIs, ChangesSpare
  <1> HIDE DEF set
  <1>5. Reads(r, u) /\ r["set"] = set /\ r["wrong"] = FALSE /\ r["clears"] = FALSE
    BY ReadingFields DEF Fields, Reads
  <1> HIDE DEF r
  <1> QED
    BY <1>1, <1>2, <1>4, <1>5, SparingRight

LEMMA ChangePasswordRight ==
    ASSUME AuthInv, NEW q \in Requests, NEW u \in Users, ChangePassword(q, u)
    PROVE  AuthInv'
  <1> DEFINE set == Changes(user[u], NewHash(user[u]), {"hash"})
             r == [Reading(u) EXCEPT !.set = set, !.revokeAll = TRUE]
  <1>1. Sends(q, r)
    BY DEF ChangePassword
  <1>2. user[u] \in Row
    BY DEF AuthInv, Tables
  <1>3. Spares(set) /\ Retypes(set)
    BY <1>2, NewHashIs, ChangesSpare
  <1> HIDE DEF set
  <1>4. Reads(r, u) /\ r["set"] = set /\ r["wrong"] = FALSE /\ r["clears"] = FALSE
    BY ReadingFields DEF Fields, Reads
  <1> HIDE DEF r
  <1> QED
    BY <1>1, <1>3, <1>4, SparingRight

LEMMA DisableRight ==
    ASSUME AuthInv, NEW q \in Requests, NEW u \in Users, Disable(q, u)
    PROVE  AuthInv'
  <1> DEFINE want == [user[u] EXCEPT !.active = FALSE]
             set == Changes(user[u], want, {})
             r == [Reading(u) EXCEPT !.set = set, !.revokeAll = TRUE, !.closeAll = TRUE]
  <1>1. Sends(q, r)
    BY DEF Disable
  <1>2. user[u] \in Row
    BY DEF AuthInv, Tables
  <1>3. /\ want \in Row /\ want["failed"] = user[u]["failed"]
        /\ want["locked"] = user[u]["locked"] /\ want["until"] = user[u]["until"]
    BY <1>2 DEF Row
  <1> HIDE DEF want
  <1>4. Spares(set) /\ Retypes(set)
    BY <1>3, ChangesSpare
  <1> HIDE DEF set
  <1>5. Reads(r, u) /\ r["set"] = set /\ r["wrong"] = FALSE /\ r["clears"] = FALSE
    BY ReadingFields DEF Fields, Reads
  <1> HIDE DEF r
  <1> QED
    BY <1>1, <1>4, <1>5, SparingRight

LEMMA SoftDeleteRight ==
    ASSUME AuthInv, NEW q \in Requests, NEW u \in Users, SoftDelete(q, u)
    PROVE  AuthInv'
  <1> DEFINE want == [user[u] EXCEPT !.deleted = TRUE, !.active = FALSE]
             set == Changes(user[u], want, {"deleted"})
             r == [Reading(u) EXCEPT !.set = set, !.revokeAll = TRUE, !.closeAll = TRUE]
  <1>1. Sends(q, r)
    BY DEF SoftDelete
  <1>2. user[u] \in Row
    BY DEF AuthInv, Tables
  <1>3. /\ want \in Row /\ want["failed"] = user[u]["failed"]
        /\ want["locked"] = user[u]["locked"] /\ want["until"] = user[u]["until"]
    BY <1>2 DEF Row
  <1> HIDE DEF want
  <1>4. Spares(set) /\ Retypes(set)
    BY <1>3, ChangesSpare
  <1> HIDE DEF set
  <1>5. Reads(r, u) /\ r["set"] = set /\ r["wrong"] = FALSE /\ r["clears"] = FALSE
    BY ReadingFields DEF Fields, Reads
  <1> HIDE DEF r
  <1> QED
    BY <1>1, <1>4, <1>5, SparingRight

-----------------------------------------------------------------------------
(* The commit. *)

(* The row that a commit leaves, where no other commit has come between    *)
(* the reading and the writing. *)
LEMMA CountedStep ==
    ASSUME NEW old \in Row, NEW row \in Row, NEW new \in Row, NEW n \in Nat,
           NEW set, NEW wrong, NEW clears, NEW m,
           Agrees(old, row), Effect(set, old, wrong, clears), Counted(row, n),
           \A c \in Columns : new[c] = After(set, row, c),
           m = IF wrong THEN n + 1 ELSE IF clears THEN 0 ELSE n
    PROVE  Counted(new, m)
  <1>1. IsRow(old) /\ IsRow(row) /\ IsRow(new)
    BY RowIs
  <1>2. /\ new["failed"] = After(set, row, "failed")
        /\ new["locked"] = After(set, row, "locked")
        /\ new["until"] = After(set, row, "until")
    BY DEF Columns
  <1>3. CASE wrong = TRUE /\ clears = FALSE /\ Guesses(set, old)
    <2>1. m = n + 1
      BY <1>3
    <2>2. row["locked"] = old["locked"] /\ row["failed"] = old["failed"]
      BY DEF Agrees
    <2>3. row["until"] # "future"
      BY <1>1, <1>3, <2>2 DEF Guesses, Agrees, Counted
    <2>4. n = 0 \/ (n <= row["failed"] /\ row["failed"] < MaxFailed)
      BY <2>3 DEF Counted
    <2>5. new["failed"] = row["failed"] + 1
      BY <1>2, <1>3, <2>2 DEF Guesses, After
    <2>6. CASE row["failed"] + 1 >= MaxFailed
      <3>1. new["until"] = "future"
        BY <1>2, <1>3, <2>2, <2>6 DEF Guesses, After
      <3>2. new["locked"] = TRUE
        BY <1>2, <1>3, <2>2, <2>6 DEF Guesses, After
      <3> QED
        BY <1>1, <2>1, <2>4, <3>1, <3>2, AuthAssumption DEF Counted, IsRow
    <2>7. CASE ~(row["failed"] + 1 >= MaxFailed)
      <3>1. new["until"] = row["until"] /\ new["locked"] = row["locked"]
        BY <1>2, <1>3, <2>2, <2>7 DEF Guesses, After
      <3> QED
        BY <1>1, <2>1, <2>4, <2>5, <2>7, <3>1, AuthAssumption DEF Counted, IsRow
    <2> QED
      BY <2>6, <2>7
  <1>4. CASE wrong = FALSE /\ clears = TRUE /\ Clears(set, old)
    <2>1. m = 0
      BY <1>4
    <2>2. new["failed"] = 0 /\ new["locked"] = FALSE /\ new["until"] = "none"
      BY <1>2, <1>4 DEF Clears, After, Agrees
    <2> QED
      BY <2>1, <2>2, AuthAssumption DEF Counted
  <1>5. CASE wrong = FALSE /\ clears = FALSE /\ Locks(set, old)
    <2>1. m = n
      BY <1>5
    <2>2. new["locked"] = TRUE /\ new["until"] = "future"
      BY <1>2, <1>5 DEF Locks, After, Agrees
    <2> QED
      BY <2>1, <2>2 DEF Counted
  <1>6. CASE wrong = FALSE /\ clears = FALSE /\ Spares(set)
    <2>1. m = n
      BY <1>6
    <2>2. /\ new["failed"] = row["failed"] /\ new["locked"] = row["locked"]
          /\ new["until"] = row["until"]
      BY <1>2, <1>6 DEF Spares, After
    <2> QED
      BY <2>1, <2>2 DEF Counted
  <1> QED
    BY <1>3, <1>4, <1>5, <1>6 DEF Effect

(* A commit writes one row, and it stays a row. *)
LEMMA WrittenIs ==
    ASSUME AuthInv, NEW q \in Pending
    PROVE  /\ req[q]["user"] \in Users
           /\ Written(req[q]) \in [Users -> Row]
           /\ \A c \in Columns : Written(req[q])[req[q]["user"]][c]
                                   = After(req[q]["set"], user[req[q]["user"]], c)
           /\ \A u \in Users : u # req[q]["user"] => Written(req[q])[u] = user[u]
  <1> DEFINE r == req[q]
             new == [c \in Columns |-> After(r["set"], user[r["user"]], c)]
  <1>1. IsRequest(r)
    BY DEF AuthInv, RequestsRight
  <1>2. r["user"] \in Users /\ Retypes(r["set"]) /\ user \in [Users -> Row]
    BY <1>1 DEF IsRequest, AuthInv, Tables
  <1>3. new \in Row
    BY <1>2 DEF Retypes
  <1>4. \A c \in Columns : new[c] = After(r["set"], user[r["user"]], c)
    OBVIOUS
  <1>5. Written(r) = [user EXCEPT ![r["user"]] = new]
    BY DEF Written, After
  <1> HIDE DEF new, r
  <1>6. /\ Written(r) \in [Users -> Row]
        /\ Written(r)[r["user"]] = new
        /\ \A u \in Users : u # r["user"] => Written(r)[u] = user[u]
    BY <1>2, <1>3, <1>5
  <1> QED
    BY <1>2, <1>4, <1>6 DEF r

(* Revoking changes tokens in place. *)
LEMMA RevokedIs ==
    ASSUME AuthInv, NEW r, NEW n
    PROVE  /\ Revoked(r, n) \in Seq(Token) /\ Len(Revoked(r, n)) = Len(token)
           /\ \A t \in Issued : Revoked(r, n)[t].login = token[t].login
  <1> DEFINE f == Revoked(r, n)
  <1>1. /\ f = [t \in Issued |-> f[t]]
        /\ \A t \in Issued : f[t] \in Token /\ f[t].login = token[t].login
    <2>1. f = [t \in Issued |-> f[t]]
      BY DEF Revoked
    <2>2. ASSUME NEW t \in Issued
          PROVE  f[t] \in Token /\ f[t].login = token[t].login
      <3>1. token[t] \in Token
        BY TokenIs
      <3>2. f[t] = token[t] \/ f[t] = [token[t] EXCEPT !.revoked = TRUE]
        BY DEF Revoked
      <3> QED
        BY <3>1, <3>2 DEF Token
    <2> QED
      BY <2>1, <2>2
  <1>2. Issued = 1..Len(token) /\ Len(token) \in Nat
    BY DEF AuthInv, Tables, Issued
  <1> HIDE DEF f
  <1>3. f \in Seq(Token) /\ Len(f) = Len(token)
    BY <1>1, <1>2
  <1> QED
    BY <1>1, <1>3 DEF f

(* The new token comes from its own login or from that of its parent. *)
LEMMA NewTokenIs ==
    ASSUME AuthInv, NEW r, IsRequest(r), r["login"] \/ r["parent"] # {}
    PROVE  /\ NewToken(r) \in Token
           /\ NewToken(r).login \in 1..(Len(token) + 1)
           /\ r["login"] => NewToken(r).login = Len(token) + 1
  <1> DEFINE p == CHOOSE t \in r["parent"] : TRUE
             login == IF r["login"] THEN Len(token) + 1 ELSE token[p].login
  <1>1. Len(token) \in Nat /\ r["user"] \in Users /\ r["from"].hash.password \in Nat
    BY DEF AuthInv, Tables, IsRequest, Row, Hash
  <1>2. login \in 1..(Len(token) + 1)
    <2>1. CASE r["login"]
      BY <1>1, <2>1
    <2>2. CASE ~r["login"]
      <3>1. p \in Issued
        BY <2>2 DEF IsRequest
      <3>2. token[p].login \in 1..p /\ p \in 1..Len(token)
        BY <3>1 DEF AuthInv, Tables, Issued
      <3> QED
        BY <1>1, <2>2, <3>2
    <2> QED
      BY <2>1, <2>2
  <1>3. NewToken(r) = [user |-> r["user"], revoked |-> FALSE, expired |-> FALSE,
                       password |-> r["from"].hash.password, login |-> login]
    BY DEF NewToken
  <1>4. r["login"] => login = Len(token) + 1
    OBVIOUS
  <1> HIDE DEF login, p
  <1>5. login \in Nat
    BY <1>1, <1>2
  <1> QED
    BY <1>1, <1>2, <1>3, <1>4, <1>5 DEF Token

LEMMA UsedIs ==
    ASSUME AuthInv, NEW r
    PROVE  Used(r) \in Seq(ResetToken) /\ Len(Used(r)) = Len(reset)
  <1> DEFINE f == Used(r)
  <1>1. f = [x \in Resets |-> f[x]] /\ \A x \in Resets : f[x] \in ResetToken
    <2>1. f = [x \in Resets |-> f[x]]
      BY DEF Used
    <2>2. ASSUME NEW x \in Resets
          PROVE  f[x] \in ResetToken
      <3>1. reset[x] \in ResetToken
        BY ResetIs
      <3>2. f[x] = reset[x] \/ f[x] = [reset[x] EXCEPT !.used = TRUE]
        BY DEF Used
      <3> QED
        BY <3>1, <3>2 DEF ResetToken
    <2> QED
      BY <2>1, <2>2
  <1>2. Resets = 1..Len(reset) /\ Len(reset) \in Nat
    BY DEF AuthInv, Tables, Resets
  <1> HIDE DEF f
  <1>3. f \in Seq(ResetToken) /\ Len(f) = Len(reset)
    BY <1>1, <1>2
  <1> QED
    BY <1>3 DEF f

(* The tables after a commit. *)
LEMMA CommitTables ==
    ASSUME AuthInv, NEW q \in Requests, Commit(q)
    PROVE  Tables' /\ Len(token') >= Len(token)
  <1> DEFINE r == req[q]
             issues == r["login"] \/ r["parent"] # {}
  <1>1. q \in Pending /\ IsRequest(r)
    BY DEF Commit, Pending, AuthInv, RequestsRight
  <1>2. /\ r["user"] \in Users /\ r["login"] \in BOOLEAN
        /\ Len(token) \in Nat /\ Len(reset) \in Nat
    BY <1>1 DEF IsRequest, AuthInv, Tables
  <1>3. user' \in [Users -> Row]
    BY <1>1, WrittenIs DEF Commit
  <1>4. PICK n : token' = Revoked(r, n) \o (IF issues THEN <<NewToken(r)>> ELSE <<>>)
    BY DEF Commit
  <1>5. /\ token' \in Seq(Token)
        /\ \A t \in 1..Len(token') : token'[t].login \in 1..t
        /\ \A t \in Issued : t \in 1..Len(token') /\ token'[t].login = token[t].login
        /\ Len(token') >= Len(token)
        /\ r["login"] => /\ Len(token) + 1 \in 1..Len(token')
                         /\ token'[Len(token) + 1].login = Len(token) + 1
    <2> DEFINE f == Revoked(r, n)
    <2>a. /\ f \in Seq(Token) /\ Len(f) = Len(token)
          /\ \A t \in Issued : f[t].login = token[t].login
      BY RevokedIs
    <2> HIDE DEF f
    <2>1. /\ f \in Seq(Token) /\ Len(f) = Len(token)
          /\ \A t \in 1..Len(token) : f[t].login = token[t].login /\ token[t].login \in 1..t
      BY <2>a DEF AuthInv, Tables, Issued
    <2>2. CASE issues
      <3> DEFINE new == NewToken(r)
      <3>1. /\ new \in Token /\ new.login \in 1..(Len(token) + 1)
            /\ r["login"] => new.login = Len(token) + 1
        BY <1>1, <2>2, NewTokenIs
      <3>2. token' = f \o <<new>>
        BY <1>4, <2>2 DEF f
      <3> HIDE DEF new
      <3>3. /\ token' \in Seq(Token) /\ Len(token') = Len(token) + 1
            /\ \A t \in 1..Len(token) : token'[t] = f[t]
            /\ token'[Len(token) + 1] = new
        BY <1>2, <2>1, <3>1, <3>2
      <3>4. \A t \in 1..Len(token') : t = Len(token) + 1 \/ t \in 1..Len(token)
        BY <1>2, <3>3
      <3>5. \A t \in 1..Len(token') : token'[t].login \in 1..t
        BY <2>1, <3>1, <3>3, <3>4
      <3>6. /\ Len(token) + 1 \in 1..Len(token') /\ Len(token') >= Len(token)
            /\ \A t \in Issued : t \in 1..Len(token') /\ t \in 1..Len(token)
        BY <1>2, <3>3 DEF Issued
      <3>7. \A t \in Issued : token'[t].login = token[t].login
        BY <2>1, <3>3, <3>6
      <3> QED
        BY <3>1, <3>3, <3>5, <3>6, <3>7
    <2>3. CASE ~issues
      <3>1. token' = f
        BY <1>4, <2>1, <2>3 DEF f
      <3> QED
        BY <1>2, <2>1, <2>3, <3>1 DEF Issued
    <2> QED
      BY <2>2, <2>3
  <1>6. session' \subseteq {t \in 1..Len(token') : token'[t].login = t}
    <2> SUFFICES ASSUME NEW t \in session'
                 PROVE  t \in 1..Len(token') /\ token'[t].login = t
      OBVIOUS
    <2>1. t \in session \/ (r["login"] /\ t = Len(token) + 1)
      BY <1>2 DEF Commit, Closed, OpensSession
    <2> QED
      BY <1>5, <2>1 DEF AuthInv, Tables
  <1>7. reset' \in Seq(ResetToken) /\ spent' \in Seq(Nat) /\ Len(spent') = Len(reset')
    <2> DEFINE f == Used(r)
               g == [x \in Resets |-> IF x \in r.uses THEN spent[x] + 1 ELSE spent[x]]
               fresh == [user |-> r["user"], used |-> FALSE, expired |-> FALSE]
    <2>1. f \in Seq(ResetToken) /\ Len(f) = Len(reset)
      BY UsedIs
    <2>2. g \in Seq(Nat) /\ Len(g) = Len(reset)
      <3>1. spent \in Seq(Nat) /\ Len(spent) = Len(reset) /\ Resets = 1..Len(reset)
        BY DEF AuthInv, Tables, Resets
      <3>2. \A x \in Resets : spent[x] \in Nat /\ spent[x] + 1 \in Nat
        BY <3>1
      <3> QED
        BY <1>2, <3>1, <3>2
    <2>3. fresh \in ResetToken
      BY <1>2 DEF ResetToken
    <2>4. /\ reset' = f \o (IF r.newReset THEN <<fresh>> ELSE <<>>)
          /\ spent' = g \o (IF r.newReset THEN <<0>> ELSE <<>>)
      BY DEF Commit
    <2> HIDE DEF f, g, fresh
    <2>5. CASE r.newReset
      BY <2>1, <2>2, <2>3, <2>4, <2>5
    <2>6. CASE ~r.newReset
      BY <2>1, <2>2, <2>4, <2>6
    <2> QED
      BY <2>5, <2>6
  <1>8. access' \subseteq Users /\ raced' \subseteq Users /\ served' \in 0..MaxServed
    BY <1>2 DEF Commit, AuthInv, Tables
  <1> QED
    BY <1>3, <1>5, <1>6, <1>7, <1>8 DEF Tables, Issued

(* The requests that are left know what came between. *)
LEMMA CommitRequests ==
    ASSUME AuthInv, NEW q \in Requests, Commit(q)
    PROVE  /\ RequestsRight'
           /\ Pending' \subseteq Pending
           /\ \A p \in Pending' :
                 /\ req'[p]["user"] = req[p]["user"] /\ req'[p]["from"] = req[p]["from"]
                 /\ req[p]["stale"] => req'[p]["stale"]
                 /\ req[p]["user"] = req[q]["user"] => req'[p]["stale"]
  <1>1. /\ DOMAIN req' = Requests
        /\ \A p \in Requests : req'[p] # Idle =>
              p # q /\ req[p] # Idle
              /\ req'[p] = [req[p] EXCEPT !.stale = @ \/ req[p].user = req[q].user]
    BY DEF Commit
  <1>2. Pending' \subseteq Pending
    BY <1>1 DEF Pending
  <1>3. ASSUME NEW p \in Pending'
        PROVE  /\ IsRequest(req[p])'
               /\ req'[p]["user"] = req[p]["user"] /\ req'[p]["from"] = req[p]["from"]
               /\ req[p]["stale"] => req'[p]["stale"]
               /\ req[p]["user"] = req[q]["user"] => req'[p]["stale"]
    <2> DEFINE r == req[p]
               s == r.stale \/ r.user = req[q].user
    <2>1. p \in Requests /\ req'[p] # Idle /\ p \in Pending
      BY <1>2 DEF Pending
    <2>2. IsRequest(r)
      BY <2>1 DEF AuthInv, RequestsRight
    <2>3. req'[p] = [r EXCEPT !.stale = s]
      BY <1>1, <2>1
    <2>4. s \in BOOLEAN
      BY <2>2 DEF IsRequest
    <2> HIDE DEF s
    <2>5. DOMAIN r = Fields
      BY <2>2 DEF IsRequest
    <2>6. /\ DOMAIN req'[p] = Fields
          /\ req'[p]["stale"] = s
          /\ \A f \in Fields \ {"stale"} : req'[p][f] = r[f]
      BY <2>3, <2>5 DEF Fields
    <2>7. Len(token) \in Nat /\ Len(token') \in Nat /\ Len(token') >= Len(token)
      BY CommitTables DEF AuthInv, Tables
    <2>8. IsRequest(req[p])'
      <3>1. Issued \subseteq Issued'
        BY <2>7 DEF Issued
      <3>2. 0..Len(token) \subseteq 0..Len(token')
        BY <2>7
      <3>3. /\ req'[p]["user"] = r["user"] /\ req'[p]["from"] = r["from"]
            /\ req'[p]["set"] = r["set"] /\ req'[p]["login"] = r["login"]
            /\ req'[p]["seen"] = r["seen"] /\ req'[p]["revoke"] = r["revoke"]
            /\ req'[p]["parent"] = r["parent"] /\ req'[p]["wrong"] = r["wrong"]
            /\ req'[p]["clears"] = r["clears"]
        BY <2>6 DEF Fields
      <3> QED
        BY <2>2, <2>4, <2>6, <3>1, <3>2, <3>3 DEF IsRequest
    <2> QED
      BY <2>6, <2>8 DEF s, Fields
  <1>4. RequestsRight'
    BY <1>1, <1>3 DEF RequestsRight
  <1> QED
    BY <1>2, <1>3, <1>4

LEMMA CommitReads ==
    ASSUME AuthInv, NEW q \in Requests, Commit(q)
    PROVE  ReadsCurrent'
  <1> SUFFICES ASSUME NEW p \in Pending', ~req'[p]["stale"], req'[p]["user"] \notin raced'
               PROVE  Agrees(req'[p]["from"], user'[req'[p]["user"]])
    BY DEF ReadsCurrent
  <1>1. /\ p \in Pending /\ req'[p]["user"] = req[p]["user"] /\ req'[p]["from"] = req[p]["from"]
        /\ ~req[p]["stale"] /\ req[p]["user"] # req[q]["user"]
    BY CommitRequests
  <1>2. q \in Pending /\ user' = Written(req[q]) /\ raced \subseteq raced'
    BY DEF Commit, Pending
  <1>3. req[p]["user"] \in Users
    BY <1>1 DEF AuthInv, RequestsRight, IsRequest
  <1>4. user'[req[p]["user"]] = user[req[p]["user"]]
    BY <1>1, <1>2, <1>3, WrittenIs
  <1> QED
    BY <1>1, <1>2, <1>4 DEF AuthInv, ReadsCurrent

LEMMA CommitGuesses ==
    ASSUME AuthInv, NEW q \in Requests, Commit(q)
    PROVE  GuessesCounted'
  <1> DEFINE r == req[q]
             m == IF r["wrong"] THEN guesses[r["user"]] + 1
                  ELSE IF r["clears"] THEN 0 ELSE guesses[r["user"]]
  <1>1. q \in Pending /\ IsRequest(r)
    BY DEF Commit, Pending, AuthInv, RequestsRight
  <1>2. /\ user' = Written(r) /\ guesses' = [guesses EXCEPT ![r["user"]] = m]
        /\ raced' = raced \cup (IF r["stale"] THEN {r["user"]} ELSE {})
    BY DEF Commit
  <1>3. /\ r["user"] \in Users /\ guesses \in [Users -> Nat] /\ user \in [Users -> Row]
        /\ r["from"] \in Row
    BY <1>1 DEF IsRequest, AuthInv, Tables, GuessesCounted
  <1>4. m \in Nat
    BY <1>3
  <1> HIDE DEF m
  <1>5. guesses' \in [Users -> Nat]
    BY <1>2, <1>3, <1>4
  <1>6. ASSUME NEW u \in Users \ raced'
        PROVE  Counted(user'[u], guesses'[u])
    <2>1. u \in Users \ raced /\ (u = r["user"] => ~r["stale"])
      BY <1>2
    <2>2. Counted(user[u], guesses[u])
      BY <2>1 DEF AuthInv, GuessesCounted
    <2>3. CASE u # r["user"]
      BY <1>1, <1>2, <1>3, <2>2, <2>3, WrittenIs
    <2>4. CASE u = r["user"]
      <3>1. Agrees(r["from"], user[u])
        BY <1>1, <2>1, <2>4 DEF AuthInv, ReadsCurrent
      <3>2. user'[u] \in Row /\ \A c \in Columns : user'[u][c] = After(r["set"], user[u], c)
        BY <1>1, <1>2, <2>4, WrittenIs
      <3>3. Effect(r["set"], r["from"], r["wrong"], r["clears"])
        BY <1>1 DEF IsRequest
      <3>4. m = IF r["wrong"] THEN guesses[u] + 1 ELSE IF r["clears"] THEN 0 ELSE guesses[u]
        BY <2>4 DEF m
      <3>5. guesses'[u] = m /\ user[u] \in Row /\ guesses[u] \in Nat
        BY <1>2, <1>3, <2>4
      <3> HIDE DEF r
      <3> QED
        BY <1>3, <2>2, <3>1, <3>2, <3>3, <3>4, <3>5, CountedStep
    <2> QED
      BY <2>3, <2>4
  <1> QED
    BY <1>5, <1>6 DEF GuessesCounted

-----------------------------------------------------------------------------
(* Time. *)

LEMMA LockExpiresRight ==
    ASSUME AuthInv, NEW u \in Users, LockExpires(u)
    PROVE  AuthInv'
  <1> DEFINE new == [user[u] EXCEPT !.until = "past"]
  <1>1. /\ user' = [user EXCEPT ![u] = new] /\ guesses' = [guesses EXCEPT ![u] = 0]
        /\ UNCHANGED <<token, session, reset, access, req, served, spent, raced>>
        /\ user[u]["until"] = "future"
    BY DEF LockExpires
  <1>2. user \in [Users -> Row] /\ guesses \in [Users -> Nat]
    BY DEF AuthInv, Tables, GuessesCounted
  <1>3. /\ new \in Row /\ new["until"] = "past"
        /\ new["failed"] = user[u]["failed"] /\ new["locked"] = user[u]["locked"]
    BY <1>2 DEF Row, Whiles
  <1> HIDE DEF new
  <1>4. /\ user' \in [Users -> Row] /\ user'[u] = new
        /\ \A v \in Users : v # u => user'[v] = user[v]
    BY <1>1, <1>2, <1>3
  <1>5. Tables'
    BY <1>1, <1>4 DEF AuthInv, Tables, Issued
  <1>6. RequestsRight'
    BY <1>1 DEF AuthInv, RequestsRight, Pending, IsRequest, Issued
  <1>7. ReadsCurrent'
    <2> SUFFICES ASSUME NEW q \in Pending, ~req[q]["stale"], req[q]["user"] \notin raced
                 PROVE  Agrees(req[q]["from"], user'[req[q]["user"]])
      BY <1>1 DEF ReadsCurrent, Pending
    <2>1. req[q]["user"] \in Users /\ Agrees(req[q]["from"], user[req[q]["user"]])
      BY DEF AuthInv, ReadsCurrent, RequestsRight, IsRequest
    <2> QED
      BY <1>1, <1>3, <1>4, <2>1 DEF Agrees
  <1>8. GuessesCounted'
    <2>1. guesses' \in [Users -> Nat] /\ guesses'[u] = 0
          /\ \A v \in Users : v # u => guesses'[v] = guesses[v]
      BY <1>1, <1>2
    <2>2. ASSUME NEW v \in Users \ raced
          PROVE  Counted(user'[v], guesses'[v])
      <3>1. Counted(user[v], guesses[v])
        BY DEF AuthInv, GuessesCounted
      <3>2. CASE v = u
        BY <1>1, <1>3, <1>4, <2>1, <3>1, <3>2, AuthAssumption DEF Counted
      <3> QED
        BY <1>4, <2>1, <3>1, <3>2
    <2> QED
      BY <1>1, <2>1, <2>2 DEF GuessesCounted
  <1> QED
    BY <1>5, <1>6, <1>7, <1>8 DEF AuthInv

LEMMA AccessExpiresRight ==
    ASSUME AuthInv, NEW u \in Users, AccessExpires(u)
    PROVE  AuthInv'
  BY DEF AuthInv, Tables, RequestsRight, ReadsCurrent, GuessesCounted, Pending, IsRequest,
         Issued, AccessExpires

LEMMA TokenExpiresRight ==
    ASSUME AuthInv, NEW t \in Issued, TokenExpires(t)
    PROVE  AuthInv'
  <1> DEFINE new == [token[t] EXCEPT !.expired = TRUE]
  <1>1. /\ token' = [token EXCEPT ![t] = new]
        /\ UNCHANGED <<user, session, reset, access, req, served, guesses, spent, raced>>
    BY DEF TokenExpires
  <1>2. token[t] \in Token
    BY TokenIs
  <1>3. new \in Token /\ new.login = token[t].login
    BY <1>2 DEF Token
  <1> HIDE DEF new
  <1>4. token \in Seq(Token) /\ t \in 1..Len(token)
    BY DEF AuthInv, Tables, Issued
  <1>5. /\ token' \in Seq(Token) /\ Len(token') = Len(token)
        /\ \A s \in 1..Len(token) : token'[s] = IF s = t THEN new ELSE token[s]
    BY <1>1, <1>3, <1>4
  <1>6. \A s \in 1..Len(token) : token'[s].login = token[s].login
    BY <1>3, <1>5
  <1>7. Tables'
    BY <1>1, <1>5, <1>6 DEF AuthInv, Tables, Issued
  <1>8. RequestsRight'
    BY <1>1, <1>5 DEF AuthInv, RequestsRight, Pending, IsRequest, Issued
  <1>9. ReadsCurrent' /\ GuessesCounted'
    BY <1>1 DEF AuthInv, ReadsCurrent, GuessesCounted, Pending
  <1> QED
    BY <1>7, <1>8, <1>9 DEF AuthInv

LEMMA ResetExpiresRight ==
    ASSUME AuthInv, NEW x \in Resets, ResetExpires(x)
    PROVE  AuthInv'
  <1> DEFINE new == [reset[x] EXCEPT !.expired = TRUE]
  <1>1. /\ reset' = [reset EXCEPT ![x] = new]
        /\ UNCHANGED <<user, token, session, access, req, served, guesses, spent, raced>>
    BY DEF ResetExpires
  <1>2. reset[x] \in ResetToken
    BY ResetIs
  <1>3. new \in ResetToken
    BY <1>2 DEF ResetToken
  <1> HIDE DEF new
  <1>4. reset \in Seq(ResetToken) /\ x \in 1..Len(reset)
    BY DEF AuthInv, Tables, Resets
  <1>5. reset' \in Seq(ResetToken) /\ Len(reset') = Len(reset)
    BY <1>1, <1>3, <1>4
  <1>6. Tables'
    BY <1>1, <1>5 DEF AuthInv, Tables, Issued
  <1>7. RequestsRight' /\ ReadsCurrent' /\ GuessesCounted'
    BY <1>1 DEF AuthInv, RequestsRight, ReadsCurrent, GuessesCounted, Pending, IsRequest, Issued
  <1> QED
    BY <1>6, <1>7 DEF AuthInv

-----------------------------------------------------------------------------
(* The invariant. *)

LEMMA InitRight ==
    ASSUME Init
    PROVE  AuthInv
  <1>1. /\ \A u \in Users : user[u] \in Row /\ user[u]["failed"] = 0
                             /\ user[u]["locked"] = FALSE /\ user[u]["until"] = "none"
        /\ user \in [Users -> Row]
    <2> DEFINE Fresh == [active : {TRUE}, deleted : {FALSE}, locked : {FALSE},
                         until : {"none"}, failed : {0},
                         hash : [password : {0}, weak : BOOLEAN]]
    <2>1. user \in [Users -> Fresh]
      BY DEF Init
    <2>2. ASSUME NEW row \in Fresh
          PROVE  /\ row \in Row /\ row["failed"] = 0
                 /\ row["locked"] = FALSE /\ row["until"] = "none"
      <3> DEFINE FreshHash == [password : {0}, weak : BOOLEAN]
                 Yes == {TRUE}
                 No == {FALSE}
                 None == {"none"}
                 Zero == {0}
      <3>1. /\ FreshHash \subseteq Hash
            /\ Yes \subseteq BOOLEAN /\ No \subseteq BOOLEAN
            /\ None \subseteq Whiles /\ Zero \subseteq Nat
        BY DEF Hash, Whiles
      <3> HIDE DEF FreshHash, Yes, No, None, Zero
      <3>2. row \in [active : Yes, deleted : No, locked : No,
                     until : None, failed : Zero, hash : FreshHash]
        BY DEF FreshHash, Yes, No, None, Zero
      <3>3. row \in Row
        BY <3>1, <3>2 DEF Row
      <3>4. row["failed"] \in Zero /\ row["locked"] \in No /\ row["until"] \in None
        BY <3>2
      <3> QED
        BY <3>3, <3>4 DEF Zero, No, None
    <2> HIDE DEF Fresh
    <2> QED
      BY <2>1, <2>2
  <1>2. Tables
    BY <1>1, AuthAssumption DEF Init, Tables, Issued
  <1>3. RequestsRight /\ ReadsCurrent
    BY DEF Init, RequestsRight, ReadsCurrent, Pending
  <1>4. GuessesCounted
    <2>1. guesses \in [Users -> Nat] /\ \A u \in Users : guesses[u] = 0
      BY DEF Init
    <2> QED
      BY <1>1, <2>1, AuthAssumption DEF GuessesCounted, Counted
  <1> QED
    BY <1>2, <1>3, <1>4 DEF AuthInv

LEMMA NextRight ==
    ASSUME AuthInv, Next
    PROVE  AuthInv'
  <1>1. ASSUME NEW q \in Requests, Commit(q)
        PROVE  AuthInv'
    BY <1>1, CommitTables, CommitRequests, CommitReads, CommitGuesses DEF AuthInv
  <1>2. ASSUME NEW q \in Requests, SignIn(q)
        PROVE  AuthInv'
    BY <1>2, LoginRight, FailedLoginRight, ForgotPasswordRight, ChangePasswordRight,
       LogoutRight, RefreshRight, ResetPasswordRight DEF SignIn
  <1>3. ASSUME NEW q \in Requests, Manage(q)
        PROVE  AuthInv'
    BY <1>3, DisableRight, EnableRight, SoftDeleteRight DEF Manage
  <1>4. ASSUME NEW q \in Requests, Administer(q)
        PROVE  AuthInv'
    BY <1>4, LockUserRight, UnlockUserRight, RevokeAllSessionsRight, RevokeSessionRight
       DEF Administer
  <1>5. ASSUME NEW q \in Requests, OwnSessions(q)
        PROVE  AuthInv'
    BY <1>5, RevokeAllSessionsRight, RevokeSessionRight DEF OwnSessions
  <1>6. ASSUME NEW u \in Users, LockExpires(u) \/ AccessExpires(u)
        PROVE  AuthInv'
    BY <1>6, LockExpiresRight, AccessExpiresRight
  <1>7. ASSUME NEW t \in Issued, TokenExpires(t)
        PROVE  AuthInv'
    BY <1>7, TokenExpiresRight
  <1>8. ASSUME NEW x \in Resets, ResetExpires(x)
        PROVE  AuthInv'
    BY <1>8, ResetExpiresRight
  <1> QED
    BY <1>1, <1>2, <1>3, <1>4, <1>5, <1>6, <1>7, <1>8 DEF Next

LEMMA StutterRight ==
    ASSUME AuthInv, UNCHANGED vars
    PROVE  AuthInv'
  BY DEF vars, AuthInv, Tables, RequestsRight, ReadsCurrent, GuessesCounted, Pending,
         IsRequest, Issued

LEMMA AuthInvariant == Spec => []AuthInv
  <1>1. Init => AuthInv
    BY InitRight
  <1>2. AuthInv /\ [Next]_vars => AuthInv'
    BY NextRight, StutterRight
  <1> QED
    BY <1>1, <1>2, PTL DEF Spec

-----------------------------------------------------------------------------
(* The tables keep their types and the references between them: a refresh  *)
(* token descends from its own login or an earlier one, a listed session   *)
(* is a login.                                                             *)
THEOREM TypeCorrect == Spec => []TypeOK
  <1>1. AuthInv => TypeOK
    <2> SUFFICES ASSUME AuthInv
                 PROVE  TypeOK
      OBVIOUS
    <2>1. \A t \in Issued : token[t] \in Token /\ token[t].login \in 1..t
      BY TokenIs DEF AuthInv, Tables
    <2>2. \A x \in Resets : reset[x] \in ResetToken
      BY ResetIs
    <2>3. \A q \in Requests : req[q] # Idle =>
              req[q].user \in Users /\ req[q].seen \in 0..Len(token)
      BY DEF AuthInv, RequestsRight, Pending, IsRequest
    <2>4. spent \in [Resets -> Nat]
      BY DEF AuthInv, Tables, Resets
    <2> QED
      BY <2>1, <2>2, <2>3, <2>4 DEF TypeOK, AuthInv, Tables, GuessesCounted
  <1> QED
    BY <1>1, AuthInvariant, PTL

(* Guessing stops at the limit, whatever else is done to the account       *)
(* between two guesses, as long as no request commits over another.        *)
THEOREM GuessesAlwaysLimited == Spec => []GuessesLimited
  <1>1. AuthInv => GuessesLimited
    BY DEF AuthInv, GuessesCounted, Counted, GuessesLimited
  <1> QED
    BY <1>1, AuthInvariant, PTL

(* A lock is lifted by a request that has read it and by nothing else: a   *)
(* login that found the account open writes no column of the lock.  This   *)
(* holds for requests that overlap as well.                                *)
THEOREM LocksAlwaysStand == Spec => LockStands
  <1> DEFINE Lifts == \A u \in Users :
                 user[u].locked /\ ~user'[u].locked =>
                     \E q \in Requests :
                         req[q] # Idle /\ req'[q] = Idle /\ req[q].user = u /\ req[q].from.locked
  <1>1. ASSUME AuthInv, NEW q \in Requests, Commit(q)
        PROVE  Lifts
    <2> SUFFICES ASSUME NEW u \in Users, user[u].locked, ~user'[u].locked
                 PROVE  req[q] # Idle /\ req'[q] = Idle /\ req[q].user = u /\ req[q].from.locked
      OBVIOUS
    <2>1. /\ q \in Pending /\ req[q] # Idle /\ req'[q] = Idle
          /\ user' = Written(req[q]) /\ IsRequest(req[q])
      BY <1>1 DEF Commit, Pending, AuthInv, RequestsRight
    <2>2. req[q].user = u
      BY <1>1, <2>1, WrittenIs
    <2>3. user'[u]["locked"] = After(req[q]["set"], user[u], "locked")
      BY <1>1, <2>1, <2>2, WrittenIs DEF Columns
    <2>4. LiftsKnowingly(req[q]["set"], req[q]["from"])
      BY <2>1 DEF IsRequest, Effect
    <2>5. req[q].from.locked
      BY <2>3, <2>4 DEF After, LiftsKnowingly
    <2> QED
      BY <2>1, <2>2, <2>5
  <1>2. ASSUME AuthInv, NEW u \in Users, LockExpires(u)
        PROVE  Lifts
    <2>1. \A v \in Users : user'[v].locked = user[v].locked
      <3>1. user \in [Users -> Row]
        BY <1>2 DEF AuthInv, Tables
      <3>2. [user[u] EXCEPT !.until = "past"]["locked"] = user[u]["locked"]
        BY <3>1 DEF Row
      <3> QED
        BY <1>2, <3>1, <3>2 DEF LockExpires
    <2> QED
      BY <2>1
  <1>3. ASSUME UNCHANGED user
        PROVE  Lifts
    BY <1>3
  <1>4. AuthInv /\ [Next]_vars => [Lifts]_vars
    <2> SUFFICES ASSUME AuthInv, Next
                 PROVE  Lifts
      OBVIOUS
    <2> HIDE DEF Lifts
    <2>1. \/ \E q \in Requests : Commit(q)
          \/ \E u \in Users : LockExpires(u)
          \/ UNCHANGED user
      BY ZenonT(30) DEF Next, SignIn, Manage, Administer, OwnSessions, Sends, FailedLogin, Login, Refresh,
             Logout, ForgotPassword, ResetPassword, ChangePassword, Disable, Enable, SoftDelete,
             LockUser, UnlockUser, RevokeSession, RevokeAllSessions, AccessExpires,
             TokenExpires, ResetExpires
    <2> QED
      BY <1>1, <1>2, <1>3, <2>1
  <1> QED
    BY <1>4, AuthInvariant, PTL DEF LockStands, Spec

-----------------------------------------------------------------------------
(***************************************************************************)
(* Tokens.  What a commit does to the tokens of an account was decided     *)
(* when its request read them, so again the invariant tells what a request *)
(* may ask for (Asks), and what it has read that is still so (Current)     *)
(* while no other request on the account has committed.                    *)
(***************************************************************************)

Good(u, tokens) == {t \in 1..Len(tokens) : tokens[t]["user"] = u /\ ~tokens[t]["revoked"]}

(* What is taken or followed belongs to the account; a password comes with *)
(* the end of all tokens, so does closing the account; who issues a token  *)
(* has found the account open and takes the token it descends from.        *)
Asks(r, tokens, resets) ==
    /\ \A t \in r["revoke"] : t \in 1..Len(tokens) /\ tokens[t]["user"] = r["user"]
    /\ \A x \in r["uses"] : x \in 1..Len(resets) /\ resets[x]["user"] = r["user"]
    /\ "hash" \in DOMAIN r["set"] =>
          r["revokeAll"] \/ r["set"]["hash"].password = r["from"]["hash"].password
    /\ "active" \in DOMAIN r["set"] =>
          r["set"]["active"] = TRUE \/ (r["revokeAll"] /\ r["closeAll"])
    /\ r["login"] \/ r["parent"] # {} => r["from"]["active"] /\ ~r["revokeAll"]
    /\ r["parent"] # {} => \E t \in r["revoke"] : r["parent"] = {t}
    /\ r["newReset"] => r["voidResets"]

(* What the request has read of row and tokens is still so.                *)
Current(r, row, tokens, resets) ==
    /\ row["hash"].password = r["from"]["hash"].password
    /\ row["active"] = r["from"]["active"]
    /\ \A t \in 1..Len(tokens) : tokens[t]["user"] = r["user"] => t <= r["seen"]
    /\ \A t \in r["parent"] : ~tokens[t]["revoked"]
    /\ \A x \in r["uses"] : ~resets[x]["used"]

(* An account as the properties want it; a reset token that is not used    *)
(* has set no password. *)
Account(u, row, tokens, listed, resets, uses) ==
    /\ \A t \in Good(u, tokens) : tokens[t]["password"] = row["hash"].password
    /\ \A t, s \in Good(u, tokens) : tokens[t]["login"] = tokens[s]["login"] => t = s
    /\ ~row["active"] => Good(u, tokens) = {} /\ \A t \in listed : tokens[t]["user"] # u
    /\ \A x \in 1..Len(resets) : resets[x]["user"] = u =>
          uses[x] <= 1 /\ (~resets[x]["used"] => uses[x] = 0)
    /\ \A x, y \in 1..Len(resets) :
          /\ resets[x]["user"] = u /\ ~resets[x]["used"]
          /\ resets[y]["user"] = u /\ ~resets[y]["used"]
          => x = y

SpentInv ==
    /\ \A q \in Pending : Asks(req[q], token, reset)
    /\ \A q \in Pending : ~req[q]["stale"] /\ req[q]["user"] \notin raced =>
          Current(req[q], user[req[q]["user"]], token, reset)
    /\ \A u \in Users \ raced : Account(u, user[u], token, session, reset, spent)

-----------------------------------------------------------------------------
(* A request begins. *)

(* It is in order if it asks for what is its own and has just read that.   *)
LEMMA SendsSpent ==
    ASSUME AuthInv, SpentInv, NEW q \in Requests, NEW u \in Users,
           NEW r, Reads(r, u), Sends(q, r), Asks(r, token, reset),
           \A t \in r["parent"] : ~token[t]["revoked"],
           \A x \in r["uses"] : ~reset[x]["used"]
    PROVE  SpentInv'
  <1>1. /\ req' = [req EXCEPT ![q] = r] /\ DOMAIN req = Requests
        /\ UNCHANGED <<user, token, session, reset, spent, raced>>
    BY DEF Sends, AuthInv, RequestsRight
  <1>2. /\ r["user"] = u /\ r["from"] = user[u] /\ r["seen"] = Len(token)
    BY DEF Reads
  <1>3. Current(r, user[u], token, reset)
    BY <1>2 DEF Current
  <1>4. \A p \in Requests : req'[p] = IF p = q THEN r ELSE req[p]
    BY <1>1
  <1>5. \A p \in Pending' : p = q \/ (p \in Pending /\ req'[p] = req[p])
    BY <1>4 DEF Pending
  <1>6. \A p \in Pending' : Asks(req'[p], token', reset')
    BY <1>1, <1>4, <1>5 DEF SpentInv, Pending
  <1>7. \A p \in Pending' : ~req'[p]["stale"] /\ req'[p]["user"] \notin raced' =>
            Current(req'[p], user'[req'[p]["user"]], token', reset')
    <2> SUFFICES ASSUME NEW p \in Pending', ~req'[p]["stale"], req'[p]["user"] \notin raced'
                 PROVE  Current(req'[p], user'[req'[p]["user"]], token', reset')
      OBVIOUS
    <2>1. CASE p = q
      BY <1>1, <1>2, <1>3, <1>4, <2>1
    <2>2. CASE p # q
      BY <1>1, <1>5, <2>2 DEF SpentInv
    <2> QED
      BY <2>1, <2>2
  <1>8. \A v \in Users \ raced' : Account(v, user'[v], token', session', reset', spent')
    BY <1>1 DEF SpentInv
  <1> QED
    BY <1>6, <1>7, <1>8 DEF SpentInv

(* The rest of what a request looks like when it has read u's row. *)
LEMMA ReadingAsks ==
    ASSUME NEW u
    PROVE  /\ Reading(u)["revokeAll"] = FALSE /\ Reading(u)["closeAll"] = FALSE
           /\ Reading(u)["uses"] = {}
           /\ Reading(u)["newReset"] = FALSE /\ Reading(u)["voidResets"] = FALSE
  BY DEF Reading

(* Most requests take no single token and issue none. *)
LEMMA PlainSpent ==
    ASSUME AuthInv, SpentInv, NEW q \in Requests, NEW u \in Users,
           NEW r, Reads(r, u), Sends(q, r),
           r["revoke"] = {}, r["parent"] = {}, r["uses"] = {}, r["login"] = FALSE,
           r["newReset"] => r["voidResets"],
           "hash" \notin DOMAIN r["set"] \/ r["revokeAll"],
           "active" \notin DOMAIN r["set"] \/ r["set"]["active"] = TRUE
               \/ (r["revokeAll"] /\ r["closeAll"])
    PROVE  SpentInv'
  <1>1. Asks(r, token, reset)
    BY DEF Asks
  <1> QED
    BY <1>1, SendsSpent

LEMMA QuietSpent ==
    ASSUME AuthInv, SpentInv, NEW q \in Requests, NEW u \in Users,
           NEW r, Reads(r, u), Sends(q, r), r["set"] = << >>,
           r["revoke"] = {}, r["parent"] = {}, r["uses"] = {}, r["login"] = FALSE,
           r["newReset"] => r["voidResets"]
    PROVE  SpentInv'
  <1>1. DOMAIN r["set"] = {}
    OBVIOUS
  <1>2. "hash" \notin DOMAIN r["set"] /\ "active" \notin DOMAIN r["set"]
    BY <1>1
  <1> QED
    BY <1>2, PlainSpent

LEMMA FailedLoginSpent ==
    ASSUME AuthInv, SpentInv, NEW q \in Requests, NEW u \in Users, FailedLogin(q, u)
    PROVE  SpentInv'
  <1> DEFINE row == user[u]
             want == Attempt(row)
             stamped == IF want.failed >= MaxFailed THEN {"until"} ELSE {}
             set == Changes(row, want, stamped)
             r == [Reading(u) EXCEPT !.set = set, !.wrong = TRUE]
  <1>1. row \in Row
    BY DEF AuthInv, Tables
  <1>2. want["hash"] = row["hash"] /\ want["active"] = row["active"]
    BY <1>1 DEF Attempt, Row
  <1>3. stamped \in SUBSET Columns /\ stamped \in SUBSET {"until"}
    BY DEF Columns
  <1>4. Sends(q, r)
    BY DEF FailedLogin
  <1> HIDE DEF want, stamped
  <1>5. "hash" \notin DOMAIN set /\ "active" \notin DOMAIN set
    BY <1>2, <1>3, ChangesReach
  <1> HIDE DEF set
  <1>6. /\ Reads(r, u) /\ r["set"] = set /\ r["revoke"] = {} /\ r["parent"] = {}
        /\ r["uses"] = {} /\ r["login"] = FALSE /\ r["newReset"] = FALSE
    BY ReadingFields, ReadingAsks DEF Fields, Reads
  <1> HIDE DEF r
  <1> QED
    BY <1>4, <1>5, <1>6, PlainSpent

LEMMA LoginSpent ==
    ASSUME AuthInv, SpentInv, NEW q \in Requests, NEW u \in Users, Login(q, u)
    PROVE  SpentInv'
  <1> DEFINE row == user[u]
             want == [Unlocked(row) EXCEPT !.hash.weak = FALSE]
             set == Changes(row, want, {})
             r == [Reading(u) EXCEPT !.set = set, !.login = TRUE, !.clears = TRUE]
  <1>1. row \in Row
    BY DEF AuthInv, Tables
  <1>2. want["hash"].password = row["hash"].password /\ want["active"] = row["active"]
    BY <1>1 DEF Unlocked, Row, Hash
  <1>3. Sends(q, r) /\ row["active"]
    BY DEF Login, MayLogin
  <1> HIDE DEF want
  <1>4. \A c \in DOMAIN set : set[c] = want[c] /\ want[c] # row[c]
    BY ChangesReach
  <1> HIDE DEF set
  <1>5. /\ Reads(r, u) /\ r["set"] = set /\ r["revoke"] = {} /\ r["parent"] = {}
        /\ r["uses"] = {} /\ r["newReset"] = FALSE /\ r["revokeAll"] = FALSE
    BY ReadingFields, ReadingAsks DEF Fields, Reads
  <1> HIDE DEF r
  <1>6. r["from"] = row
    BY <1>5 DEF Reads
  <1> HIDE DEF row
  <1>7. Asks(r, token, reset)
    BY <1>2, <1>3, <1>4, <1>5, <1>6 DEF Asks
  <1> QED
    BY <1>3, <1>5, <1>7, SendsSpent

LEMMA RefreshSpent ==
    ASSUME AuthInv, SpentInv, NEW q \in Requests, NEW t \in Issued, Refresh(q, t)
    PROVE  SpentInv'
  <1> DEFINE u == token[t].user
             r == [Reading(u) EXCEPT !.revoke = Rotates(t), !.parent = {t}]
  <1>1. u \in Users
    BY TokenIs
  <1>2. Sends(q, r) /\ user[u]["active"] /\ ~token[t]["revoked"]
    BY DEF Refresh
  <1>3. t \in 1..Len(token) /\ token[t]["user"] = u
    BY DEF Issued
  <1> HIDE DEF u
  <1>4. /\ Reads(r, u) /\ r["set"] = << >> /\ r["revoke"] = {t} /\ r["parent"] = {t}
        /\ r["uses"] = {} /\ r["newReset"] = FALSE /\ r["revokeAll"] = FALSE
    BY ReadingFields, ReadingAsks DEF Fields, Reads, Rotates
  <1> HIDE DEF r
  <1>5. r["user"] = u /\ r["from"] = user[u]
    BY <1>4 DEF Reads
  <1>6. Asks(r, token, reset)
    BY <1>2, <1>3, <1>4, <1>5 DEF Asks
  <1> QED
    BY <1>1, <1>2, <1>4, <1>6, SendsSpent

LEMMA LogoutSpent ==
    ASSUME AuthInv, SpentInv, NEW q \in Requests, NEW u \in Users, NEW t, Logout(q, u, t)
    PROVE  SpentInv'
  <1> DEFINE r == [Reading(u) EXCEPT !.revoke = {t} \cap Issued, !.closeAll = TRUE]
  <1>1. Sends(q, r) /\ (t \in Issued => token[t]["user"] = u)
    BY DEF Logout
  <1>2. /\ Reads(r, u) /\ r["set"] = << >> /\ r["revoke"] = {t} \cap Issued
        /\ r["parent"] = {} /\ r["uses"] = {} /\ r["newReset"] = FALSE /\ r["login"] = FALSE
    BY ReadingFields, ReadingAsks DEF Fields, Reads
  <1> HIDE DEF r
  <1>3. r["user"] = u
    BY <1>2 DEF Reads
  <1>4. Asks(r, token, reset)
    BY <1>1, <1>2, <1>3 DEF Asks, Issued
  <1> QED
    BY <1>1, <1>2, <1>4, SendsSpent

LEMMA ForgotPasswordSpent ==
    ASSUME AuthInv, SpentInv, NEW q \in Requests, NEW u \in Users, ForgotPassword(q, u)
    PROVE  SpentInv'
  <1> DEFINE r == [Reading(u) EXCEPT !.voidResets = VoidsEarlier, !.newReset = TRUE]
  <1>1. Sends(q, r)
    BY DEF ForgotPassword
  <1>2. /\ Reads(r, u) /\ r["set"] = << >> /\ r["revoke"] = {} /\ r["parent"] = {}
        /\ r["uses"] = {} /\ r["login"] = FALSE /\ r["voidResets"] = TRUE
    BY ReadingFields, ReadingAsks DEF Fields, Reads, VoidsEarlier
  <1> HIDE DEF r
  <1> QED
    BY <1>1, <1>2, QuietSpent

LEMMA ResetPasswordSpent ==
    ASSUME AuthInv, SpentInv, NEW q \in Requests, NEW x \in Resets, ResetPassword(q, x)
    PROVE  SpentInv'
  <1> DEFINE u == reset[x].user
             set == Changes(user[u], NewHash(user[u]), {"hash"})
             r == [Reading(u) EXCEPT !.set = set, !.uses = {x}, !.revokeAll = TRUE, !.closeAll = TRUE]
  <1>1. u \in Users
    BY ResetIs
  <1>2. Sends(q, r) /\ ~reset[x]["used"]
    BY DEF ResetPassword
  <1>3. x \in 1..Len(reset) /\ reset[x]["user"] = u
    BY DEF Resets
  <1> HIDE DEF u
  <1>4. user[u] \in Row
    BY <1>1 DEF AuthInv, Tables
  <1> HIDE DEF set
  <1>5. /\ Reads(r, u) /\ r["set"] = set /\ r["revoke"] = {} /\ r["parent"] = {}
        /\ r["uses"] = {x} /\ r["newReset"] = FALSE /\ r["login"] = FALSE
        /\ r["revokeAll"] = TRUE /\ r["closeAll"] = TRUE
    BY ReadingFields, ReadingAsks DEF Fields, Reads
  <1> HIDE DEF r
  <1>6. r["user"] = u
    BY <1>5 DEF Reads
  <1>7. Asks(r, token, reset)
    BY <1>3, <1>5, <1>6 DEF Asks
  <1> QED
    BY <1>1, <1>2, <1>5, <1>7, SendsSpent

LEMMA ChangePasswordSpent ==
    ASSUME AuthInv, SpentInv, NEW q \in Requests, NEW u \in Users, ChangePassword(q, u)
    PROVE  SpentInv'
  <1> DEFINE set == Changes(user[u], NewHash(user[u]), {"hash"})
             r == [Reading(u) EXCEPT !.set = set, !.revokeAll = TRUE]
  <1>1. Sends(q, r)
    BY DEF ChangePassword
  <1>2. user[u] \in Row /\ {"hash"} \in SUBSET Columns
    BY DEF AuthInv, Tables, Columns
  <1>3. NewHash(user[u])["active"] = user[u]["active"]
    BY <1>2 DEF NewHash, Row
  <1>4. "active" \notin DOMAIN set
    BY <1>2, <1>3, ChangesReach
  <1> HIDE DEF set
  <1>5. /\ Reads(r, u) /\ r["set"] = set /\ r["revoke"] = {} /\ r["parent"] = {}
        /\ r["uses"] = {} /\ r["newReset"] = FALSE /\ r["login"] = FALSE
        /\ r["revokeAll"] = TRUE
    BY ReadingFields, ReadingAsks DEF Fields, Reads
  <1> HIDE DEF r
  <1> QED
    BY <1>1, <1>4, <1>5, PlainSpent

(* Disabling and removing end all tokens and sessions. *)
LEMMA ClosingSpent ==
    ASSUME AuthInv, SpentInv, NEW q \in Requests, NEW u \in Users,
           NEW set, Sends(q, [Reading(u) EXCEPT !.set = set, !.revokeAll = TRUE, !.closeAll = TRUE])
    PROVE  SpentInv'
  <1> DEFINE r == [Reading(u) EXCEPT !.set = set, !.revokeAll = TRUE, !.closeAll = TRUE]
  <1>1. /\ Reads(r, u) /\ r["set"] = set /\ r["revoke"] = {} /\ r["parent"] = {}
        /\ r["uses"] = {} /\ r["newReset"] = FALSE /\ r["login"] = FALSE
        /\ r["revokeAll"] = TRUE /\ r["closeAll"] = TRUE
    BY ReadingFields, ReadingAsks DEF Fields, Reads
  <1>2. Sends(q, r)
    OBVIOUS
  <1> HIDE DEF r
  <1> QED
    BY <1>1, <1>2, PlainSpent

(* Locking, unlocking and enabling write neither hash nor an end. *)
LEMMA LockingSpent ==
    ASSUME AuthInv, SpentInv, NEW q \in Requests, NEW u \in Users,
           NEW want, want["hash"] = user[u]["hash"],
           want["active"] \in {user[u]["active"], TRUE},
           NEW stamped \in SUBSET {"until"},
           NEW r, Reads(r, u), Sends(q, r), r["set"] = Changes(user[u], want, stamped),
           r["revoke"] = {}, r["parent"] = {}, r["uses"] = {}, r["login"] = FALSE,
           r["newReset"] = FALSE
    PROVE  SpentInv'
  <1>1. stamped \in SUBSET Columns
    BY DEF Columns
  <1>2. \A c \in DOMAIN r["set"] : r["set"][c] = want[c] /\ (c \in stamped \/ want[c] # user[u][c])
    BY <1>1, ChangesReach
  <1> QED
    BY <1>2, PlainSpent

LEMMA EnableSpent ==
    ASSUME AuthInv, SpentInv, NEW q \in Requests, NEW u \in Users, Enable(q, u)
    PROVE  SpentInv'
  <1> DEFINE want == [Unlocked(user[u]) EXCEPT !.active = TRUE]
             set == Changes(user[u], want, {})
             r == [Reading(u) EXCEPT !.set = set, !.clears = TRUE]
  <1>1. user[u] \in Row
    BY DEF AuthInv, Tables
  <1>2. want["hash"] = user[u]["hash"] /\ want["active"] = TRUE
    BY <1>1 DEF Unlocked, Row
  <1>3. Sends(q, r)
    BY DEF Enable
  <1> HIDE DEF set
  <1>4. /\ Reads(r, u) /\ r["set"] = set /\ r["revoke"] = {} /\ r["parent"] = {}
        /\ r["uses"] = {} /\ r["newReset"] = FALSE /\ r["login"] = FALSE
    BY ReadingFields, ReadingAsks DEF Fields, Reads
  <1> HIDE DEF want, r
  <1> QED
    BY <1>2, <1>3, <1>4, LockingSpent DEF set

LEMMA UnlockUserSpent ==
    ASSUME AuthInv, SpentInv, NEW q \in Requests, NEW u \in Users, UnlockUser(q, u)
    PROVE  SpentInv'
  <1> DEFINE want == Unlocked(user[u])
             set == Changes(user[u], want, {})
             r == [Reading(u) EXCEPT !.set = set, !.clears = TRUE]
  <1>1. user[u] \in Row
    BY DEF AuthInv, Tables
  <1>2. want["hash"] = user[u]["hash"] /\ want["active"] = user[u]["active"]
    BY <1>1 DEF Unlocked, Row
  <1>3. Sends(q, r)
    BY DEF UnlockUser
  <1> HIDE DEF set
  <1>4. /\ Reads(r, u) /\ r["set"] = set /\ r["revoke"] = {} /\ r["parent"] = {}
        /\ r["uses"] = {} /\ r["newReset"] = FALSE /\ r["login"] = FALSE
    BY ReadingFields, ReadingAsks DEF Fields, Reads
  <1> HIDE DEF want, r
  <1> QED
    BY <1>2, <1>3, <1>4, LockingSpent DEF set

LEMMA LockUserSpent ==
    ASSUME AuthInv, SpentInv, NEW q \in Requests, NEW u \in Users, LockUser(q, u)
    PROVE  SpentInv'
  <1> DEFINE want == [user[u] EXCEPT !.locked = TRUE, !.until = "future"]
             set == Changes(user[u], want, {"until"})
             r == [Reading(u) EXCEPT !.set = set]
  <1>1. user[u] \in Row
    BY DEF AuthInv, Tables
  <1>2. want["hash"] = user[u]["hash"] /\ want["active"] = user[u]["active"]
    BY <1>1 DEF Row
  <1>3. Sends(q, r)
    BY DEF LockUser
  <1> HIDE DEF set
  <1>4. /\ Reads(r, u) /\ r["set"] = set /\ r["revoke"] = {} /\ r["parent"] = {}
        /\ r["uses"] = {} /\ r["newReset"] = FALSE /\ r["login"] = FALSE
    BY ReadingFields, ReadingAsks DEF Fields, Reads
  <1> HIDE DEF want, r
  <1> QED
    BY <1>2, <1>3, <1>4, LockingSpent DEF set

LEMMA RevokeSessionSpent ==
    ASSUME AuthInv, SpentInv, NEW q \in Requests, NEW t, RevokeSession(q, t)
    PROVE  SpentInv'
  <1> DEFINE u == token[t].user
             r == [Reading(u) EXCEPT !.close = {t}]
  <1>1. t \in Issued
    BY DEF RevokeSession, AuthInv, Tables
  <1>2. u \in Users
    BY <1>1, TokenIs
  <1>3. Sends(q, r)
    BY DEF RevokeSession
  <1> HIDE DEF u
  <1>4. /\ Reads(r, u) /\ r["set"] = << >> /\ r["revoke"] = {} /\ r["parent"] = {}
        /\ r["uses"] = {} /\ r["newReset"] = FALSE /\ r["login"] = FALSE
    BY ReadingFields, ReadingAsks DEF Fields, Reads
  <1> HIDE DEF r
  <1> QED
    BY <1>2, <1>3, <1>4, QuietSpent

LEMMA RevokeAllSessionsSpent ==
    ASSUME AuthInv, SpentInv, NEW q \in Requests, NEW u \in Users, RevokeAllSessions(q, u)
    PROVE  SpentInv'
  <1> DEFINE r == [Reading(u) EXCEPT !.closeAll = TRUE]
  <1>1. Sends(q, r)
    BY DEF RevokeAllSessions
  <1>2. /\ Reads(r, u) /\ r["set"] = << >> /\ r["revoke"] = {} /\ r["parent"] = {}
        /\ r["uses"] = {} /\ r["newReset"] = FALSE /\ r["login"] = FALSE
    BY ReadingFields, ReadingAsks DEF Fields, Reads
  <1> HIDE DEF r
  <1> QED
    BY <1>1, <1>2, QuietSpent

-----------------------------------------------------------------------------
(* A commit. *)

(* Tokens stay where they are; some are revoked, one may come. *)
TokensMove(r, n, old, now, born) ==
    /\ Len(now) >= Len(old)
    /\ \A t \in 1..Len(old) :
          /\ now[t]["user"] = old[t]["user"]
          /\ now[t]["login"] = old[t]["login"]
          /\ now[t]["password"] = old[t]["password"]
          /\ now[t]["revoked"] <=>
                \/ old[t]["revoked"]
                \/ t \in r["revoke"]
                \/ r["revokeAll"] /\ t <= n /\ old[t]["user"] = r["user"]
    /\ \A t \in 1..Len(now) : t \notin 1..Len(old) =>
          /\ r["login"] \/ r["parent"] # {}
          /\ t = Len(old) + 1 /\ now[t] = born

LEMMA TokensAfter ==
    ASSUME AuthInv, NEW q \in Pending, Commit(q)
    PROVE  \E n \in req[q]["seen"]..Len(token) :
              TokensMove(req[q], n, token, token', NewToken(req[q]))
  <1> DEFINE r == req[q]
             issues == r["login"] \/ r["parent"] # {}
             new == NewToken(r)
  <1>1. PICK n \in r["seen"]..Len(token) :
            token' = Revoked(r, n) \o (IF issues THEN <<new>> ELSE <<>>)
    BY DEF Commit
  <1> DEFINE f == Revoked(r, n)
  <1>2. f \in Seq(Token) /\ Len(f) = Len(token)
    BY RevokedIs
  <1>3. \A t \in 1..Len(token) :
           f[t] = IF t \in r["revoke"] \/ (r["revokeAll"] /\ t <= n /\ token[t]["user"] = r["user"])
                  THEN [token[t] EXCEPT !.revoked = TRUE] ELSE token[t]
    BY DEF Revoked, Issued
  <1>4. \A t \in 1..Len(token) : token[t] \in Token
    BY TokenIs DEF Issued
  <1>5. issues => new \in Token
    BY NewTokenIs DEF AuthInv, RequestsRight
  <1>6. token' = f \o (IF issues THEN <<new>> ELSE <<>>)
    BY <1>1
  <1> HIDE DEF f, new, issues
  <1>7. /\ Len(token') >= Len(token)
        /\ \A t \in 1..Len(token) : token'[t] = f[t]
        /\ \A t \in 1..Len(token') : t \notin 1..Len(token) =>
              issues /\ t = Len(token) + 1 /\ token'[t] = new
    <2>1. CASE issues
      <3>1. token' = f \o <<new>>
        BY <1>6, <2>1
      <3> QED
        BY <1>2, <1>5, <2>1, <3>1
    <2>2. CASE ~issues
      <3>1. token' = f
        BY <1>2, <1>6, <2>2
      <3> QED
        BY <1>2, <3>1
    <2> QED
      BY <2>1, <2>2
  <1>8. \A t \in 1..Len(token) :
           /\ f[t]["user"] = token[t]["user"]
           /\ f[t]["login"] = token[t]["login"]
           /\ f[t]["password"] = token[t]["password"]
           /\ f[t]["revoked"] <=>
                 \/ token[t]["revoked"]
                 \/ t \in r["revoke"]
                 \/ r["revokeAll"] /\ t <= n /\ token[t]["user"] = r["user"]
    BY <1>3, <1>4 DEF Token
  <1>9. TokensMove(r, n, token, token', new)
    BY <1>7, <1>8 DEF issues, TokensMove
  <1> QED
    BY <1>9 DEF new

(* Reset tokens stay, too; some are used, an unused one may come. *)
LEMMA ResetsAfter ==
    ASSUME AuthInv, NEW q \in Pending, Commit(q)
    PROVE  /\ Len(reset') >= Len(reset)
           /\ \A x \in 1..Len(reset) :
                 /\ reset'[x]["user"] = reset[x]["user"]
                 /\ reset'[x]["used"] <=>
                       \/ reset[x]["used"]
                       \/ x \in req[q]["uses"]
                       \/ req[q]["voidResets"] /\ reset[x]["user"] = req[q]["user"]
                 /\ spent'[x] = IF x \in req[q]["uses"] THEN spent[x] + 1 ELSE spent[x]
           /\ \A x \in 1..Len(reset') : x \notin 1..Len(reset) =>
                 /\ req[q]["newReset"] /\ x = Len(reset) + 1
                 /\ reset'[x]["user"] = req[q]["user"] /\ ~reset'[x]["used"]
                 /\ spent'[x] = 0
  <1> DEFINE r == req[q]
             f == Used(r)
             g == [x \in Resets |-> IF x \in r["uses"] THEN spent[x] + 1 ELSE spent[x]]
             fresh == [user |-> r["user"], used |-> FALSE, expired |-> FALSE]
  <1>1. /\ reset' = f \o (IF r["newReset"] THEN <<fresh>> ELSE <<>>)
        /\ spent' = g \o (IF r["newReset"] THEN <<0>> ELSE <<>>)
    BY DEF Commit
  <1>2. f \in Seq(ResetToken) /\ Len(f) = Len(reset) /\ Len(reset) \in Nat
    BY UsedIs DEF AuthInv, Tables
  <1>3. /\ g \in Seq(Nat) /\ Len(g) = Len(reset)
        /\ \A x \in 1..Len(reset) : g[x] = IF x \in r["uses"] THEN spent[x] + 1 ELSE spent[x]
    <2>1. spent \in Seq(Nat) /\ Len(spent) = Len(reset) /\ Resets = 1..Len(reset)
      BY DEF AuthInv, Tables, Resets
    <2>2. \A x \in Resets : spent[x] \in Nat /\ spent[x] + 1 \in Nat
      BY <2>1
    <2> QED
      BY <1>2, <2>1, <2>2
  <1>4. \A x \in 1..Len(reset) :
           f[x] = IF x \in r["uses"] \/ (r["voidResets"] /\ reset[x]["user"] = r["user"])
                  THEN [reset[x] EXCEPT !.used = TRUE] ELSE reset[x]
    BY DEF Used, Resets
  <1>5. \A x \in 1..Len(reset) : reset[x] \in ResetToken
    BY ResetIs DEF Resets
  <1>6. fresh["user"] = r["user"] /\ ~fresh["used"] /\ fresh \in ResetToken
    <2>1. r["user"] \in Users
      BY DEF AuthInv, RequestsRight, IsRequest
    <2> QED
      BY <2>1 DEF ResetToken
  <1> HIDE DEF f, g, fresh
  <1>7. /\ Len(reset') >= Len(reset)
        /\ \A x \in 1..Len(reset) : reset'[x] = f[x] /\ spent'[x] = g[x]
        /\ \A x \in 1..Len(reset') : x \notin 1..Len(reset) =>
              r["newReset"] /\ x = Len(reset) + 1 /\ reset'[x] = fresh /\ spent'[x] = 0
    <2>1. CASE r["newReset"]
      <3>1. reset' = f \o <<fresh>> /\ spent' = g \o <<0>>
        BY <1>1, <2>1
      <3> QED
        BY <1>2, <1>3, <1>6, <2>1, <3>1
    <2>2. CASE ~r["newReset"]
      <3>1. reset' = f /\ spent' = g
        BY <1>1, <1>2, <1>3, <2>2
      <3> QED
        BY <1>2, <1>3, <3>1
    <2> QED
      BY <2>1, <2>2
  <1>8. \A x \in 1..Len(reset) :
           /\ f[x]["user"] = reset[x]["user"]
           /\ f[x]["used"] <=>
                 reset[x]["used"] \/ x \in r["uses"]
                   \/ (r["voidResets"] /\ reset[x]["user"] = r["user"])
    BY <1>4, <1>5 DEF ResetToken
  <1> QED
    BY <1>3, <1>6, <1>7, <1>8

(* Sessions: one opens at a login only. *)
LEMMA ListedAfter ==
    ASSUME AuthInv, NEW q \in Pending, Commit(q), NEW t \in session'
    PROVE  \/ t \in session /\ t \in 1..Len(token)
              /\ ~(req[q]["closeAll"] /\ token[t]["user"] = req[q]["user"])
           \/ req[q]["login"] /\ t = Len(token) + 1 /\ t \in 1..Len(token')
  <1>1. t \in session' /\ Tables'
    BY CommitTables DEF Pending
  <1>2. t \in 1..Len(token')
    BY <1>1 DEF Tables, Issued
  <1>3. session \subseteq 1..Len(token)
    BY DEF AuthInv, Tables, Issued
  <1> QED
    BY <1>1, <1>2, <1>3 DEF Commit, Closed, OpensSession

LEMMA NewTokenOf ==
    ASSUME NEW r
    PROVE  /\ NewToken(r)["user"] = r["user"]
           /\ NewToken(r)["password"] = r["from"]["hash"].password
           /\ r["login"] => NewToken(r)["login"] = Len(token) + 1
           /\ \A t : ~r["login"] /\ r["parent"] = {t} => NewToken(r)["login"] = token[t]["login"]
  BY DEF NewToken

LEMMA TokensKept ==
    ASSUME NEW r, NEW n, NEW old, NEW now, NEW born, TokensMove(r, n, old, now, born),
           born["user"] = r["user"]
    PROVE  /\ \A t \in 1..Len(old) :
                 /\ now[t]["user"] = old[t]["user"]
                 /\ now[t]["login"] = old[t]["login"]
                 /\ now[t]["password"] = old[t]["password"]
                 /\ old[t]["revoked"] => now[t]["revoked"]
           /\ \A t \in 1..Len(now) : t \notin 1..Len(old) => now[t]["user"] = r["user"]
<1>1. ASSUME NEW t \in 1..Len(old)
      PROVE  /\ now[t]["user"] = old[t]["user"]
             /\ now[t]["login"] = old[t]["login"]
             /\ now[t]["password"] = old[t]["password"]
             /\ old[t]["revoked"] => now[t]["revoked"]
  BY <1>1, Zenon DEF TokensMove
<1>2. ASSUME NEW t \in 1..Len(now), t \notin 1..Len(old)
      PROVE  now[t]["user"] = r["user"]
  <2>1. now[t] = born
    BY <1>2, Zenon DEF TokensMove
  <2>2. QED
    BY <2>1
<1>3. QED
  BY <1>1, <1>2

(* The account of somebody else. *)
LEMMA CommitSpares ==
    ASSUME AuthInv, SpentInv, NEW q \in Pending, Commit(q),
           NEW u \in Users \ raced, u # req[q]["user"]
    PROVE  Account(u, user'[u], token', session', reset', spent')
  <1> DEFINE r == req[q]
  <1>1. Account(u, user[u], token, session, reset, spent) /\ Asks(r, token, reset)
    BY DEF SpentInv
  <1>2. user'[u] = user[u]
    BY WrittenIs DEF Commit
  <1>3. PICK n \in r["seen"]..Len(token) : TokensMove(r, n, token, token', NewToken(r))
    BY TokensAfter
  <1>4. /\ \A t \in 1..Len(token) :
              /\ token'[t]["user"] = token[t]["user"]
              /\ token'[t]["login"] = token[t]["login"]
              /\ token'[t]["password"] = token[t]["password"]
              /\ token[t]["revoked"] => token'[t]["revoked"]
        /\ \A t \in 1..Len(token') : t \notin 1..Len(token) =>
              token'[t]["user"] = r["user"]
    <2>1. NewToken(r)["user"] = r["user"]
      BY NewTokenOf
    <2> HIDE DEF r
    <2> QED
      BY <1>3, <2>1, TokensKept
  <1>5. \A t \in Good(u, token') :
           /\ t \in Good(u, token)
           /\ token'[t]["login"] = token[t]["login"] /\ token'[t]["password"] = token[t]["password"]
    BY <1>4 DEF Good
  <1>6. ~user'[u]["active"] => Good(u, token') = {} /\ \A t \in session' : token'[t]["user"] # u
    <2> SUFFICES ASSUME ~user[u]["active"]
                 PROVE  Good(u, token') = {} /\ \A t \in session' : token'[t]["user"] # u
      BY <1>2
    <2>1. Good(u, token) = {} /\ \A t \in session : token[t]["user"] # u
      BY <1>1 DEF Account
    <2>2. ASSUME NEW t \in session'
          PROVE  token'[t]["user"] # u
      <3>1. CASE t \in session /\ t \in 1..Len(token)
        BY <1>4, <2>1, <3>1
      <3>2. CASE t = Len(token) + 1 /\ t \in 1..Len(token')
        BY <1>4, <3>2, SMTT(30) DEF AuthInv, Tables
      <3> QED
        BY <3>1, <3>2, ListedAfter
    <2> QED
      BY <1>5, <2>1, <2>2
  <1>7. \A x \in 1..Len(reset') : reset'[x]["user"] = u =>
           /\ x \in 1..Len(reset) /\ reset[x]["user"] = u
           /\ reset'[x]["used"] <=> reset[x]["used"]
           /\ spent'[x] = spent[x]
    <2>1. \A x \in r["uses"] : reset[x]["user"] # u
      BY <1>1 DEF Asks
    <2> QED
      BY <2>1, ResetsAfter
  <1> HIDE DEF r
  <1>8. /\ \A t \in Good(u, token') : token'[t]["password"] = user'[u]["hash"].password
        /\ \A t, s \in Good(u, token') : token'[t]["login"] = token'[s]["login"] => t = s
    BY <1>1, <1>2, <1>5 DEF Account
  <1>9. /\ \A x \in 1..Len(reset') : reset'[x]["user"] = u =>
              spent'[x] <= 1 /\ (~reset'[x]["used"] => spent'[x] = 0)
        /\ \A x, y \in 1..Len(reset') :
              /\ reset'[x]["user"] = u /\ ~reset'[x]["used"]
              /\ reset'[y]["user"] = u /\ ~reset'[y]["used"]
              => x = y
    BY <1>1, <1>7 DEF Account
  <1> QED
    BY <1>6, <1>8, <1>9 DEF Account

(* The account of a request that no other commit has overtaken. *)
LEMMA CommitSpends ==
    ASSUME AuthInv, SpentInv, NEW q \in Pending, Commit(q),
           ~req[q]["stale"], req[q]["user"] \notin raced
    PROVE  Account(req[q]["user"], user'[req[q]["user"]], token', session', reset', spent')
  <1> DEFINE r == req[q]
             u == r["user"]
             row == user[u]
             now == user'[u]
             issues == r["login"] \/ r["parent"] # {}
  <1>1. u \in Users /\ Len(token) \in Nat /\ Len(token') \in Nat
    <2>1. q \in Requests
      BY DEF Pending
    <2> QED
      BY <2>1, WrittenIs, CommitTables DEF AuthInv, Tables
  <1>2. /\ Account(u, row, token, session, reset, spent)
        /\ Asks(r, token, reset) /\ Current(r, row, token, reset)
    BY <1>1 DEF SpentInv
  <1>3. /\ now["hash"] = After(r["set"], row, "hash")
        /\ now["active"] = After(r["set"], row, "active")
    BY WrittenIs DEF Commit, Columns
  <1>4. PICK n \in r["seen"]..Len(token) : TokensMove(r, n, token, token', NewToken(r))
    BY TokensAfter
  <1>5. r["seen"] \in 0..Len(token) /\ r["login"] \in BOOLEAN
    BY DEF AuthInv, RequestsRight, IsRequest
  <1>6. \A t \in Good(u, token') :
           \/ t \in Good(u, token) /\ t \notin r["revoke"] /\ ~r["revokeAll"]
              /\ token'[t]["login"] = token[t]["login"]
              /\ token'[t]["password"] = token[t]["password"]
           \/ issues /\ t = Len(token) + 1 /\ token'[t] = NewToken(r)
    <2> SUFFICES ASSUME NEW t \in Good(u, token'), t \in 1..Len(token)
                 PROVE  /\ t \in Good(u, token) /\ t \notin r["revoke"] /\ ~r["revokeAll"]
                        /\ token'[t]["login"] = token[t]["login"]
                        /\ token'[t]["password"] = token[t]["password"]
      BY <1>4 DEF Good, TokensMove
    <2>1. token[t]["user"] = u /\ ~token'[t]["revoked"]
      BY <1>4 DEF Good, TokensMove
    <2>2. t <= r["seen"]
      BY <1>2, <2>1 DEF Current
    <2>3. t <= n
      BY <1>1, <1>5, <2>2
    <2> QED
      BY <1>4, <2>1, <2>3 DEF Good, TokensMove
  <1>7. issues => row["active"] /\ ~r["revokeAll"]
    BY <1>2 DEF Asks, Current
  <1>8. ~r["revokeAll"] => now["hash"].password = row["hash"].password
    BY <1>2, <1>3 DEF Asks, Current, After
  <1>9. \A t \in Good(u, token') : token'[t]["password"] = now["hash"].password
    <2> TAKE t \in Good(u, token')
    <2>1. CASE t \in Good(u, token) /\ ~r["revokeAll"] /\ token'[t]["password"] = token[t]["password"]
      BY <1>2, <1>8, <2>1 DEF Account
    <2>2. CASE issues /\ token'[t] = NewToken(r)
      BY <1>2, <1>7, <1>8, <2>2, NewTokenOf DEF Current
    <2> QED
      BY <1>6, <2>1, <2>2
  <1>10. ASSUME issues, NEW s \in Good(u, token), s \notin r["revoke"]
         PROVE  token[s]["login"] # NewToken(r)["login"]
    <2>1. CASE r["login"]
      <3>1. token[s]["login"] \in 1..s /\ s \in 1..Len(token)
        BY DEF Good, AuthInv, Tables, Issued
      <3>2. NewToken(r)["login"] = Len(token) + 1
        BY <2>1, NewTokenOf
      <3> QED
        BY <1>1, <3>1, <3>2
    <2>2. CASE ~r["login"]
      <3>1. PICK p \in r["revoke"] : r["parent"] = {p}
        BY <1>2, <1>10, <2>2 DEF Asks
      <3>2. p \in Good(u, token)
        BY <1>2, <3>1 DEF Asks, Current, Good
      <3>3. NewToken(r)["login"] = token[p]["login"]
        BY <2>2, <3>1, NewTokenOf
      <3> QED
        BY <1>2, <1>10, <3>1, <3>2, <3>3 DEF Account
    <2> QED
      BY <2>1, <2>2
  <1>11. \A t, s \in Good(u, token') : token'[t]["login"] = token'[s]["login"] => t = s
    <2> TAKE t, s \in Good(u, token')
    <2>1. \A k \in {t, s} :
             \/ k \in Good(u, token) /\ k \notin r["revoke"]
                /\ token'[k]["login"] = token[k]["login"]
             \/ issues /\ k = Len(token) + 1 /\ token'[k] = NewToken(r)
      BY <1>6
    <2> HIDE DEF issues
    <2> QED
      BY <1>2, <1>10, <2>1 DEF Account
  <1>12. ~now["active"] => Good(u, token') = {} /\ \A t \in session' : token'[t]["user"] # u
    <2> SUFFICES ASSUME ~now["active"]
                 PROVE  Good(u, token') = {} /\ \A t \in session' : token'[t]["user"] # u
      OBVIOUS
    <2>1. CASE "active" \in DOMAIN r["set"]
      <3>1. r["revokeAll"] /\ r["closeAll"] /\ ~issues
        BY <1>2, <1>3, <1>7, <2>1 DEF Asks, After
      <3>2. Good(u, token') = {}
        BY <1>6, <3>1
      <3>3. ASSUME NEW t \in session'
            PROVE  token'[t]["user"] # u
        <4>1. t \in 1..Len(token) /\ token[t]["user"] # u
          BY <3>1, ListedAfter
        <4> QED
          BY <1>4, <4>1 DEF TokensMove
      <3> QED
        BY <3>2, <3>3
    <2>2. CASE "active" \notin DOMAIN r["set"]
      <3>1. ~row["active"] /\ ~issues
        BY <1>3, <1>7, <2>2 DEF After
      <3>2. Good(u, token) = {} /\ \A t \in session : token[t]["user"] # u
        BY <1>2, <3>1 DEF Account
      <3>3. Good(u, token') = {}
        BY <1>6, <3>1, <3>2
      <3>4. ASSUME NEW t \in session'
            PROVE  token'[t]["user"] # u
        <4>1. t \in session /\ t \in 1..Len(token)
          BY <3>1, ListedAfter
        <4> QED
          BY <1>4, <3>2, <4>1 DEF TokensMove
      <3> QED
        BY <3>3, <3>4
    <2> QED
      BY <2>1, <2>2
  <1>13. /\ \A x \in 1..Len(reset') : reset'[x]["user"] = u =>
               spent'[x] <= 1 /\ (~reset'[x]["used"] => spent'[x] = 0)
         /\ \A x, y \in 1..Len(reset') :
               /\ reset'[x]["user"] = u /\ ~reset'[x]["used"]
               /\ reset'[y]["user"] = u /\ ~reset'[y]["used"]
               => x = y
    <2>1. \A x \in r["uses"] :
             x \in 1..Len(reset) /\ reset[x]["user"] = u /\ ~reset[x]["used"]
      BY <1>2 DEF Asks, Current
    <2>2. r["newReset"] => r["voidResets"]
      BY <1>2 DEF Asks
    <2>3. \A x \in 1..Len(reset) : reset[x]["user"] = u =>
             spent[x] <= 1 /\ (~reset[x]["used"] => spent[x] = 0)
      BY <1>2 DEF Account
    <2>4. \A x, y \in 1..Len(reset) :
             /\ reset[x]["user"] = u /\ ~reset[x]["used"]
             /\ reset[y]["user"] = u /\ ~reset[y]["used"]
             => x = y
      BY <1>2 DEF Account
    <2>5. ASSUME NEW x \in 1..Len(reset'), reset'[x]["user"] = u
          PROVE  spent'[x] <= 1 /\ (~reset'[x]["used"] => spent'[x] = 0)
      <3>1. CASE x \in r["uses"]
        BY <2>1, <2>3, <3>1, ResetsAfter
      <3>2. CASE x \in 1..Len(reset) /\ x \notin r["uses"]
        BY <2>3, <2>5, <3>2, ResetsAfter
      <3>3. CASE x \notin 1..Len(reset)
        BY <3>3, ResetsAfter
      <3> QED
        BY <3>1, <3>2, <3>3
    <2>6. ASSUME NEW x \in 1..Len(reset'), NEW y \in 1..Len(reset'),
                 reset'[x]["user"] = u, ~reset'[x]["used"],
                 reset'[y]["user"] = u, ~reset'[y]["used"]
          PROVE  x = y
      <3>1. \A k \in {x, y} :
               \/ k \in 1..Len(reset) /\ reset[k]["user"] = u /\ ~reset[k]["used"]
                  /\ ~r["voidResets"]
               \/ r["newReset"] /\ k = Len(reset) + 1
        BY <2>6, ResetsAfter
      <3> HIDE DEF r, u
      <3> QED
        BY <2>2, <2>4, <3>1
    <2> QED
      BY <2>5, <2>6
  <1> HIDE DEF now
  <1> QED
    BY <1>9, <1>11, <1>12, <1>13 DEF Account, now

(* Requests that are left: what they ask for is still theirs, and what     *)
(* they have read is still so unless the commit was on their account.      *)
LEMMA CommitLeaves ==
    ASSUME AuthInv, SpentInv, NEW q \in Pending, Commit(q), NEW p \in Pending'
    PROVE  /\ Asks(req'[p], token', reset')
           /\ ~req'[p]["stale"] /\ req'[p]["user"] \notin raced' =>
                 Current(req'[p], user'[req'[p]["user"]], token', reset')
  <1> DEFINE r == req[q]
             s == req[p]
             u == s["user"]
  <1>1. p \in Pending /\ s # Idle /\ DOMAIN s = Fields /\ DOMAIN req'[p] = Fields
    <2>1. q \in Requests
      BY DEF Pending
    <2>2. p \in Pending /\ RequestsRight'
      BY <2>1, CommitRequests
    <2> QED
      BY <2>2 DEF AuthInv, RequestsRight, IsRequest, Pending
  <1>2. /\ \A f \in Fields \ {"stale"} : req'[p][f] = s[f]
        /\ s["stale"] => req'[p]["stale"]
        /\ u = r["user"] => req'[p]["stale"]
    <2>1. p # q /\ req'[p] = [s EXCEPT !.stale = s["stale"] \/ u = r["user"]]
      BY <1>1 DEF Commit, Pending
    <2> HIDE DEF s, u, r
    <2> QED
      BY <1>1, <2>1 DEF Fields
  <1>3. /\ req'[p]["user"] = u /\ req'[p]["set"] = s["set"] /\ req'[p]["from"] = s["from"]
        /\ req'[p]["seen"] = s["seen"] /\ req'[p]["revoke"] = s["revoke"]
        /\ req'[p]["revokeAll"] = s["revokeAll"] /\ req'[p]["closeAll"] = s["closeAll"]
        /\ req'[p]["login"] = s["login"] /\ req'[p]["parent"] = s["parent"]
        /\ req'[p]["voidResets"] = s["voidResets"] /\ req'[p]["newReset"] = s["newReset"]
        /\ req'[p]["uses"] = s["uses"]
    BY <1>2 DEF Fields
  <1>4. Asks(s, token, reset) /\ Asks(r, token, reset)
    BY <1>1 DEF SpentInv
  <1>5. PICK n \in r["seen"]..Len(token) : TokensMove(r, n, token, token', NewToken(r))
    BY TokensAfter
  <1>6. /\ Len(token') >= Len(token)
        /\ \A t \in 1..Len(token) :
              /\ token'[t]["user"] = token[t]["user"]
              /\ token'[t]["revoked"] <=>
                    \/ token[t]["revoked"]
                    \/ t \in r["revoke"]
                    \/ r["revokeAll"] /\ t <= n /\ token[t]["user"] = r["user"]
        /\ \A t \in 1..Len(token') : t \notin 1..Len(token) =>
              token'[t]["user"] = r["user"]
    <2>1. NewToken(r)["user"] = r["user"]
      BY NewTokenOf
    <2> HIDE DEF r
    <2>2. \A t \in 1..Len(token') : t \notin 1..Len(token) => token'[t]["user"] = r["user"]
      BY <1>5, <2>1, TokensKept
    <2> QED
      BY <1>5, <2>2 DEF TokensMove
  <1>7. /\ \A t \in 1..Len(token) : t \in 1..Len(token')
        /\ \A x \in 1..Len(reset) : x \in 1..Len(reset')
    <2>1. Len(token) \in Nat /\ Len(reset) \in Nat /\ Len(token') \in Nat /\ Len(reset') \in Nat
      BY CommitTables DEF AuthInv, Tables, Pending
    <2>2. Len(reset') >= Len(reset)
      BY ResetsAfter
    <2> QED
      BY <1>6, <2>1, <2>2
  <1>8. Asks(req'[p], token', reset')
    <2> HIDE DEF s, r
    <2>1. /\ \A t \in s["revoke"] : t \in 1..Len(token') /\ token'[t]["user"] = u
          /\ \A x \in s["uses"] : x \in 1..Len(reset') /\ reset'[x]["user"] = u
      BY <1>4, <1>6, <1>7, ResetsAfter, SMTT(30) DEF Asks
    <2> QED
      BY <1>3, <1>4, <2>1 DEF Asks
  <1>9. ASSUME ~req'[p]["stale"], u \notin raced'
        PROVE  Current(req'[p], user'[u], token', reset')
    <2>1. ~s["stale"] /\ u # r["user"] /\ u \notin raced
      BY <1>2, <1>9 DEF Commit
    <2>2. Current(s, user[u], token, reset)
      BY <1>1, <2>1 DEF SpentInv
    <2>3. user'[u] = user[u]
      <3>1. u \in Users
        BY <1>1 DEF AuthInv, RequestsRight, IsRequest
      <3> QED
        BY <2>1, <3>1, WrittenIs DEF Commit
    <2>4. \A t \in 1..Len(token') : token'[t]["user"] = u => t <= s["seen"]
      BY <1>6, <2>1, <2>2 DEF Current
    <2>5. \A t \in s["parent"] : ~token'[t]["revoked"]
      <3>1. \A t \in s["parent"] : t \in 1..Len(token) /\ token[t]["user"] = u
        BY <1>4 DEF Asks
      <3>2. \A t \in s["parent"] : ~token[t]["revoked"]
        BY <2>2 DEF Current
      <3>3. \A t \in s["parent"] : t \notin r["revoke"]
        BY <1>4, <2>1, <3>1 DEF Asks
      <3> QED
        BY <1>6, <2>1, <3>1, <3>2, <3>3
    <2>6. \A x \in s["uses"] : ~reset'[x]["used"]
      <3>1. \A x \in s["uses"] :
               x \in 1..Len(reset) /\ reset[x]["user"] = u /\ ~reset[x]["used"]
        BY <1>4, <2>2 DEF Asks, Current
      <3>2. \A x \in s["uses"] : x \notin r["uses"]
        BY <1>4, <2>1, <3>1 DEF Asks
      <3> QED
        BY <2>1, <3>1, <3>2, ResetsAfter
    <2> HIDE DEF s
    <2> QED
      BY <1>3, <2>2, <2>3, <2>4, <2>5, <2>6 DEF Current
  <1> QED
    BY <1>3, <1>8, <1>9

LEMMA CommitSpent ==
    ASSUME AuthInv, SpentInv, NEW q \in Requests, Commit(q)
    PROVE  SpentInv'
  <1>1. q \in Pending
    BY DEF Commit, Pending
  <1>2. ASSUME NEW u \in Users \ raced'
        PROVE  Account(u, user'[u], token', session', reset', spent')
    <2>1. u \in Users \ raced /\ (u = req[q]["user"] => ~req[q]["stale"])
      BY DEF Commit
    <2>2. CASE u = req[q]["user"]
      BY <1>1, <2>1, <2>2, CommitSpends
    <2>3. CASE u # req[q]["user"]
      BY <1>1, <2>1, <2>3, CommitSpares
    <2> QED
      BY <2>2, <2>3
  <1>3. \A p \in Pending' :
           /\ Asks(req'[p], token', reset')
           /\ ~req'[p]["stale"] /\ req'[p]["user"] \notin raced' =>
                 Current(req'[p], user'[req'[p]["user"]], token', reset')
    BY <1>1, CommitLeaves
  <1> QED
    BY <1>2, <1>3 DEF SpentInv

-----------------------------------------------------------------------------
(* Time, and the invariant. *)

(* Only locks and the expiry of tokens change. *)
LEMMA SpentStays ==
    ASSUME AuthInv, SpentInv,
           \A u \in Users : user'[u]["hash"] = user[u]["hash"] /\ user'[u]["active"] = user[u]["active"],
           Len(token') = Len(token), Len(reset') = Len(reset),
           \A t \in 1..Len(token) : \A f \in {"user", "revoked", "password", "login"} :
               token'[t][f] = token[t][f],
           \A x \in 1..Len(reset) : \A f \in {"user", "used"} : reset'[x][f] = reset[x][f],
           UNCHANGED <<session, req, spent, raced>>
    PROVE  SpentInv'
  <1>1. Pending' = Pending
    BY DEF Pending
  <1>2. \A u \in Users : Good(u, token') = Good(u, token)
    BY DEF Good
  <1>3. \A q \in Pending : Asks(req[q], token', reset')
    BY DEF SpentInv, Asks
  <1>4. ASSUME NEW q \in Pending, ~req[q]["stale"], req[q]["user"] \notin raced
        PROVE  Current(req[q], user'[req[q]["user"]], token', reset')
    <2> DEFINE r == req[q]
    <2>1. /\ r["user"] \in Users /\ Asks(r, token, reset)
          /\ Current(r, user[r["user"]], token, reset)
      BY <1>4 DEF SpentInv, AuthInv, RequestsRight, IsRequest
    <2> HIDE DEF r
    <2>2. \A t \in r["parent"] : t \in 1..Len(token)
      BY <2>1 DEF Asks
    <2>3. \A x \in r["uses"] : x \in 1..Len(reset)
      BY <2>1 DEF Asks
    <2>4. Current(r, user'[r["user"]], token', reset')
      BY <2>1, <2>2, <2>3 DEF Current
    <2> QED
      BY <2>4 DEF r
  <1>5. ASSUME NEW u \in Users \ raced
        PROVE  Account(u, user'[u], token', session, reset', spent)
    <2>1. Account(u, user[u], token, session, reset, spent)
      BY DEF SpentInv
    <2>2. session \subseteq 1..Len(token) /\ \A t \in Good(u, token) : t \in 1..Len(token)
      BY DEF AuthInv, Tables, Issued, Good
    <2> QED
      BY <1>2, <2>1, <2>2 DEF Account
  <1> QED
    BY <1>1, <1>3, <1>4, <1>5 DEF SpentInv

LEMMA TimeSpent ==
    ASSUME AuthInv, SpentInv,
           \/ \E u \in Users : LockExpires(u) \/ AccessExpires(u)
           \/ \E t \in Issued : TokenExpires(t)
           \/ \E x \in Resets : ResetExpires(x)
           \/ UNCHANGED vars
    PROVE  SpentInv'
  <1>1. ASSUME NEW u \in Users, LockExpires(u)
        PROVE  SpentInv'
    <2>1. user \in [Users -> Row] /\ user' = [user EXCEPT ![u].until = "past"]
      BY <1>1 DEF AuthInv, Tables, LockExpires
    <2>2. \A v \in Users : user'[v]["hash"] = user[v]["hash"] /\ user'[v]["active"] = user[v]["active"]
      BY <2>1 DEF Row
    <2> QED
      BY <1>1, <2>2, SpentStays DEF LockExpires
  <1>2. ASSUME NEW t \in Issued, TokenExpires(t)
        PROVE  SpentInv'
    <2> DEFINE new == [token[t] EXCEPT !.expired = TRUE]
    <2>1. token' = [token EXCEPT ![t] = new] /\ token \in Seq(Token) /\ t \in 1..Len(token)
      BY <1>2 DEF TokenExpires, AuthInv, Tables, Issued
    <2>2. \A s \in 1..Len(token) : token[s] \in Token
      BY TokenIs DEF Issued
    <2>3. Len(token') = Len(token)
      BY <2>1
    <2>4. \A f \in {"user", "revoked", "password", "login"} : new[f] = token[t][f]
      BY <2>1, <2>2 DEF Token
    <2> HIDE DEF new
    <2>5. \A s \in 1..Len(token) : token'[s] = IF s = t THEN new ELSE token[s]
      BY <2>1
    <2>6. \A s \in 1..Len(token) : \A f \in {"user", "revoked", "password", "login"} :
             token'[s][f] = token[s][f]
      BY <2>4, <2>5
    <2> QED
      BY <1>2, <2>3, <2>6, SpentStays DEF TokenExpires
  <1>3. ASSUME NEW x \in Resets, ResetExpires(x)
        PROVE  SpentInv'
    <2> DEFINE new == [reset[x] EXCEPT !.expired = TRUE]
    <2>1. reset' = [reset EXCEPT ![x] = new] /\ reset \in Seq(ResetToken) /\ x \in 1..Len(reset)
      BY <1>3 DEF ResetExpires, AuthInv, Tables, Resets
    <2>2. \A y \in 1..Len(reset) : reset[y] \in ResetToken
      BY ResetIs DEF Resets
    <2>3. Len(reset') = Len(reset)
      BY <2>1
    <2>4. \A f \in {"user", "used"} : new[f] = reset[x][f]
      BY <2>1, <2>2 DEF ResetToken
    <2> HIDE DEF new
    <2>5. \A y \in 1..Len(reset) : reset'[y] = IF y = x THEN new ELSE reset[y]
      BY <2>1
    <2>6. \A y \in 1..Len(reset) : \A f \in {"user", "used"} : reset'[y][f] = reset[y][f]
      BY <2>4, <2>5
    <2> QED
      BY <1>3, <2>3, <2>6, SpentStays DEF ResetExpires
  <1>4. ASSUME UNCHANGED <<user, token, session, reset, req, spent, raced>>
        PROVE  SpentInv'
    BY <1>4, SpentStays
  <1> QED
    BY <1>1, <1>2, <1>3, <1>4 DEF AccessExpires, vars

LEMMA SpentInvariant == Spec => []SpentInv
  <1>1. Init => SpentInv
    <2> SUFFICES ASSUME Init
                 PROVE  SpentInv
      OBVIOUS
    <2>1. Pending = {} /\ Len(token) = 0 /\ Len(reset) = 0 /\ session = {}
      BY DEF Init, Pending
    <2> QED
      BY <2>1 DEF SpentInv, Account, Good
  <1>2. AuthInv /\ SpentInv /\ [Next]_vars => SpentInv'
    <2> SUFFICES ASSUME AuthInv, SpentInv, [Next]_vars
                 PROVE  SpentInv'
      OBVIOUS
    <2>1. ASSUME NEW q \in Requests, SignIn(q)
          PROVE  SpentInv'
      BY <2>1, LoginSpent, FailedLoginSpent, ForgotPasswordSpent, ChangePasswordSpent,
         LogoutSpent, RefreshSpent, ResetPasswordSpent DEF SignIn
    <2>2. ASSUME NEW q \in Requests, Manage(q)
          PROVE  SpentInv'
      BY <2>2, EnableSpent, ClosingSpent DEF Manage, Disable, SoftDelete
    <2>3. ASSUME NEW q \in Requests, Administer(q) \/ OwnSessions(q)
          PROVE  SpentInv'
      BY <2>3, LockUserSpent, UnlockUserSpent, RevokeAllSessionsSpent, RevokeSessionSpent
         DEF Administer, OwnSessions
    <2> QED
      BY <2>1, <2>2, <2>3, CommitSpent, TimeSpent DEF Next
  <1> QED
    BY <1>1, <1>2, AuthInvariant, PTL DEF Spec

LEMMA AtMostOne ==
    ASSUME NEW S, \A x, y \in S : x = y
    PROVE  Cardinality(S) <= 1
  <1>1. CASE S = {}
    BY <1>1, FS_EmptySet
  <1>2. CASE S # {}
    <2>1. PICK x : S = {x}
      BY <1>2
    <2> QED
      BY <2>1, FS_Singleton
  <1> QED
    BY <1>1, <1>2

(* Refresh tokens, logins and reset tokens serve once, and a new password  *)
(* or the end of an account ends them, for every account whose requests    *)
(* have not committed over one another: whatever other accounts do, in     *)
(* whatever order requests come and tokens expire.                         *)
THEOREM TokensAlwaysSpent == Spec => []TokensSpent
  <1>1. SpentInv => TokensSpent
    <2> SUFFICES ASSUME SpentInv, NEW u \in Users \ raced
                 PROVE  /\ \A t \in Live(u) : token[t].password = user[u].hash.password
                        /\ \A t, s \in Live(u) : token[t].login = token[s].login => t = s
                        /\ ~user[u].active => Live(u) = {} /\ \A t \in session : token[t].user # u
                        /\ \A x \in Resets : reset[x].user = u => spent[x] <= 1
                        /\ Cardinality({x \in Resets : reset[x].user = u /\ ~reset[x].used}) <= 1
      BY DEF TokensSpent, PasswordCutsTokens, OneTokenPerLogin, ClosedHasNoToken, ResetOnce
    <2>1. Account(u, user[u], token, session, reset, spent)
      BY DEF SpentInv
    <2>2. Live(u) = Good(u, token)
      BY DEF Live, Good, Issued
    <2>3. Cardinality({x \in Resets : reset[x].user = u /\ ~reset[x].used}) <= 1
      <3> DEFINE open == {x \in Resets : reset[x].user = u /\ ~reset[x].used}
      <3>1. \A x, y \in open : x = y
        BY <2>1 DEF Account, Resets
      <3> HIDE DEF open
      <3>2. Cardinality(open) <= 1
        BY <3>1, AtMostOne
      <3> QED
        BY <3>2 DEF open
    <2> QED
      BY <2>1, <2>2, <2>3 DEF Account, Resets
  <1> QED
    BY <1>1, SpentInvariant, PTL

=============================================================================
