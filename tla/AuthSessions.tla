---------------------------- MODULE AuthSessions ----------------------------
(***************************************************************************)
(* Who is signed in: AuthService, UserService and the account part of      *)
(* AdminService over the rows of users, refresh tokens, password-reset     *)
(* tokens and sessions.  A request reads its rows in a session of its own  *)
(* (the action named after it, which notes what will be written) and       *)
(* commits later (Commit); a request that is refused writes nothing but an *)
(* audit row and is not an action.  SQLAlchemy writes the columns that     *)
(* changed since they were loaded and no others.                           *)
(***************************************************************************)
EXTENDS Naturals, Sequences, FiniteSets

CONSTANTS
    Users,
    Requests,     \* requests that may be on their way at once
    MaxFailed,    \* _MAX_FAILED_ATTEMPTS, 5 in the code
    MaxServed,    \* how many requests come in one behaviour
    Idle

ASSUME AuthAssumption ==
    /\ MaxFailed \in Nat \ {0}
    /\ MaxServed \in Nat

VARIABLES
    user,      \* the users' rows
    token,     \* refresh tokens in the order of their issue
    session,   \* logins whose UserSession row is active, by their token
    reset,     \* password-reset tokens in the order of their issue
    access,    \* users who hold an unexpired access token
    req,       \* requests on their way
    served,    \* requests begun
    guesses,   \* wrong passwords tried since the last success or unlocking
    spent,     \* how often each reset token has set a password
    raced      \* users for whom a request committed on top of a commit
               \* that came after it had read

vars == <<user, token, session, reset, access, req, served, guesses, spent, raced>>

Whiles == {"none", "future", "past"}
Hash == [password : Nat, weak : BOOLEAN]
Row == [active : BOOLEAN, deleted : BOOLEAN, locked : BOOLEAN, until : Whiles,
        failed : Nat, hash : Hash]
Columns == {"active", "deleted", "locked", "until", "failed", "hash"}
Token == [user : Users, revoked : BOOLEAN, expired : BOOLEAN,
          password : Nat, login : Nat]
ResetToken == [user : Users, used : BOOLEAN, expired : BOOLEAN]

Issued == 1..Len(token)
Resets == 1..Len(reset)

(* Type invariant, with the references between the tables. *)
TypeOK ==
    /\ user \in [Users -> Row]
    /\ \A t \in Issued : token[t] \in Token /\ token[t].login \in 1..t
    /\ session \subseteq {t \in Issued : token[t].login = t}
    /\ \A r \in Resets : reset[r] \in ResetToken
    /\ access \subseteq Users
    /\ \A q \in Requests : req[q] # Idle => req[q].user \in Users /\ req[q].seen \in 0..Len(token)
    /\ served \in 0..MaxServed
    /\ guesses \in [Users -> Nat]
    /\ spent \in [Resets -> Nat]
    /\ raced \subseteq Users

(* An account as its creation leaves it; its hash may be of an old scheme. *)
Init ==
    /\ user \in [Users -> [active : {TRUE}, deleted : {FALSE}, locked : {FALSE},
                           until : {"none"}, failed : {0},
                           hash : [password : {0}, weak : BOOLEAN]]]
    /\ token = <<>>
    /\ session = {}
    /\ reset = <<>>
    /\ access = {}
    /\ req = [q \in Requests |-> Idle]
    /\ served = 0
    /\ guesses = [u \in Users |-> 0]
    /\ spent = <<>>
    /\ raced = {}

-----------------------------------------------------------------------------
(* What a request will write.                                              *)

(* Slip: every column goes back as it was loaded. *)
ChangesWholeRow(row, want, stamped) == want

(* The columns with a new value; a time stamp always is one.               *)
Changes(row, want, stamped) ==
    [c \in {d \in Columns : want[d] # row[d]} \cup stamped |-> want[c]]

(* A request about u that has read and so far writes nothing.              *)
Reading(u) ==
    [user |-> u, set |-> <<>>, from |-> user[u], seen |-> Len(token), stale |-> FALSE,
     revoke |-> {}, revokeAll |-> FALSE, close |-> {}, closeAll |-> FALSE,
     login |-> FALSE, parent |-> {}, voidResets |-> FALSE, newReset |-> FALSE, uses |-> {},
     wrong |-> FALSE, clears |-> FALSE]

Sends(q, request) ==
    /\ req[q] = Idle
    /\ served < MaxServed
    /\ served' = served + 1
    /\ req' = [req EXCEPT ![q] = request]
    /\ UNCHANGED <<user, token, session, reset, access, guesses, spent, raced>>

(* get_current_user: an access token, and a user that is still active.     *)
Authenticated(u) == u \in access /\ user[u].active /\ ~user[u].deleted

MayLogin(u) ==
    /\ ~user[u].deleted
    /\ user[u].active
    /\ ~(user[u].locked /\ user[u].until = "future")

(* Slip: the counter may pass the limit before the account is locked. *)
AttemptLate(row) ==
    LET n == row.failed + 1 IN
    IF n > MaxFailed
    THEN [row EXCEPT !.failed = n, !.locked = TRUE, !.until = "future"]
    ELSE [row EXCEPT !.failed = n]

Attempt(row) ==
    LET n == row.failed + 1 IN
    IF n >= MaxFailed
    THEN [row EXCEPT !.failed = n, !.locked = TRUE, !.until = "future"]
    ELSE [row EXCEPT !.failed = n]

FailedLogin(q, u) ==
    LET want == Attempt(user[u]) IN
    /\ MayLogin(u)
    /\ Sends(q, [Reading(u) EXCEPT
         !.set = Changes(user[u], want, IF want.failed >= MaxFailed THEN {"until"} ELSE {}),
         !.wrong = TRUE])

Unlocked(row) == [row EXCEPT !.failed = 0, !.locked = FALSE, !.until = "none"]

(* The right password; a hash of an old scheme is computed again.          *)
Login(q, u) ==
    /\ MayLogin(u)
    /\ Sends(q, [Reading(u) EXCEPT
         !.set = Changes(user[u], [Unlocked(user[u]) EXCEPT !.hash.weak = FALSE], {}),
         !.login = TRUE, !.clears = TRUE])

(* Slip: the token that was presented stays good. *)
RotatesKeeping(t) == {}

Rotates(t) == {t}

Refresh(q, t) ==
    LET u == token[t].user IN
    /\ ~token[t].revoked /\ ~token[t].expired
    /\ ~user[u].deleted /\ user[u].active
    /\ Sends(q, [Reading(u) EXCEPT !.revoke = Rotates(t), !.parent = {t}])

(* The refresh cookie may be gone, or revoked already.                     *)
Logout(q, u, t) ==
    /\ Authenticated(u)
    /\ t \in Issued => token[t].user = u
    /\ Sends(q, [Reading(u) EXCEPT !.revoke = {t} \cap Issued, !.closeAll = TRUE])

VoidsEarlier == TRUE

ForgotPassword(q, u) ==
    /\ ~user[u].deleted
    /\ Sends(q, [Reading(u) EXCEPT !.voidResets = VoidsEarlier, !.newReset = TRUE])

NewHash(row) == [row EXCEPT !.hash = [password |-> @.password + 1, weak |-> FALSE]]

ResetPassword(q, r) ==
    LET u == reset[r].user IN
    /\ ~reset[r].used /\ ~reset[r].expired
    /\ ~user[u].deleted
    /\ Sends(q, [Reading(u) EXCEPT
         !.set = Changes(user[u], NewHash(user[u]), {"hash"}),
         !.uses = {r}, !.revokeAll = TRUE, !.closeAll = TRUE])

(* The sessions are left as they are.                                      *)
ChangePassword(q, u) ==
    /\ Authenticated(u)
    /\ Sends(q, [Reading(u) EXCEPT
         !.set = Changes(user[u], NewHash(user[u]), {"hash"}), !.revokeAll = TRUE])

(* By another user, who may manage accounts.                               *)
Disable(q, u) ==
    /\ ~user[u].deleted
    /\ Sends(q, [Reading(u) EXCEPT
         !.set = Changes(user[u], [user[u] EXCEPT !.active = FALSE], {}),
         !.revokeAll = TRUE, !.closeAll = TRUE])

(* enable, which the route /unlock calls as well.                          *)
Enable(q, u) ==
    /\ ~user[u].deleted
    /\ Sends(q, [Reading(u) EXCEPT
         !.set = Changes(user[u], [Unlocked(user[u]) EXCEPT !.active = TRUE], {}),
         !.clears = TRUE])

SoftDelete(q, u) ==
    /\ ~user[u].deleted
    /\ Sends(q, [Reading(u) EXCEPT
         !.set = Changes(user[u], [user[u] EXCEPT !.deleted = TRUE, !.active = FALSE], {"deleted"}),
         !.revokeAll = TRUE, !.closeAll = TRUE])

LockUser(q, u) ==
    Sends(q, [Reading(u) EXCEPT
        !.set = Changes(user[u], [user[u] EXCEPT !.locked = TRUE, !.until = "future"], {"until"})])

UnlockUser(q, u) ==
    Sends(q, [Reading(u) EXCEPT !.set = Changes(user[u], Unlocked(user[u]), {}), !.clears = TRUE])

(* By the user or an administrator; the refresh tokens are not touched.    *)
RevokeSession(q, t) ==
    /\ t \in session
    /\ Sends(q, [Reading(token[t].user) EXCEPT !.close = {t}])

RevokeAllSessions(q, u) == Sends(q, [Reading(u) EXCEPT !.closeAll = TRUE])

-----------------------------------------------------------------------------
(* The commit of a request.                                                *)

Written(r) ==
    [user EXCEPT ![r.user] = [c \in Columns |-> IF c \in DOMAIN r.set THEN r.set[c] ELSE @[c]]]

(* revoke_all_for_user sees the tokens committed when its statement runs,  *)
(* somewhere between the reading and the commit.                           *)
Revoked(r, n) ==
    [t \in Issued |->
        IF t \in r.revoke \/ (r.revokeAll /\ t <= n /\ token[t].user = r.user)
        THEN [token[t] EXCEPT !.revoked = TRUE] ELSE token[t]]

NewToken(r) ==
    [user |-> r.user, revoked |-> FALSE, expired |-> FALSE,
     password |-> r.from.hash.password,
     login |-> IF r.login THEN Len(token) + 1
               ELSE token[CHOOSE t \in r.parent : TRUE].login]

Used(r) ==
    [x \in Resets |->
        IF x \in r.uses \/ (r.voidResets /\ reset[x].user = r.user)
        THEN [reset[x] EXCEPT !.used = TRUE] ELSE reset[x]]

Closed(r) == {t \in session \ r.close : ~(r.closeAll /\ token[t].user = r.user)}

(* Slip: a refresh lists a session of its own. *)
OpensAlways(r) == r.login \/ r.parent # {}

OpensSession(r) == r.login

Commit(q) ==
    LET r == req[q]
        issues == r.login \/ r.parent # {}
    IN
    /\ r # Idle
    /\ user' = Written(r)
    /\ \E n \in r.seen..Len(token) :
         token' = Revoked(r, n) \o (IF issues THEN <<NewToken(r)>> ELSE <<>>)
    /\ session' = Closed(r) \cup (IF OpensSession(r) THEN {Len(token) + 1} ELSE {})
    /\ reset' = Used(r) \o (IF r.newReset
                            THEN <<[user |-> r.user, used |-> FALSE, expired |-> FALSE]>>
                            ELSE <<>>)
    /\ access' = access \cup (IF issues THEN {r.user} ELSE {})
    /\ guesses' = [guesses EXCEPT ![r.user] =
                     IF r.wrong THEN @ + 1 ELSE IF r.clears THEN 0 ELSE @]
    /\ spent' = [x \in Resets |-> IF x \in r.uses THEN spent[x] + 1 ELSE spent[x]]
                  \o (IF r.newReset THEN <<0>> ELSE <<>>)
    /\ raced' = raced \cup (IF r.stale THEN {r.user} ELSE {})
    /\ req' = [p \in Requests |->
                 CASE p = q -> Idle
                   [] p # q /\ req[p] = Idle -> Idle
                   [] OTHER -> [req[p] EXCEPT !.stale = @ \/ req[p].user = r.user]]
    /\ UNCHANGED served

-----------------------------------------------------------------------------
(* Time goes by.                                                           *)

LockExpires(u) ==
    /\ user[u].until = "future"
    /\ user' = [user EXCEPT ![u].until = "past"]
    /\ guesses' = [guesses EXCEPT ![u] = 0]
    /\ UNCHANGED <<token, session, reset, access, req, served, spent, raced>>

AccessExpires(u) ==
    /\ u \in access
    /\ access' = access \ {u}
    /\ UNCHANGED <<user, token, session, reset, req, served, guesses, spent, raced>>

TokenExpires(t) ==
    /\ ~token[t].expired /\ ~token[t].revoked
    /\ token' = [token EXCEPT ![t].expired = TRUE]
    /\ UNCHANGED <<user, session, reset, access, req, served, guesses, spent, raced>>

ResetExpires(r) ==
    /\ ~reset[r].expired /\ ~reset[r].used
    /\ reset' = [reset EXCEPT ![r].expired = TRUE]
    /\ UNCHANGED <<user, token, session, access, req, served, guesses, spent, raced>>

-----------------------------------------------------------------------------

(* The routes of /auth. *)
SignIn(q) ==
    \/ \E u \in Users : Login(q, u) \/ FailedLogin(q, u) \/ ForgotPassword(q, u)
    \/ \E u \in Users : ChangePassword(q, u) \/ \E t \in 0..Len(token) : Logout(q, u, t)
    \/ \E t \in Issued : Refresh(q, t)
    \/ \E r \in Resets : ResetPassword(q, r)

(* The routes of /users. *)
Manage(q) == \E u \in Users : Disable(q, u) \/ Enable(q, u) \/ SoftDelete(q, u)

(* The routes of /admin/users and /admin/sessions. *)
Administer(q) ==
    \/ \E u \in Users : LockUser(q, u) \/ UnlockUser(q, u) \/ RevokeAllSessions(q, u)
    \/ \E t \in Issued : RevokeSession(q, t)

(* The routes of /profile/sessions; all other sessions are all sessions.   *)
OwnSessions(q) ==
    \/ \E u \in Users : Authenticated(u) /\ RevokeAllSessions(q, u)
    \/ \E t \in Issued : Authenticated(token[t].user) /\ RevokeSession(q, t)

Next ==
    \/ \E q \in Requests :
         Commit(q) \/ SignIn(q) \/ Manage(q) \/ Administer(q) \/ OwnSessions(q)
    \/ \E u \in Users : LockExpires(u) \/ AccessExpires(u)
    \/ \E t \in Issued : TokenExpires(t)
    \/ \E r \in Resets : ResetExpires(r)

Spec == Init /\ [][Next]_vars

-----------------------------------------------------------------------------
(* Properties.  Requests on one account that overlap really do break all   *)
(* but the last (two refreshes of one token both succeed, a refresh        *)
(* survives the password change next to it): they are stated for accounts  *)
(* whose requests have not overlapped so far, the last one for all.        *)

Live(u) == {t \in Issued : token[t].user = u /\ ~token[t].revoked}

(* A new password signs everybody out: no refresh token issued under an    *)
(* older password can be used (reset_password, change_password).           *)
PasswordCutsTokens ==
    \A u \in Users \ raced : \A t \in Live(u) :
        token[t].password = user[u].hash.password

(* Rotation: of the tokens that descend from one login, at most the last   *)
(* is good (refresh).                                                      *)
OneTokenPerLogin ==
    \A u \in Users \ raced : \A t, s \in Live(u) :
        token[t].login = token[s].login => t = s

(* A disabled or deleted user has no refresh token, even after the account *)
(* has been enabled again, and no session listed (disable, soft_delete).   *)
ClosedHasNoToken ==
    \A u \in Users \ raced :
        ~user[u].active => Live(u) = {} /\ \A t \in session : token[t].user # u

(* A reset token sets one password, and asking again makes the earlier one *)
(* useless (forgot_password, reset_password).                              *)
ResetOnce ==
    \A u \in Users \ raced :
        /\ \A r \in Resets : reset[r].user = u => spent[r] <= 1
        /\ Cardinality({r \in Resets : reset[r].user = u /\ ~reset[r].used}) <= 1

(* What was given for one use serves once, whatever comes in between:      *)
(* refresh tokens, reset tokens and what they descend from.                *)
TokensSpent ==
    /\ PasswordCutsTokens
    /\ OneTokenPerLogin
    /\ ClosedHasNoToken
    /\ ResetOnce

(* Guessing stops at the limit: between two unlockings no more wrong       *)
(* passwords are tried than the limit, and the row says so (login).        *)
GuessesLimited ==
    \A u \in Users \ raced :
        /\ guesses[u] <= MaxFailed
        /\ user[u].failed >= MaxFailed => user[u].locked
        /\ user[u].locked <=> user[u].until # "none"

(* A login that found the account unlocked does not lift the lock that     *)
(* another request has committed meanwhile: only a request that read the   *)
(* locked row clears it (record_login, unlock, enable).                    *)
LockStands ==
    [][\A u \in Users :
         user[u].locked /\ ~user'[u].locked =>
             \E q \in Requests :
                 req[q] # Idle /\ req'[q] = Idle /\ req[q].user = u /\ req[q].from.locked]_vars
=============================================================================
