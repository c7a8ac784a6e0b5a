----------------------------- MODULE AlertInbox -----------------------------
(***************************************************************************)
(* What becomes of the alerts of a case: AlertService and                  *)
(* NotificationService.  The match task raises an alert and notifies the   *)
(* members of its case in one transaction; users then give verdicts on the *)
(* alert and clear their inboxes, each request on rows it loaded when it   *)
(* began.                                                                  *)
(***************************************************************************)
EXTENDS CaseRecords

CONSTANTS Alerts, Calls  \* calls: match tasks and requests on their way

Verdicts == {"acknowledged", "resolved", "dismissed"}
Alert == [case : Cases, status : {"new"} \cup Verdicts,
          acknowledged_by : Users \cup {NoRow}, resolved_by : Users \cup {NoRow}]

(* A notification counts the requests begun before it was committed; one   *)
(* that is read, those begun up to the request that read it.               *)
Notification == [born : 0..MaxServed, read : 0..MaxServed, archived : BOOLEAN]

ASSUME AlertAssumption ==
    /\ NoRow \notin Alerts /\ NoRow \notin Alert /\ NoRow \notin Notification

VARIABLES
    alert,     \* rows of watchlist_alerts
    inbox,     \* rows of alert_notifications, by user and alert
    call

inboxVars == <<alert, inbox, call>>
caseVars == <<case, team, task, note, log, year, req, byHand, straddled, overlaid>>

(* Type invariant: an alert has a filed case, a notification has an alert. *)
DeskTypeOK ==
    /\ TypeOK
    /\ alert \in [Alerts -> Alert \cup {NoRow}]
    /\ inbox \in [Users -> [Alerts -> Notification \cup {NoRow}]]
    /\ \A a \in Alerts : alert[a] # NoRow => Exists(alert[a].case)
    /\ \A u \in Users, a \in Alerts : inbox[u][a] # NoRow => alert[a] # NoRow

InboxInit ==
    /\ alert = [a \in Alerts |-> NoRow]
    /\ inbox = [u \in Users |-> [a \in Alerts |-> NoRow]]
    /\ call = [k \in Calls |-> Idle]

Raised(a) == alert[a] # NoRow

Calling(k, what) ==
    /\ call[k] = Idle
    /\ served < MaxServed
    /\ served' = served + 1
    /\ call' = [call EXCEPT ![k] = what]
    /\ UNCHANGED <<alert, inbox>>

-----------------------------------------------------------------------------
(* The match task.                                                         *)

(* _get_case_members: owner and team; a removed case keeps them.           *)
CaseMembers(c) == team[c] \cup {case[c].owner}

Raise(k, a, c) ==
    /\ ~Raised(a) /\ \A j \in Calls : call[j] # Idle => call[j].alert # a
    /\ Exists(c)
    /\ Calling(k, [kind |-> "raise", alert |-> a, case |-> c, told |-> CaseMembers(c)])

FanOut(k) ==
    LET r == call[k] IN
    /\ alert' = [alert EXCEPT ![r.alert] =
         [case |-> r.case, status |-> "new", acknowledged_by |-> NoRow, resolved_by |-> NoRow]]
    /\ inbox' = [u \in Users |-> IF u \in r.told
         THEN [inbox[u] EXCEPT ![r.alert] = [born |-> served, read |-> 0, archived |-> FALSE]]
         ELSE inbox[u]]

-----------------------------------------------------------------------------
(* Verdicts.                                                               *)

(* _accessible_case_ids: removed cases included, supervisors not.          *)
Accessible(u) == {c \in Filed : ~case[c].private \/ case[c].owner = u \/ u \in team[c]}

(* acknowledge, resolve, dismiss: whatever the status was.                 *)
Stamped(row, u, verdict) ==
    CASE verdict = "acknowledged" -> [row EXCEPT !.status = verdict, !.acknowledged_by = u]
      [] verdict = "resolved" -> [row EXCEPT !.status = verdict, !.resolved_by = u]
      [] verdict = "dismissed" -> [row EXCEPT !.status = verdict]

(* A user id that is the loaded one is not written, a time always is.      *)
GiveVerdict(k, u, a, verdict) ==
    /\ Raised(a) /\ alert[a].case \in Accessible(u)
    /\ Calling(k, [kind |-> "verdict", alert |-> a, user |-> u, verdict |-> verdict,
         set |-> Changes(alert[a], Stamped(alert[a], u, verdict), DOMAIN alert[a], {})])

-----------------------------------------------------------------------------
(* The inbox of a user.                                                    *)

Own(u) == {a \in Alerts : inbox[u][a] # NoRow}
Unread(u) == {a \in Own(u) : inbox[u][a].read = 0}

Marking(k, u, rows) ==
    Calling(k, [kind |-> "mark", alert |-> NoRow, user |-> u, rows |-> rows, began |-> served + 1])

MarkRead(k, u, a) == a \in Own(u) /\ Marking(k, u, {a} \cap Unread(u))

(* Archived notifications are marked too.                                  *)
MarkAllRead(k, u) == Marking(k, u, Unread(u))

ArchiveNotification(k, u, a) ==
    /\ a \in Own(u)
    /\ Calling(k, [kind |-> "archive", alert |-> NoRow, user |-> u,
                   rows |-> {b \in {a} : ~inbox[u][b].archived}])

DeleteNotification(k, u, a) ==
    /\ a \in Own(u)
    /\ Calling(k, [kind |-> "delete", alert |-> NoRow, user |-> u, rows |-> {a}])

(* Slip: one statement marks whatever is unread by then. *)
MarkedLate(r) == Unread(r.user)

(* The rows that were loaded.                                              *)
Marked(r) == r.rows

NewRow(r, a, row) ==
    CASE r.kind = "mark" /\ a \in Marked(r) -> [row EXCEPT !.read = r.began]
      [] r.kind = "archive" /\ a \in r.rows -> [row EXCEPT !.archived = TRUE]
      [] r.kind = "delete" /\ a \in r.rows -> NoRow
      [] OTHER -> row

Applied(r) ==
    inbox' = [inbox EXCEPT ![r.user] =
                [a \in Alerts |-> IF @[a] # NoRow THEN NewRow(r, a, @[a]) ELSE NoRow]]

(* A loaded row that has been deleted meanwhile: the UPDATE misses it and  *)
(* the request fails, unless the driver cannot tell in a batch.            *)
Misses(r) == r.kind \in {"mark", "archive"} /\ ~(r.rows \subseteq Own(r.user))
MayOverlook(r) == Misses(r) => Cardinality(r.rows) > 1

Replies(k) ==
    LET r == call[k] IN
    /\ r # Idle
    /\ \/ /\ r.kind = "raise"
          /\ FanOut(k)
       \/ /\ r.kind = "verdict"
          /\ alert' = [alert EXCEPT ![r.alert] = Over(@, r.set)]
          /\ UNCHANGED inbox
       \/ /\ r.kind \in {"mark", "archive", "delete"}
          /\ MayOverlook(r)
          /\ Applied(r)
          /\ UNCHANGED alert
    /\ call' = [call EXCEPT ![k] = Idle]
    /\ UNCHANGED served

Misfires(k) ==
    /\ call[k] # Idle
    /\ Misses(call[k])
    /\ call' = [call EXCEPT ![k] = Idle]
    /\ UNCHANGED <<alert, inbox, served>>

-----------------------------------------------------------------------------

(* The routes of /alerts. *)
AlertRoutes(k, u) == \E a \in Alerts, verdict \in Verdicts : GiveVerdict(k, u, a, verdict)

(* The routes of /notifications. *)
InboxRoutes(k, u) ==
    \/ MarkAllRead(k, u)
    \/ \E a \in Alerts :
         MarkRead(k, u, a) \/ ArchiveNotification(k, u, a) \/ DeleteNotification(k, u, a)

InboxNext ==
    \/ \E k \in Calls : Replies(k) \/ Misfires(k)
    \/ \E k \in Calls, a \in Alerts, c \in Cases : Raise(k, a, c)
    \/ \E k \in Calls, u \in Users : AlertRoutes(k, u) \/ InboxRoutes(k, u)

DeskInit == Init /\ InboxInit

DeskNext ==
    \/ Next /\ UNCHANGED inboxVars
    \/ InboxNext /\ UNCHANGED caseVars

DeskSpec == DeskInit /\ [][DeskNext]_<<vars, inboxVars>>

-----------------------------------------------------------------------------
(* Properties.                                                             *)

(* Nobody has read what came after they asked: a notification that is read *)
(* was there when the request that read it began, however long that        *)
(* request took and whatever was raised meanwhile (mark_all_read).         *)
ReadKnowingly ==
    \A u \in Users : \A a \in Own(u) :
        inbox[u][a].read # 0 => inbox[u][a].read > inbox[u][a].born

(* u's request to give this verdict on a is answered.                      *)
Answers(a, verdict, u) ==
    \E k \in Calls :
        /\ call[k] # Idle /\ call'[k] = Idle
        /\ call[k].kind = "verdict" /\ call[k].verdict = verdict
        /\ call[k].alert = a /\ call[k].user = u

(* The name under an acknowledgement or a resolution is put there by that  *)
(* user's own request of that kind.  A later one replaces the name; but of *)
(* verdicts that overlap, none brings back the name, or the blank, it had  *)
(* loaded (_transition).                                                   *)
StampsStay ==
    [][\A a \in Alerts : Raised(a) =>
         /\ \/ alert'[a].acknowledged_by = alert[a].acknowledged_by
            \/ Answers(a, "acknowledged", alert'[a].acknowledged_by)
         /\ \/ alert'[a].resolved_by = alert[a].resolved_by
            \/ Answers(a, "resolved", alert'[a].resolved_by)]_alert
=============================================================================
