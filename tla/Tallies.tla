------------------------------- MODULE Tallies -------------------------------
(***************************************************************************)
(* The figures on the dashboards: DashboardService, the overviews of       *)
(* AdminService and the statistics of alerts and watchlists.  A board      *)
(* counts rows of a table with several statements, one after the other,    *)
(* and other requests commit between them, one row or many at a time: the  *)
(* alerts of a match, an inbox marked as read, the entities of an item, a  *)
(* case removed with what belongs to it.  A board is given by the rows     *)
(* there can be, by what each statement counts (a GROUP BY counts several  *)
(* figures at once) and by what its figures mean for one another.  Lists   *)
(* end after 5 to 20 entries; tables here are shorter.  Ages: 0 today,     *)
(* 1 this week, 2 this month, 3 older.                                     *)
(***************************************************************************)
EXTENDS Integers, Sequences, FiniteSets

CONSTANTS
    TableRows,     \* rows of the table that is counted
    Priorities,    \* priorities of a case, as far as told apart
    MaxChanges,    \* bound: no further commit once so many rows were changed
    Missing

ASSUME TallyAssumption ==
    IsFiniteSet(TableRows) /\ Priorities \subseteq {"low", "medium", "high", "critical"}

(* Figures that together make up a whole, or only belong to it; figures    *)
(* that make up the same whole.                                            *)
Same(some, others) == [whole |-> some, parts |-> others, all |-> TRUE]
AddUp(whole, parts) == Same({whole}, parts)
Belongs(whole, parts) == [whole |-> {whole}, parts |-> parts, all |-> FALSE]

(* Figures each of which lies in the one before.                           *)
Shrink(names) == {Belongs(names[i], {names[i + 1]}) : i \in 1..Len(names) - 1}

Ages == 0..3

-----------------------------------------------------------------------------
(* DashboardService.                                                       *)

(* Slip: cases on hold are forgotten. *)
ActiveButHeld == {"open", "in_progress", "under_review"}

ActiveStatuses == {"open", "in_progress", "under_review", "on_hold"}

ClosedStatuses == {"closed", "archived"}
CaseStatuses == {"draft", "open", "in_progress", "under_review", "on_hold", "closed", "archived"}

(* Cases the user may see.                                                 *)
ExecutiveCases ==
    LET rows == [status : CaseStatuses, priority : Priorities]
        of(S) == {r \in rows : r.status \in S}
        urgent == {r \in of(ActiveStatuses) : r.priority \in {"high", "critical"}}
    IN [rows |-> rows,
        asks |-> <<[total |-> rows], [active |-> of(ActiveStatuses)], [urgent |-> urgent],
                   [over |-> of(ClosedStatuses)], [s \in CaseStatuses |-> of({s})],
                   [p \in Priorities |-> {r \in rows : r.priority = p}]>>,
        means |-> {AddUp("total", {"active", "over", "draft"}), AddUp("total", CaseStatuses),
                   AddUp("total", Priorities), AddUp("active", ActiveStatuses),
                   Belongs("active", {"urgent"})}]

(* Removed evidence is counted.  The last day of the chart is today.       *)
ExecutiveEvidence ==
    LET rows == [age : Ages, queued : BOOLEAN, removed : BOOLEAN]
        of(S) == {r \in rows : r.age \in S}
    IN [rows |-> rows,
        asks |-> <<[total |-> rows], [today |-> of({0})], [queue |-> {r \in rows : r.queued}],
                   [last_day |-> of({0}), days_before |-> of({1, 2})]>>,
        means |-> {AddUp("today", {"last_day"}), Belongs("total", {"queue"}),
                   Belongs("total", {"last_day", "days_before"})}]

ExecutiveReports ==
    LET rows == [status : {"draft", "generating", "ready", "failed", "published"}, removed : BOOLEAN]
        kept(S) == {r \in rows : ~r.removed /\ r.status \in S}
    IN [rows |-> rows,
        asks |-> <<[generated |-> kept({"generating", "ready", "failed", "published"})],
                   [published |-> kept({"published"})]>>,
        means |-> {Belongs("generated", {"published"})}]

(* The ten owners with most active cases.                                  *)
ExecutiveWorkload ==
    LET rows == [status : {"open", "closed"}, owner : {"o1", "o2"}]
        active(S) == {r \in rows : r.status = "open" /\ r.owner \in S}
    IN [rows |-> rows,
        asks |-> <<[active |-> active({"o1", "o2"})], [o \in {"o1", "o2"} |-> active({o})]>>,
        means |-> {AddUp("active", {"o1", "o2"})}]

(* Confidence in tenths, as far as the buckets tell it apart.              *)
Entities == [kind : {"person", "device", "other"}, value : {"v1", "v2"}, confidence : {0, 5, 7, 9, 10}]

Bucket(lo, hi) == {r \in Entities : lo <= r.confidence /\ r.confidence < hi}

(* _top_entities: by value; those of organizations are alike.              *)
TopOf(kind, value) == {r \in Entities : r.kind = kind /\ r.value = value}

(* The last bucket takes in 1.0.                                           *)
IntelligenceEntities ==
    LET kinds == {"person", "device", "other"} IN
    [rows |-> Entities,
     asks |-> <<[k \in kinds |-> {r \in Entities : r.kind = k}],
                [v1 |-> TopOf("person", "v1"), v2 |-> TopOf("person", "v2")],
                [low |-> Bucket(0, 5)], [fair |-> Bucket(5, 7)],
                [good |-> Bucket(7, 9)], [sure |-> Bucket(9, 11)]>>,
     means |-> {AddUp("person", {"v1", "v2"}), Same(kinds, {"low", "fair", "good", "sure"})}]

OperationsEvidence ==
    LET statuses == {"waiting", "completed", "failed"}
        rows == [status : statuses, age : Ages]
    IN [rows |-> rows,
        asks |-> <<[s \in statuses |-> {r \in rows : r.status = s}],
                   [lately |-> {r \in rows : r.status = "failed" /\ r.age = 0}],
                   [files |-> rows]>>,
        means |-> {AddUp("files", statuses), Belongs("failed", {"lately"})}]

(* The list of one's cases, and its length in the metrics.                 *)
InvestigatorCases ==
    LET rows == [status : CaseStatuses, mine : BOOLEAN]
        active == {r \in rows : r.mine /\ r.status \in ActiveStatuses}
    IN [rows |-> rows, asks |-> <<[listed |-> active], [active |-> active]>>,
        means |-> {AddUp("active", {"listed"})}]

(* One's open tasks: counted with one's own cases, and all of them listed. *)
InvestigatorTasks ==
    LET rows == [status : {"pending", "in_progress", "completed", "cancelled"},
                 mine : BOOLEAN, in_my_case : BOOLEAN]
        open == {r \in rows : r.mine /\ r.status \in {"pending", "in_progress"}}
    IN [rows |-> rows,
        asks |-> <<[with_case |-> {r \in open : r.in_my_case}], [listed |-> open]>>,
        means |-> {Belongs("listed", {"with_case"})}]

(* Of few items all are recent, those of the month among them.             *)
InvestigatorEvidence ==
    LET rows == [in_my_case : BOOLEAN, age : Ages]
        mine(n) == {r \in rows : r.in_my_case /\ r.age <= n}
    IN [rows |-> rows, asks |-> <<[recent |-> mine(3)], [month |-> mine(2)]>>,
        means |-> {Belongs("recent", {"month"})}]

-----------------------------------------------------------------------------
(* AdminService.                                                           *)

Accounts == [removed : BOOLEAN, active : BOOLEAN, locked : BOOLEAN]
Kept(Test(_)) == {r \in Accounts : ~r.removed /\ Test(r)}

(* inactive_users is not asked for: the difference of the first two.       *)
OverviewUsers ==
    [rows |-> Accounts,
     asks |-> <<[total |-> Kept(LAMBDA r : TRUE)], [active |-> Kept(LAMBDA r : r.active)],
                [locked |-> Kept(LAMBDA r : r.locked)]>>,
     means |-> {Belongs("total", {"active"}), Belongs("total", {"locked"})}]

SecurityUsers ==
    [rows |-> Accounts,
     asks |-> <<[listed |-> Kept(LAMBDA r : r.locked)], [locked |-> Kept(LAMBDA r : r.locked)],
                [inactive |-> Kept(LAMBDA r : ~r.active)]>>,
     means |-> {AddUp("locked", {"listed"})}]

(* Failed logins of a day, by account and by address.                      *)
SecurityLogins ==
    LET rows == [failed : BOOLEAN, age : 0..1, user : {"u1", "u2", "nobody"}, ip : {"ip1", "unknown"}]
        failed == {r \in rows : r.failed /\ r.age = 0}
    IN [rows |-> rows,
        asks |-> <<[failed |-> failed],
                   [u \in {"u1", "u2"} |-> {r \in failed : r.user = u}],
                   [ip1 |-> {r \in failed : r.ip = "ip1"}]>>,
        means |-> {Belongs("failed", {"u1", "u2"}), Belongs("failed", {"ip1"})}]

AuditFigures ==
    LET types == {"login", "logout"}
        rows == [type : types, age : Ages]
    IN [rows |-> rows,
        asks |-> <<[total |-> rows], [today |-> {r \in rows : r.age = 0}],
                   [week |-> {r \in rows : r.age <= 1}], [t \in types |-> {r \in rows : r.type = t}]>>,
        means |-> Shrink(<<"total", "week", "today">>) \cup {AddUp("total", types)}]

(* Replies; the stock reply has no model.                                  *)
AiUsage ==
    LET rows == [role : {"user", "assistant"}, model : {"m1", "none"}, age : Ages]
        replies(n) == {r \in rows : r.role = "assistant" /\ r.age <= n}
    IN [rows |-> rows,
        asks |-> <<[total |-> replies(3)], [today |-> replies(0)], [week |-> replies(1)],
                   [month |-> replies(2)], [m1 |-> {r \in replies(3) : r.model = "m1"}]>>,
        means |-> Shrink(<<"total", "month", "week", "today">>) \cup {Belongs("total", {"m1"})}]

(* Bytes, each row being one; removed evidence is left out.                *)
StorageFigures ==
    LET mimes == {"pdf", "image"}
        rows == [mime : mimes, age : Ages, removed : BOOLEAN]
        kept(n) == {r \in rows : ~r.removed /\ r.age <= n}
    IN [rows |-> rows,
        asks |-> <<[total |-> kept(3)], [week |-> kept(1)], [month |-> kept(2)],
                   [m \in mimes |-> {r \in kept(3) : r.mime = m}], [largest |-> kept(3)]>>,
        means |-> Shrink(<<"total", "month", "week">>) \cup
                  {AddUp("total", mimes), AddUp("total", {"largest"})}]

-----------------------------------------------------------------------------
(* Alerts, watchlists and notifications.                                   *)

AlertFigures ==
    LET statuses == {"new", "acknowledged", "resolved", "dismissed"}
        rows == [status : statuses, severity : {"critical", "high", "low"}, age : 0..2]
        only(status) == [n \in {status} |-> {r \in rows : r.status = n}]
    IN [rows |-> rows,
        asks |-> <<[total |-> rows], only("new"), only("acknowledged"), only("resolved"),
                   only("dismissed"), [critical |-> {r \in rows : r.severity = "critical"}],
                   [high |-> {r \in rows : r.severity = "high"}],
                   [today |-> {r \in rows : r.age = 0}], [week |-> {r \in rows : r.age <= 1}]>>,
        means |-> {AddUp("total", statuses), Belongs("total", {"critical", "high"})} \cup
                  Shrink(<<"total", "week", "today">>)]

WatchlistFigures ==
    LET lists == [of : {"watchlist"}, active : BOOLEAN]
        alerts == [of : {"alert"}, list : {"w1", "none"}, age : 0..2]
        since(n) == {r \in alerts : r.age <= n}
    IN [rows |-> lists \cup alerts,
        asks |-> <<[lists |-> lists], [active |-> {r \in lists : r.active}], [alerts |-> alerts],
                   [today |-> since(0)], [week |-> since(1)], [w1 |-> {r \in alerts : r.list = "w1"}]>>,
        means |-> {Belongs("lists", {"active"}), Belongs("alerts", {"w1"})} \cup
                  Shrink(<<"alerts", "week", "today">>)]

(* The badge, the list and its total.                                      *)
InboxFigures ==
    LET rows == [read : BOOLEAN, archived : BOOLEAN]
        shown == {r \in rows : ~r.archived}
    IN [rows |-> rows,
        asks |-> <<[total |-> shown], [unread |-> {r \in shown : ~r.read}], [items |-> shown]>>,
        means |-> {Belongs("total", {"unread"}), AddUp("total", {"items"})}]

Boards ==
    [executive_cases |-> ExecutiveCases, executive_evidence |-> ExecutiveEvidence,
     executive_reports |-> ExecutiveReports, intelligence_entities |-> IntelligenceEntities,
     operations_evidence |-> OperationsEvidence, investigator_cases |-> InvestigatorCases,
     investigator_tasks |-> InvestigatorTasks, investigator_evidence |-> InvestigatorEvidence,
     executive_workload |-> ExecutiveWorkload, overview_users |-> OverviewUsers,
     security_users |-> SecurityUsers, security_logins |-> SecurityLogins,
     audit_figures |-> AuditFigures, ai_usage |-> AiUsage,
     storage_figures |-> StorageFigures, alert_figures |-> AlertFigures,
     watchlist_figures |-> WatchlistFigures, inbox_figures |-> InboxFigures]

-----------------------------------------------------------------------------
VARIABLES board, table, figures, step, changes

tallyVars == <<board, table, figures, step, changes>>

TallyInit ==
    /\ board \in DOMAIN Boards
    /\ table \in [TableRows -> Boards[board].rows \cup {Missing}]
    /\ figures = <<>> /\ step = 1 /\ changes = 0

Present == {r \in TableRows : table[r] # Missing}

(* scalar_one: the next statement of the board.                            *)
AskNext ==
    /\ step <= Len(Boards[board].asks)
    /\ LET ask == Boards[board].asks[step] IN
         figures' = [n \in DOMAIN ask \cup DOMAIN figures |->
                        IF n \in DOMAIN ask THEN Cardinality({r \in Present : table[r] \in ask[n]})
                                            ELSE figures[n]]
    /\ step' = step + 1
    /\ UNCHANGED <<board, table, changes>>

(* A row gets older and, once removed, stays removed.                      *)
MayBecome(a, b) ==
    /\ DOMAIN a = DOMAIN b
    /\ "age" \in DOMAIN a => a.age <= b.age
    /\ "removed" \in DOMAIN a => (a.removed => b.removed)

(* Another request commits rows that are new, changed or deleted.          *)
CommitRows(new) ==
    /\ step \in 2..Len(Boards[board].asks) /\ changes < MaxChanges
    /\ LET rows == {r \in TableRows : new[r] # table[r]} IN
       /\ rows # {}
       /\ \A r \in rows : table[r] # Missing /\ new[r] # Missing => MayBecome(table[r], new[r])
       /\ changes' = changes + Cardinality(rows)
    /\ table' = new
    /\ UNCHANGED <<board, figures, step>>

TallyNext ==
    \/ AskNext
    \/ \E new \in [TableRows -> Boards[board].rows \cup {Missing}] : CommitRows(new)

TallySpec == TallyInit /\ [][TallyNext]_tallyVars

-----------------------------------------------------------------------------
(* A stroke for each row a figure counted, figure by figure.               *)
Strokes(names) == UNION {{n} \X (1..figures[n]) : n \in names}

(* The figures of a board agree: parts that make up a whole add up to it   *)
(* and no part exceeds it.  When rows change while the board is read, they *)
(* are off by at most as many as were changed, however many of them one    *)
(* request commits (the statements run one by one under READ COMMITTED).   *)
AnswersAddUp ==
    step > Len(Boards[board].asks) =>
        \A m \in Boards[board].means :
            LET sum(names) == Cardinality(Strokes(names)) IN
            /\ sum(m.parts) <= sum(m.whole) + changes
            /\ m.all => sum(m.whole) <= sum(m.parts) + changes
=============================================================================
