--------------------------- MODULE CaseDeskProofs ---------------------------
(* Cases, tasks, notes, alerts and inboxes, for any number of rows, users  *)
(* and requests that overlap.                                              *)
EXTENDS AlertInbox, FiniteSetTheorems, TLAPS

(***************************************************************************)
(* The inductive invariant: what the tables promise, and what a request    *)
(* still to commit may rely on although others commit before it.           *)
(***************************************************************************)

Pending == {req[q] : q \in Requests} \ {Idle}

RequestFields == {"kind", "about", "set", "log", "row", "loaded", "wanted", "year", "stale"}

CaseSet(set) ==
    /\ DOMAIN set \subseteq CaseColumns
    /\ "status" \in DOMAIN set => set["status"] \in Statuses
    /\ \A d \in DOMAIN set \ {"status"} : set[d] \in BOOLEAN

TaskSet(set) ==
    /\ DOMAIN set \subseteq {"status", "completed"}
    /\ "status" \in DOMAIN set => set["status"] \in TaskStatuses
    /\ "completed" \in DOMAIN set => set["completed"] = TRUE

Inserting(r) ==
    /\ r.about \in Cases => r.row \in Case /\ ~Exists(r.about)
    /\ r.about \in Tasks => r.row \in Task /\ task[r.about] = NoRow /\ Exists(r.row.case)
    /\ r.about \in Notes => r.row \in Note /\ note[r.about] = NoRow /\ Exists(r.row.case)

Updating(r) ==
    /\ r.about \in Cases => Exists(r.about) /\ CaseSet(r.set)
    /\ r.about \in Tasks => TaskSet(r.set)
    /\ r.about \in Notes => DOMAIN r.set = {"author"} /\ r.set["author"] \in Users

(* A request writes rows and columns of the right type. *)
RequestRight(r) ==
    /\ DOMAIN r = RequestFields
    /\ r.kind \in {"began", "insert", "update", "assign", "delete"}
    /\ r.year \in Years /\ r.stale \in BOOLEAN
    /\ r.log \in {<<>>} \cup {<<what>> : what \in Words}
    /\ IF r.kind = "began" THEN r.about = NoRow ELSE r.about \in Cases \cup Tasks \cup Notes
    /\ r.kind = "insert" => Inserting(r)
    /\ r.kind = "update" => Updating(r)
    /\ r.kind = "assign" => r.about \in Cases /\ Exists(r.about) /\ r.wanted \in SUBSET Users
    /\ r.kind = "delete" => r.about \notin Cases

(* Nobody else knows of a row before it is inserted. *)
InsertsAlone ==
    \A p, q \in Requests : p # q /\ req[p] # Idle /\ req[q] # Idle /\ req[q].kind = "insert"
        => req[p].about # req[q].about

CaseTables ==
    /\ TypeOK
    /\ log \in Seq(Activity)
    /\ DOMAIN req = Requests
    /\ \A r \in Pending : RequestRight(r)
    /\ InsertsAlone

(* Cases created in a year; unless a creation straddled, no number of that *)
(* year is beyond their count, and a number still to be inserted is at     *)
(* most the next one.                                                      *)
Count(y) == Cardinality({c \in Filed : case[c].created = y})

NumberWithin(row, bound) == row.number[1] = row.created /\ row.number[2] <= bound

NumbersRight ==
    ~straddled => \A y \in Years :
        /\ \A c \in Filed : case[c].created = y => NumberWithin(case[c], Count(y))
        /\ \A r \in Pending :
              r.kind = "insert" /\ r.about \in Cases /\ r.row.created = y
                => NumberWithin(r.row, Count(y) + 1)

(* Both archive columns move together, unless a status is set by hand. *)
FlagsMove(r) ==
    /\ r.kind = "insert" /\ r.about \in Cases => ~r.row.archived
    /\ r.kind = "update" /\ r.about \in Cases \ byHand =>
        /\ "archived" \in DOMAIN r.set =>
              /\ "status" \in DOMAIN r.set
              /\ r.set["archived"] <=> r.set["status"] = "archived"
        /\ "status" \in DOMAIN r.set /\ "archived" \notin DOMAIN r.set => r.log = <<"updated">>

FlagsRight == ArchiveAgrees /\ \A r \in Pending : FlagsMove(r)

Completions(t) == {i \in 1..Len(log) : log[i] = [about |-> t, what |-> "completed"]}

(* The first completion of a task is to be logged by whoever still reads   *)
(* the task as it is, and by nobody once it is logged.                     *)
CompletionMoves(r) ==
    /\ r.about \in Tasks /\ r.kind = "insert" =>
        /\ r.row.status # "completed" /\ Completions(r.about) = {} /\ r.log = <<"created">>
    /\ r.about \in Tasks /\ r.kind = "delete" => r.log = <<>>
    /\ r.about \in Tasks /\ r.kind = "update" =>
        /\ "status" \in DOMAIN r.set /\ r.set["status"] = "completed" =>
              "completed" \in DOMAIN r.set \/ task[r.about] = NoRow \/ task[r.about].completed
        /\ r.log = <<>> \/ (r.log = <<"completed">> /\ "completed" \in DOMAIN r.set)
        /\ r.log # <<>> /\ ~r.stale /\ r.about \notin overlaid => Completions(r.about) = {}

CompletionsRight ==
    /\ CompletedOnce
    /\ \A t \in Tasks \ overlaid : task[t] # NoRow /\ ~task[t].completed => Completions(t) = {}
    /\ \A r \in Pending : CompletionMoves(r)

CaseInv == CaseTables /\ NumbersRight /\ FlagsRight /\ CompletionsRight

(* Calls of the match task, of /alerts and of /notifications. *)
Ringing == {call[k] : k \in Calls} \ {Idle}

(* A verdict enters no name but its user's, under what the user said.      *)
OwnName(r) ==
    /\ "acknowledged_by" \in DOMAIN r.set =>
          r.verdict = "acknowledged" /\ r.set["acknowledged_by"] = r.user
    /\ "resolved_by" \in DOMAIN r.set =>
          r.verdict = "resolved" /\ r.set["resolved_by"] = r.user

VerdictSet(set) ==
    /\ DOMAIN set \subseteq {"case", "status", "acknowledged_by", "resolved_by"}
    /\ "case" \notin DOMAIN set
    /\ "status" \in DOMAIN set => set["status"] \in Verdicts
    /\ "acknowledged_by" \in DOMAIN set => set["acknowledged_by"] \in Users
    /\ "resolved_by" \in DOMAIN set => set["resolved_by"] \in Users

CallRight(r) ==
    /\ r.kind \in {"raise", "verdict", "mark", "archive", "delete"}
    /\ r.kind = "raise" =>
        /\ r.alert \in Alerts /\ ~Raised(r.alert)
        /\ r.case \in Cases /\ Exists(r.case) /\ r.told \subseteq Users
    /\ r.kind = "verdict" => r.alert \in Alerts /\ Raised(r.alert) /\ VerdictSet(r.set) /\ OwnName(r)
    /\ r.kind \in {"mark", "archive", "delete"} =>
        r.user \in Users /\ r.rows \subseteq {a \in Alerts : Raised(a)}
    /\ r.kind = "mark" =>
        /\ r.began \in 1..MaxServed
        /\ \A a \in r.rows \cap Own(r.user) : inbox[r.user][a].born < r.began

RaisesAlone ==
    \A j, k \in Calls : j # k /\ call[j] # Idle /\ call[k] # Idle
                        /\ call[j].kind = "raise" /\ call[k].kind = "raise"
        => call[j].alert # call[k].alert

InboxInv ==
    /\ DeskTypeOK
    /\ DOMAIN call = Calls
    /\ \A u \in Users : \A a \in Own(u) : inbox[u][a].born <= served
    /\ \A r \in Ringing : CallRight(r)
    /\ RaisesAlone
    /\ ReadKnowingly

DeskInv == CaseInv /\ InboxInv

-----------------------------------------------------------------------------
(* What a request is when it begins. *)

Joins(r) ==
    /\ RequestRight(r) /\ FlagsMove(r) /\ CompletionMoves(r)
    /\ r.kind = "insert" => \A p \in Requests : req[p] # Idle => req[p].about # r.about
    /\ r.kind \in {"update", "delete"} =>
        /\ r.about \in Tasks => task[r.about] # NoRow
        /\ r.about \in Notes => note[r.about] # NoRow

Begun(r) == Joins(r) /\ (r.kind = "insert" => r.about \notin Cases)

LEMMA ReadingIs ==
    ASSUME TypeOK, NEW about
    PROVE  LET r == Reading(about) IN
           /\ DOMAIN r = RequestFields /\ r.kind = "update" /\ r.about = about
           /\ r.log = <<>> /\ r.year \in Years /\ r.stale = FALSE
  BY DEF Reading, RequestFields, TypeOK

LEMMA CaseIs ==
    ASSUME TypeOK, NEW c \in Cases, Exists(c)
    PROVE  /\ case[c] \in Case
           /\ c \in Filed
           /\ DOMAIN case[c] = CaseColumns \cup {"number", "created", "owner"}
  <1>1. case[c] \in Case
    BY DEF TypeOK, Exists
  <1> QED
    BY <1>1 DEF Filed, Case, CaseColumns

(* The columns an update of a case writes. *)
LEMMA CaseUpdateBegun ==
    ASSUME CaseInv, NEW c \in Cases, Exists(c), NEW want \in Case,
           NEW stamped \in SUBSET CaseColumns,
           NEW what \in {<<>>} \cup {<<w>> : w \in Words},
           FlagsMove(Updates(c, want, stamped, what))
    PROVE  Begun(Updates(c, want, stamped, what))
  <1> DEFINE set == Changes(case[c], want, CaseColumns, stamped)
             r == Updates(c, want, stamped, what)
  <1>1. DOMAIN set = {d \in CaseColumns : want[d] # case[c][d]} \cup stamped
    BY DEF Changes
  <1>2. \A d \in DOMAIN set : set[d] = want[d]
    BY DEF Changes
  <1>3. /\ want["status"] \in Statuses /\ want["archived"] \in BOOLEAN
        /\ want["closed"] \in BOOLEAN /\ want["deleted"] \in BOOLEAN
        /\ want["private"] \in BOOLEAN /\ want["starred"] \in BOOLEAN
    BY DEF Case
  <1> HIDE DEF set
  <1>4. CaseSet(set)
    BY <1>1, <1>2, <1>3 DEF CaseSet, CaseColumns
  <1>5. TypeOK
    BY DEF CaseInv, CaseTables
  <1>6. /\ DOMAIN r = RequestFields /\ r.kind = "update" /\ r.about = c /\ r.set = set
        /\ r.log = what /\ r.year \in Years /\ r.stale = FALSE
    BY <1>5, ReadingIs DEF Updates, set, RequestFields
  <1>7. c \notin Tasks /\ c \notin Notes
    BY RowAssumption
  <1> HIDE DEF r
  <1>8. RequestRight(r)
    BY <1>4, <1>6, <1>7 DEF RequestRight, Updating
  <1>9. CompletionMoves(r)
    BY <1>6, <1>7 DEF CompletionMoves
  <1> QED
    BY <1>6, <1>7, <1>8, <1>9 DEF Begun, Joins, r

(* Which columns move, and how. *)
Moves(r, c, want, stamped) ==
    /\ r.kind = "update" /\ r.about = c
    /\ \A d \in CaseColumns : d \in DOMAIN r.set <=> want[d] # case[c][d] \/ d \in stamped
    /\ \A d \in DOMAIN r.set : r.set[d] = want[d]

LEMMA ColumnsMove ==
    ASSUME CaseInv, NEW c \in Cases, Exists(c), NEW want, NEW stamped \in SUBSET CaseColumns, NEW what
    PROVE  /\ Moves(Updates(c, want, stamped, what), c, want, stamped)
           /\ Updates(c, want, stamped, what).log = what
  <1> DEFINE r == Updates(c, want, stamped, what)
  <1>1. r.kind = "update" /\ r.about = c /\ r.log = what
        /\ r.set = Changes(case[c], want, CaseColumns, stamped)
    BY ReadingIs DEF CaseInv, CaseTables, Updates, RequestFields
  <1> HIDE DEF r
  <1>2. /\ \A d \in CaseColumns : d \in DOMAIN r.set <=> want[d] # case[c][d] \/ d \in stamped
        /\ \A d \in DOMAIN r.set : r.set[d] = want[d]
    BY <1>1 DEF Changes
  <1> QED
    BY <1>1, <1>2 DEF r, Moves

LEMMA CaseTypes ==
    ASSUME CaseInv
    PROVE  TypeOK /\ DOMAIN req = Requests /\ log \in Seq(Activity)
  BY DEF CaseInv, CaseTables

LEMMA MayWriteIs ==
    ASSUME CaseInv, NEW c \in Cases, NEW u, MayWrite(u, c)
    PROVE  /\ Exists(c) /\ case[c] \in Case /\ c \in Filed
  BY CaseIs, CaseTypes DEF MayWrite, Active

LEMMA UpdateStatusBegins ==
    ASSUME CaseInv, NEW q \in Requests, NEW u \in Users, NEW c \in Cases, NEW status \in Statuses,
           UpdateStatus(q, u, c, status)
    PROVE  \E r : Sends(q, r) /\ Begun(r)
  <1> DEFINE want == [case[c] EXCEPT !.status = status, !.closed = Closes(case[c], status)]
             stamped == IF status = "closed" /\ ~case[c].closed THEN {"closed"} ELSE {}
             r == Updates(c, want, stamped, <<"updated">>)
  <1>1. Exists(c) /\ case[c] \in Case /\ Sends(q, r)
    BY MayWriteIs DEF UpdateStatus
  <1>2. want \in Case /\ want["archived"] = case[c]["archived"]
    BY <1>1 DEF Case, Closes
  <1>3. stamped \in SUBSET CaseColumns /\ "archived" \notin stamped
    BY DEF CaseColumns
  <1> HIDE DEF want, stamped
  <1>4. FlagsMove(r)
    <2>1. "archived" \in CaseColumns
      BY DEF CaseColumns
    <2>2. Moves(r, c, want, stamped) /\ r.log = <<"updated">>
      BY <1>1, <1>3, ColumnsMove
    <2> HIDE DEF r
    <2> QED
      BY <1>1, <1>2, <1>3, <2>1, <2>2 DEF FlagsMove, Moves
  <1>5. Begun(r)
    BY <1>1, <1>2, <1>3, <1>4, CaseUpdateBegun DEF Words
  <1> QED
    BY <1>1, <1>5

LEMMA UpdateFlagsBegins ==
    ASSUME CaseInv, NEW q \in Requests, NEW u \in Users, NEW c \in Cases,
           NEW private \in BOOLEAN, NEW starred \in BOOLEAN,
           UpdateFlags(q, u, c, private, starred)
    PROVE  \E r : Sends(q, r) /\ Begun(r)
  <1> DEFINE want == [case[c] EXCEPT !.private = private, !.starred = starred]
             stamped == {}
             r == Updates(c, want, stamped, <<>>)
  <1>1. Exists(c) /\ case[c] \in Case /\ Sends(q, r)
    BY MayWriteIs DEF UpdateFlags
  <1>2. want \in Case /\ want["archived"] = case[c]["archived"] /\ want["status"] = case[c]["status"]
    BY <1>1 DEF Case
  <1>3. stamped \in SUBSET CaseColumns
    OBVIOUS
  <1>4. \A d : d \notin stamped
    OBVIOUS
  <1> HIDE DEF want, stamped
  <1>5. FlagsMove(r)
    <2>1. "archived" \in CaseColumns /\ "status" \in CaseColumns
      BY DEF CaseColumns
    <2>2. Moves(r, c, want, stamped) /\ r.log = <<>>
      BY <1>1, <1>3, ColumnsMove
    <2> HIDE DEF r
    <2> QED
      BY <1>1, <1>2, <1>4, <2>1, <2>2 DEF FlagsMove, Moves
  <1>6. Begun(r)
    BY <1>1, <1>2, <1>3, <1>5, CaseUpdateBegun
  <1> QED
    BY <1>1, <1>6

LEMMA ArchiveBegins ==
    ASSUME CaseInv, NEW q \in Requests, NEW u \in Users, NEW c \in Cases, Archive(q, u, c)
    PROVE  \E r : Sends(q, r) /\ Begun(r)
  <1> DEFINE want == [case[c] EXCEPT !.archived = TRUE, !.status = "archived"]
             stamped == {"archived"}
             r == Updates(c, want, stamped, <<"archived">>)
  <1>1. Exists(c) /\ case[c] \in Case /\ c \in Filed /\ ~case[c].archived /\ Sends(q, r)
    BY MayWriteIs DEF Archive
  <1>2. want \in Case /\ want["archived"] = TRUE /\ want["status"] = "archived"
    BY <1>1, CaseAssumption DEF Case
  <1>3. stamped \in SUBSET CaseColumns
    BY DEF CaseColumns
  <1>4. \A d : d \in stamped <=> d = "archived"
    OBVIOUS
  <1> HIDE DEF want, stamped
  <1>5. FlagsMove(r)
    <2>1. "archived" \in CaseColumns /\ "status" \in CaseColumns
      BY DEF CaseColumns
    <2>2. c \notin byHand => case[c].status # "archived"
      BY <1>1 DEF CaseInv, FlagsRight, ArchiveAgrees
    <2>3. Moves(r, c, want, stamped) /\ r.log = <<"archived">>
      BY <1>1, <1>3, ColumnsMove
    <2> HIDE DEF r
    <2> QED
      BY <1>1, <1>2, <1>4, <2>1, <2>2, <2>3 DEF FlagsMove, Moves
  <1>6. Begun(r)
    BY <1>1, <1>2, <1>3, <1>5, CaseUpdateBegun DEF Words
  <1> QED
    BY <1>1, <1>6

LEMMA RestoreBegins ==
    ASSUME CaseInv, NEW q \in Requests, NEW u \in Users, NEW c \in Cases, Restore(q, u, c)
    PROVE  \E r : Sends(q, r) /\ Begun(r)
  <1> DEFINE want == Restored(case[c])
             stamped == {}
             r == Updates(c, want, stamped, <<"restored">>)
  <1>1. Exists(c) /\ case[c] \in Case /\ c \in Filed /\ case[c].archived /\ Sends(q, r)
    BY MayWriteIs DEF Restore
  <1>2. want \in Case /\ want["archived"] = FALSE /\ want["status"] = "open"
    BY <1>1, CaseAssumption DEF Case, Restored
  <1>3. stamped \in SUBSET CaseColumns
    OBVIOUS
  <1>4. \A d : d \notin stamped
    OBVIOUS
  <1> HIDE DEF want, stamped
  <1>5. FlagsMove(r)
    <2>1. "archived" \in CaseColumns /\ "status" \in CaseColumns
      BY DEF CaseColumns
    <2>2. c \notin byHand => case[c].status = "archived"
      BY <1>1 DEF CaseInv, FlagsRight, ArchiveAgrees
    <2>3. Moves(r, c, want, stamped) /\ r.log = <<"restored">>
      BY <1>1, <1>3, ColumnsMove
    <2> HIDE DEF r
    <2> QED
      BY <1>1, <1>2, <2>1, <2>2, <1>4, <2>3 DEF FlagsMove, Moves
  <1>6. Begun(r)
    BY <1>1, <1>2, <1>3, <1>5, CaseUpdateBegun DEF Words
  <1> QED
    BY <1>1, <1>6

LEMMA SoftDeleteBegins ==
    ASSUME CaseInv, NEW q \in Requests, NEW u \in Users, NEW c \in Cases, SoftDelete(q, u, c)
    PROVE  \E r : Sends(q, r) /\ Begun(r)
  <1> DEFINE want == [case[c] EXCEPT !.deleted = TRUE]
             stamped == {"deleted"}
             r == Updates(c, want, stamped, <<>>)
  <1>1. Exists(c) /\ case[c] \in Case /\ Sends(q, r)
    BY MayWriteIs DEF SoftDelete
  <1>2. want \in Case /\ want["archived"] = case[c]["archived"] /\ want["status"] = case[c]["status"]
    BY <1>1 DEF Case
  <1>3. stamped \in SUBSET CaseColumns
    BY DEF CaseColumns
  <1>4. \A d : d \in stamped <=> d = "deleted"
    OBVIOUS
  <1> HIDE DEF want, stamped
  <1>5. FlagsMove(r)
    <2>1. "archived" \in CaseColumns /\ "status" \in CaseColumns
      BY DEF CaseColumns
    <2>2. Moves(r, c, want, stamped) /\ r.log = <<>>
      BY <1>1, <1>3, ColumnsMove
    <2> HIDE DEF r
    <2> QED
      BY <1>1, <1>2, <1>4, <2>1, <2>2 DEF FlagsMove, Moves
  <1>6. Begun(r)
    BY <1>1, <1>2, <1>3, <1>5, CaseUpdateBegun
  <1> QED
    BY <1>1, <1>6

LEMMA AssignUsersBegins ==
    ASSUME CaseInv, NEW q \in Requests, NEW u \in Users, NEW c \in Cases,
           NEW entries \in SUBSET Users, AssignUsers(q, u, c, entries)
    PROVE  \E r : Sends(q, r) /\ Begun(r)
  <1> DEFINE r == [Reading(c) EXCEPT
                     !.kind = "assign", !.loaded = team[c], !.wanted = entries, !.log = <<"assigned">>]
  <1>1. Exists(c) /\ Sends(q, r)
    BY MayWriteIs DEF AssignUsers
  <1>2. /\ DOMAIN r = RequestFields /\ r.kind = "assign" /\ r.about = c /\ r.wanted = entries
        /\ r.log = <<"assigned">> /\ r.year \in Years /\ r.stale = FALSE
    BY ReadingIs, CaseTypes DEF RequestFields
  <1>3. c \notin Tasks /\ c \notin Notes
    BY RowAssumption
  <1> HIDE DEF r
  <1>4. Begun(r)
    BY <1>1, <1>2, <1>3 DEF Begun, Joins, RequestRight, FlagsMove, CompletionMoves, Words
  <1> QED
    BY <1>1, <1>4

LEMMA CreateTaskBegins ==
    ASSUME CaseInv, NEW q \in Requests, NEW u \in Users, NEW c \in Cases, NEW t \in Tasks,
           CreateTask(q, u, c, t)
    PROVE  \E r : Sends(q, r) /\ Begun(r)
  <1> DEFINE row == [case |-> c, status |-> "pending", completed |-> FALSE]
             r == [Reading(t) EXCEPT !.kind = "insert", !.log = <<"created">>, !.row = row]
  <1>1. Exists(c) /\ Sends(q, r) /\ task[t] = NoRow /\ Fresh(t)
    BY MayWriteIs DEF CreateTask
  <1>2. row \in Task /\ row.case = c /\ row.status # "completed"
    BY DEF Task, TaskStatuses
  <1>3. /\ DOMAIN r = RequestFields /\ r.kind = "insert" /\ r.about = t /\ r.row = row
        /\ r.log = <<"created">> /\ r.year \in Years /\ r.stale = FALSE
    BY ReadingIs, CaseTypes DEF RequestFields
  <1>4. t \notin Cases /\ t \notin Notes
    BY RowAssumption
  <1>5. Completions(t) = {}
    BY <1>1 DEF Fresh, Completions
  <1> HIDE DEF row, r
  <1>6. RequestRight(r)
    BY <1>1, <1>2, <1>3, <1>4 DEF RequestRight, Inserting, Words
  <1>7. Begun(r)
    BY <1>1, <1>2, <1>3, <1>4, <1>5, <1>6 DEF Begun, Joins, FlagsMove, CompletionMoves, Fresh
  <1> QED
    BY <1>1, <1>7

LEMMA UpdateTaskBegins ==
    ASSUME CaseInv, NEW q \in Requests, NEW u \in Users, NEW t \in Tasks,
           NEW status \in TaskStatuses, UpdateTask(q, u, t, status)
    PROVE  \E r : Sends(q, r) /\ Begun(r)
  <1> DEFINE row == task[t]
             first == FirstCompletion(row, status)
             want == [row EXCEPT !.status = status, !.completed = @ \/ first]
             stamped == IF first THEN {"completed"} ELSE {}
             what == IF first THEN <<"completed">> ELSE <<>>
             set == Changes(row, want, {"status", "completed"}, stamped)
             r == [Reading(t) EXCEPT !.set = set, !.log = what]
  <1>1. row # NoRow /\ row \in Task
    BY CaseTypes DEF UpdateTask, TypeOK
  <1>2. Sends(q, r)
    BY DEF UpdateTask
  <1>3. /\ want["status"] = status
        /\ want["completed"] = (row.completed \/ first)
        /\ row.completed \in BOOLEAN /\ row["completed"] = row.completed
    BY <1>1 DEF Task
  <1>4. first \in BOOLEAN /\ (first <=> status = "completed" /\ ~row.completed)
    BY DEF FirstCompletion
  <1> HIDE DEF first, want
  <1>5. /\ DOMAIN set \subseteq {"status", "completed"}
        /\ first => "completed" \in DOMAIN set
        /\ "completed" \in DOMAIN set => first \/ want["completed"] # row["completed"]
        /\ \A d \in DOMAIN set : set[d] = want[d]
    BY DEF Changes
  <1>6. /\ DOMAIN r = RequestFields /\ r.kind = "update" /\ r.about = t /\ r.set = set
        /\ r.log = what /\ r.year \in Years /\ r.stale = FALSE
    BY ReadingIs, CaseTypes DEF RequestFields
  <1>7. t \notin Cases /\ t \notin Notes
    BY RowAssumption
  <1> HIDE DEF row, set, r
  <1>8. TaskSet(set)
    BY <1>3, <1>4, <1>5 DEF TaskSet
  <1>9. RequestRight(r)
    BY <1>6, <1>7, <1>8 DEF RequestRight, Updating, Words
  <1>10. first /\ t \notin overlaid => Completions(t) = {}
    BY <1>1, <1>4 DEF CaseInv, CompletionsRight, row
  <1>11. CompletionMoves(r)
    <2>1. "status" \in DOMAIN set /\ set["status"] = "completed"
             => "completed" \in DOMAIN set \/ task[t].completed
      BY <1>3, <1>4, <1>5 DEF row
    <2>2. what = <<>> \/ (first /\ what = <<"completed">>)
      OBVIOUS
    <2>3. what # <<>> => first
      OBVIOUS
    <2> HIDE DEF what
    <2> QED
      BY <1>5, <1>6, <1>10, <2>1, <2>2, <2>3 DEF CompletionMoves
  <1>12. Begun(r)
    BY <1>1, <1>6, <1>7, <1>9, <1>11 DEF Begun, Joins, FlagsMove, row
  <1> QED
    BY <1>2, <1>12

LEMMA DeleteTaskBegins ==
    ASSUME CaseInv, NEW q \in Requests, NEW u \in Users, NEW t \in Tasks, DeleteTask(q, u, t)
    PROVE  \E r : Sends(q, r) /\ Begun(r)
  <1> DEFINE r == [Reading(t) EXCEPT !.kind = "delete"]
  <1>1. task[t] # NoRow /\ Sends(q, r)
    BY DEF DeleteTask
  <1>2. /\ DOMAIN r = RequestFields /\ r.kind = "delete" /\ r.about = t
        /\ r.log = <<>> /\ r.year \in Years /\ r.stale = FALSE
    BY ReadingIs, CaseTypes, ZenonT(30) DEF RequestFields
  <1>3. t \notin Cases /\ t \notin Notes
    BY RowAssumption
  <1> HIDE DEF r
  <1>4. Begun(r)
    BY <1>1, <1>2, <1>3 DEF Begun, Joins, RequestRight, FlagsMove, CompletionMoves
  <1> QED
    BY <1>1, <1>4

LEMMA CreateNoteBegins ==
    ASSUME CaseInv, NEW q \in Requests, NEW u \in Users, NEW c \in Cases, NEW n \in Notes,
           CreateNote(q, u, c, n)
    PROVE  \E r : Sends(q, r) /\ Begun(r)
  <1> DEFINE row == [case |-> c, author |-> u]
             r == [Reading(n) EXCEPT !.kind = "insert", !.log = <<"created">>, !.row = row]
  <1>1. Exists(c) /\ Sends(q, r) /\ note[n] = NoRow /\ Fresh(n)
    BY MayWriteIs DEF CreateNote
  <1>2. row \in Note /\ row.case = c
    BY DEF Note
  <1>3. /\ DOMAIN r = RequestFields /\ r.kind = "insert" /\ r.about = n /\ r.row = row
        /\ r.log = <<"created">> /\ r.year \in Years /\ r.stale = FALSE
    BY ReadingIs, CaseTypes DEF RequestFields
  <1>4. n \notin Cases /\ n \notin Tasks
    BY RowAssumption
  <1> HIDE DEF row, r
  <1>5. Begun(r)
    BY <1>1, <1>2, <1>3, <1>4
       DEF Begun, Joins, RequestRight, Inserting, FlagsMove, CompletionMoves, Fresh, Words
  <1> QED
    BY <1>1, <1>5

LEMMA UpdateNoteBegins ==
    ASSUME CaseInv, NEW q \in Requests, NEW u \in Users, NEW n \in Notes, UpdateNote(q, u, n)
    PROVE  \E r : Sends(q, r) /\ Begun(r)
  <1> DEFINE set == [author |-> note[n].author]
             r == [Reading(n) EXCEPT !.set = set]
  <1>1. note[n] # NoRow /\ Sends(q, r)
    BY DEF UpdateNote
  <1>2. DOMAIN set = {"author"} /\ set["author"] \in Users
    BY <1>1, CaseTypes DEF TypeOK, Note
  <1>3. /\ DOMAIN r = RequestFields /\ r.kind = "update" /\ r.about = n /\ r.set = set
        /\ r.log = <<>> /\ r.year \in Years /\ r.stale = FALSE
    BY ReadingIs, CaseTypes DEF RequestFields
  <1>4. n \notin Cases /\ n \notin Tasks
    BY RowAssumption
  <1> HIDE DEF set, r
  <1>5. Begun(r)
    BY <1>1, <1>2, <1>3, <1>4 DEF Begun, Joins, RequestRight, Updating, FlagsMove, CompletionMoves
  <1> QED
    BY <1>1, <1>5

LEMMA DeleteNoteBegins ==
    ASSUME CaseInv, NEW q \in Requests, NEW u \in Users, NEW n \in Notes, DeleteNote(q, u, n)
    PROVE  \E r : Sends(q, r) /\ Begun(r)
  <1> DEFINE r == [Reading(n) EXCEPT !.kind = "delete", !.log = <<"deleted">>]
  <1>1. note[n] # NoRow /\ Sends(q, r)
    BY DEF DeleteNote
  <1>2. /\ DOMAIN r = RequestFields /\ r.kind = "delete" /\ r.about = n
        /\ r.log = <<"deleted">> /\ r.year \in Years /\ r.stale = FALSE
    BY ReadingIs, CaseTypes DEF RequestFields
  <1>3. n \notin Cases /\ n \notin Tasks
    BY RowAssumption
  <1> HIDE DEF r
  <1>4. Begun(r)
    BY <1>1, <1>2, <1>3 DEF Begun, Joins, RequestRight, FlagsMove, CompletionMoves, Words
  <1> QED
    BY <1>1, <1>4

LEMMA BeginCreateBegins ==
    ASSUME CaseInv, NEW q \in Requests, BeginCreate(q)
    PROVE  \E r : Sends(q, r) /\ Begun(r)
  <1> DEFINE r == [Reading(NoRow) EXCEPT !.kind = "began"]
  <1>1. Sends(q, r)
    BY DEF BeginCreate
  <1>2. /\ DOMAIN r = RequestFields /\ r.kind = "began" /\ r.about = NoRow
        /\ r.log = <<>> /\ r.year \in Years /\ r.stale = FALSE
    BY ReadingIs, CaseTypes DEF RequestFields
  <1> HIDE DEF r
  <1>3. Begun(r)
    BY <1>2, RowAssumption DEF Begun, Joins, RequestRight, FlagsMove, CompletionMoves
  <1> QED
    BY <1>1, <1>3

(* Every route but Create, which has begun before. *)
LEMMA RoutesBegin ==
    ASSUME CaseInv, NEW q \in Requests, NEW u \in Users, CaseRoutes(q, u) \/ WorkRoutes(q, u)
    PROVE  \/ \E r : Sends(q, r) /\ Begun(r)
           \/ \E c \in Cases, status \in Statuses, private \in BOOLEAN :
                 Create(q, u, c, status, private)
  <1>1. CASE CaseRoutes(q, u)
    <2>1. ASSUME NEW c \in Filed,
                 \/ UpdateFlags(q, u, c, ~case[c].private, case[c].starred)
                 \/ UpdateFlags(q, u, c, case[c].private, ~case[c].starred)
          PROVE  \E r : Sends(q, r) /\ Begun(r)
      <3>1. c \in Cases /\ case[c].private \in BOOLEAN /\ case[c].starred \in BOOLEAN
        BY CaseTypes, CaseIs DEF Filed, Case
      <3>2. (~case[c].private) \in BOOLEAN /\ (~case[c].starred) \in BOOLEAN
        OBVIOUS
      <3> QED
        BY <2>1, <3>1, <3>2, UpdateFlagsBegins
    <2> QED
      BY <1>1, <2>1, UpdateStatusBegins, ArchiveBegins, RestoreBegins, SoftDeleteBegins,
         AssignUsersBegins DEF CaseRoutes
  <1>2. CASE WorkRoutes(q, u)
    BY <1>2, CreateTaskBegins, UpdateTaskBegins, DeleteTaskBegins, CreateNoteBegins,
       UpdateNoteBegins, DeleteNoteBegins DEF WorkRoutes
  <1> QED
    BY <1>1, <1>2

-----------------------------------------------------------------------------
(* A request that has begun finds the others as they were. *)

Enters(q, r) ==
    /\ req' = [req EXCEPT ![q] = r]
    /\ UNCHANGED <<case, team, task, note, log, year, byHand, overlaid>>
    /\ served' \in 0..MaxServed

LEMMA CreateJoins ==
    ASSUME CaseInv, NEW q \in Requests, NEW u \in Users, NEW c \in Cases, NEW status \in Statuses,
           NEW private \in BOOLEAN, Create(q, u, c, status, private)
    PROVE  \E r : /\ Enters(q, r) /\ Joins(r) /\ r.row.number = NextNumber
                  /\ r.row.created \in Years
                  /\ straddled' = (straddled \/ r.row.created # year)
  <1> DEFINE row == NewCase(u, status, private, NextNumber, req[q].year)
             r == [req[q] EXCEPT !.kind = "insert", !.about = c, !.log = <<"created">>, !.row = row]
  <1>1. /\ req[q] # Idle /\ req[q].kind = "began" /\ ~Exists(c)
        /\ \A p \in Requests : req[p] # Idle => req[p].about # c
        /\ req' = [req EXCEPT ![q] = r]
        /\ UNCHANGED <<case, team, task, note, log, year, served, byHand, overlaid>>
        /\ straddled' = (straddled \/ req[q].year # year)
    BY DEF Create
  <1>2. RequestRight(req[q])
    BY <1>1 DEF CaseInv, CaseTables, Pending
  <1>3. /\ DOMAIN r = RequestFields /\ r.kind = "insert" /\ r.about = c /\ r.row = row
        /\ r.log = <<"created">> /\ r.year \in Years /\ r.stale \in BOOLEAN
        /\ req[q].year \in Years
    BY <1>2 DEF RequestRight, RequestFields
  <1>4. NextNumber \in Years \X (Nat \ {0})
    <2>1. IsFiniteSet(Filed)
      BY CaseAssumption, FS_Subset DEF Filed
    <2>2. Cardinality({d \in Filed : case[d].created = year}) \in Nat
      BY <2>1, FS_Subset, FS_CardinalityType
    <2> HIDE DEF Filed
    <2> QED
      BY <2>2, CaseTypes DEF NextNumber, TypeOK
  <1>5. row \in Case /\ row.number = NextNumber /\ row.created = req[q].year /\ row.archived = FALSE
    BY <1>3, <1>4 DEF NewCase, Case
  <1>6. c \notin Tasks /\ c \notin Notes
    BY RowAssumption
  <1>7. served' \in 0..MaxServed
    BY <1>1, CaseTypes DEF TypeOK
  <1> HIDE DEF row, r
  <1>8. RequestRight(r)
    BY <1>1, <1>3, <1>5, <1>6 DEF RequestRight, Inserting, Words
  <1>9. Joins(r)
    BY <1>1, <1>3, <1>5, <1>6, <1>8 DEF Joins, FlagsMove, CompletionMoves
  <1> QED
    BY <1>1, <1>3, <1>5, <1>7, <1>9 DEF Enters

LEMMA SendsEnters ==
    ASSUME CaseInv, NEW q \in Requests, NEW r, Sends(q, r)
    PROVE  Enters(q, r) /\ UNCHANGED straddled
  <1>1. served' \in 0..MaxServed
    BY CaseTypes, CaseAssumption DEF Sends, TypeOK
  <1> QED
    BY <1>1 DEF Sends, Enters

LEMMA EnterTables ==
    ASSUME CaseInv, NEW q \in Requests, NEW r, Joins(r), Enters(q, r)
    PROVE  /\ CaseTables' /\ FlagsRight' /\ CompletionsRight'
           /\ \A x \in Pending' : x \in Pending \/ x = r
  <1>1. CaseTables
    BY DEF CaseInv
  <1>2. /\ DOMAIN req' = Requests /\ req'[q] = r
        /\ \A p \in Requests \ {q} : req'[p] = req[p]
    BY CaseTypes DEF Enters
  <1>3. UNCHANGED <<case, team, task, note, log, year, byHand, overlaid>>
    BY DEF Enters
  <1>4. \A x \in Pending' : x \in Pending \/ x = r
    BY <1>2 DEF Pending
  <1>5. TypeOK'
    BY <1>3, CaseTypes DEF TypeOK, Exists, Filed, Enters
  <1>6. \A x : RequestRight(x) => RequestRight(x)'
    BY <1>3 DEF RequestRight, Inserting, Updating, Exists
  <1>7. \A x : (FlagsMove(x) => FlagsMove(x)') /\ (CompletionMoves(x) => CompletionMoves(x)')
    BY <1>3 DEF FlagsMove, CompletionMoves, Completions
  <1>8. \A x \in Pending' : RequestRight(x)' /\ FlagsMove(x)' /\ CompletionMoves(x)'
    <2>1. \A x \in Pending : RequestRight(x) /\ FlagsMove(x) /\ CompletionMoves(x)
      BY DEF CaseInv, CaseTables, FlagsRight, CompletionsRight
    <2> QED
      BY <1>4, <1>6, <1>7, <2>1 DEF Joins
  <1>9. InsertsAlone'
    <2>1. ASSUME NEW p \in Requests \ {q}, req[p] # Idle, req[p].kind = "insert"
          PROVE  req[p].about # r.about
      <3>1. RequestRight(req[p]) /\ RequestRight(r)
        BY <1>1, <2>1 DEF CaseTables, Pending, Joins
      <3>2. /\ req[p].about \in Cases \cup Tasks \cup Notes
            /\ req[p].about \in Cases => ~Exists(req[p].about)
            /\ req[p].about \in Tasks => task[req[p].about] = NoRow
            /\ req[p].about \in Notes => note[req[p].about] = NoRow
        BY <2>1, <3>1 DEF RequestRight, Inserting
      <3>3. CASE r.kind = "began"
        BY <3>1, <3>2, <3>3, RowAssumption DEF RequestRight
      <3>4. CASE r.kind = "insert"
        BY <2>1, <3>4 DEF Joins
      <3>5. CASE r.kind = "assign"
        BY <3>1, <3>2, <3>5 DEF RequestRight
      <3>6. CASE r.kind \in {"update", "delete"}
        <4>1. /\ r.about \in Cases => Exists(r.about)
              /\ r.about \in Tasks => task[r.about] # NoRow
              /\ r.about \in Notes => note[r.about] # NoRow
          BY <3>1, <3>6 DEF RequestRight, Updating, Joins
        <4> QED
          BY <3>2, <4>1
      <3> QED
        BY <3>1, <3>3, <3>4, <3>5, <3>6 DEF RequestRight
    <2>2. ASSUME NEW p \in Requests \ {q}, req[p] # Idle, r.kind = "insert"
          PROVE  req[p].about # r.about
      BY <2>2 DEF Joins
    <2> QED
      BY <1>1, <1>2, <2>1, <2>2 DEF CaseTables, InsertsAlone
  <1>10. CaseTables'
    BY <1>1, <1>2, <1>3, <1>5, <1>8, <1>9 DEF CaseTables
  <1>11. FlagsRight'
    BY <1>3, <1>8 DEF CaseInv, FlagsRight, ArchiveAgrees, Filed, Exists
  <1>12. CompletionsRight'
    BY <1>3, <1>8 DEF CaseInv, CompletionsRight, CompletedOnce, Completions
  <1> QED
    BY <1>4, <1>10, <1>11, <1>12

LEMMA EnterNumbers ==
    ASSUME CaseInv, NEW q \in Requests, NEW r, Joins(r), Enters(q, r),
           straddled => straddled',
           \A y : ~straddled' /\ r.kind = "insert" /\ r.about \in Cases /\ r.row.created = y
               => NumberWithin(r.row, Count(y) + 1)
    PROVE  NumbersRight'
  <1>1. UNCHANGED case
    BY DEF Enters
  <1>2. Filed' = Filed /\ \A y : Count(y)' = Count(y)
    BY <1>1 DEF Filed, Exists, Count
  <1>3. \A x \in Pending' : x \in Pending \/ x = r
    BY EnterTables
  <1> QED
    BY <1>1, <1>2, <1>3 DEF CaseInv, NumbersRight

-----------------------------------------------------------------------------
(* A commit. *)

LEMMA StoredIs ==
    ASSUME NEW table, NEW r, r.kind \in {"insert", "update", "assign", "delete"}
    PROVE  /\ DOMAIN Stored(table, r) = DOMAIN table
           /\ \A x \in DOMAIN table : Stored(table, r)[x] =
                IF x # r.about \/ r.kind = "assign" THEN table[x]
                ELSE IF r.kind = "insert" THEN r.row
                ELSE IF r.kind = "delete" THEN NoRow
                ELSE Over(table[x], r.set)
  <1>1. CASE r.about \notin DOMAIN table
    BY <1>1 DEF Stored
  <1>2. CASE r.about \in DOMAIN table /\ r.kind = "insert"
    BY <1>2 DEF Stored
  <1>3. CASE r.about \in DOMAIN table /\ r.kind = "delete"
    BY <1>3 DEF Stored
  <1>4. CASE r.about \in DOMAIN table /\ r.kind = "update"
    BY <1>4 DEF Stored
  <1>5. CASE r.about \in DOMAIN table /\ r.kind = "assign"
    BY <1>5 DEF Stored
  <1> QED
    BY <1>1, <1>2, <1>3, <1>4, <1>5

LEMMA CaseOver ==
    ASSUME NEW row \in Case, NEW set, CaseSet(set)
    PROVE  LET new == Over(row, set) IN
           /\ new \in Case /\ new.number = row.number /\ new.created = row.created
           /\ \A d \in CaseColumns : new[d] = IF d \in DOMAIN set THEN set[d] ELSE row[d]
  <1> DEFINE new == Over(row, set)
             Fields == {"number", "created", "status", "archived", "closed", "deleted",
                        "private", "starred", "owner"}
  <1>1. DOMAIN row = Fields /\ DOMAIN new = Fields
    BY DEF Case, Over
  <1>2. \A d \in Fields : new[d] = IF d \in DOMAIN set THEN set[d] ELSE row[d]
    BY <1>1 DEF Over
  <1>3. new = [d \in Fields |-> new[d]]
    BY <1>1 DEF Over
  <1>4. DOMAIN set \subseteq CaseColumns
    BY DEF CaseSet
  <1> HIDE DEF new
  <1>5. /\ new.number = row.number /\ new.created = row.created /\ new.owner = row.owner
        /\ \A d \in CaseColumns : new[d] = IF d \in DOMAIN set THEN set[d] ELSE row[d]
    BY <1>2, <1>4 DEF CaseColumns
  <1>6. /\ new.status \in Statuses /\ new.archived \in BOOLEAN /\ new.closed \in BOOLEAN
        /\ new.deleted \in BOOLEAN /\ new.private \in BOOLEAN /\ new.starred \in BOOLEAN
    BY <1>5 DEF Case, CaseSet, CaseColumns
  <1>7. new \in Case
    BY <1>3, <1>5, <1>6 DEF Case
  <1> QED
    BY <1>5, <1>7 DEF new

LEMMA TaskOver ==
    ASSUME NEW row \in Task, NEW set, TaskSet(set)
    PROVE  LET new == Over(row, set) IN
           /\ new \in Task /\ new.case = row.case
           /\ new.status = IF "status" \in DOMAIN set THEN set["status"] ELSE row.status
           /\ new.completed = IF "completed" \in DOMAIN set THEN TRUE ELSE row.completed
  <1> DEFINE new == Over(row, set)
             Fields == {"case", "status", "completed"}
  <1>1. DOMAIN row = Fields /\ DOMAIN new = Fields
    BY DEF Task, Over
  <1>2. \A d \in Fields : new[d] = IF d \in DOMAIN set THEN set[d] ELSE row[d]
    BY <1>1 DEF Over
  <1>3. new = [d \in Fields |-> new[d]]
    BY <1>1 DEF Over
  <1> HIDE DEF new
  <1>4. /\ new.case = row.case
        /\ new.status = IF "status" \in DOMAIN set THEN set["status"] ELSE row.status
        /\ new.completed = IF "completed" \in DOMAIN set THEN TRUE ELSE row.completed
    BY <1>2 DEF TaskSet
  <1>5. new \in Task
    BY <1>3, <1>4 DEF Task, TaskSet
  <1> QED
    BY <1>4, <1>5 DEF new

LEMMA NoteOver ==
    ASSUME NEW row \in Note, NEW set, DOMAIN set = {"author"}, set["author"] \in Users
    PROVE  Over(row, set) \in Note /\ Over(row, set).case = row.case
  <1> DEFINE new == Over(row, set)
             Fields == {"case", "author"}
  <1>1. DOMAIN row = Fields /\ DOMAIN new = Fields
    BY DEF Note, Over
  <1>2. \A d \in Fields : new[d] = IF d \in DOMAIN set THEN set[d] ELSE row[d]
    BY <1>1 DEF Over
  <1>3. new = [d \in Fields |-> new[d]]
    BY <1>1 DEF Over
  <1> HIDE DEF new
  <1>4. new.case = row.case /\ new.author \in Users
    BY <1>2
  <1>5. new \in Note
    BY <1>3, <1>4 DEF Note
  <1> QED
    BY <1>4, <1>5 DEF new

(* What a commit does to each row. *)
Committed(r) ==
    /\ DOMAIN case' = Cases /\ DOMAIN task' = Tasks /\ DOMAIN note' = Notes
    /\ \A c \in Cases : case'[c] =
         IF c = r.about /\ r.kind = "insert" THEN r.row
         ELSE IF c = r.about /\ r.kind = "update" THEN Over(case[c], r.set)
         ELSE case[c]
    /\ \A t \in Tasks : task'[t] =
         IF t # r.about THEN task[t]
         ELSE IF r.kind = "insert" THEN r.row
         ELSE IF r.kind = "delete" THEN NoRow
         ELSE Over(task[t], r.set)
    /\ \A n \in Notes : note'[n] =
         IF n # r.about THEN note[n]
         ELSE IF r.kind = "insert" THEN r.row
         ELSE IF r.kind = "delete" THEN NoRow
         ELSE Over(note[n], r.set)
    /\ r.kind = "update" /\ r.about \in Tasks => task[r.about] # NoRow
    /\ r.kind = "update" /\ r.about \in Notes => note[r.about] # NoRow
    /\ r.kind = "insert" /\ r.about \in Cases => \A c \in Filed : case[c].number # r.row.number

LEMMA CommitIs ==
    ASSUME CaseInv, NEW q \in Requests, Commit(q)
    PROVE  /\ req[q] \in Pending /\ req[q].kind # "began" /\ RequestRight(req[q])
           /\ Committed(req[q])
  <1> DEFINE r == req[q]
  <1>1. r \in Pending /\ r.kind # "began" /\ RequestRight(r)
    BY DEF Commit, Pending, CaseInv, CaseTables
  <1>2. r.kind \in {"insert", "update", "assign", "delete"} /\ (r.kind = "assign" => r.about \in Cases)
        /\ (r.kind = "delete" => r.about \notin Cases)
    BY <1>1 DEF RequestRight
  <1>3. DOMAIN case = Cases /\ DOMAIN task = Tasks /\ DOMAIN note = Notes
    BY CaseTypes DEF TypeOK
  <1>4. case' = Stored(case, r) /\ task' = Stored(task, r) /\ note' = Stored(note, r)
    BY DEF Commit
  <1>5. ~Refused(r)
    BY DEF Commit
  <1> HIDE DEF r
  <1>6. Committed(r)
    BY <1>2, <1>3, <1>4, <1>5, StoredIs, RowAssumption DEF Committed, Refused
  <1> QED
    BY <1>1, <1>6 DEF r

LEMMA CasesAfter ==
    ASSUME TypeOK, NEW r, RequestRight(r), r.kind # "began", Committed(r)
    PROVE  \A c \in Cases :
             /\ case'[c] \in Case \cup {NoRow}
             /\ Exists(c) => /\ case'[c] \in Case /\ Exists(c)'
                             /\ case'[c].number = case[c].number
                             /\ case'[c].created = case[c].created
             /\ ~Exists(c) /\ Exists(c)' =>
                   c = r.about /\ r.kind = "insert" /\ case'[c] = r.row /\ r.row \in Case
  <1> TAKE c \in Cases
  <1>1. case[c] \in Case \cup {NoRow} /\ (Exists(c) => case[c] \in Case)
    BY DEF TypeOK, Exists
  <1>2. \A row \in Case : row # NoRow
    BY RowAssumption
  <1>3. CASE c = r.about /\ r.kind = "insert"
    BY <1>1, <1>2, <1>3 DEF RequestRight, Inserting, Committed, Exists
  <1>4. CASE c = r.about /\ r.kind = "update"
    <2>1. Exists(c) /\ CaseSet(r.set) /\ case'[c] = Over(case[c], r.set)
      BY <1>4 DEF RequestRight, Updating, Committed
    <2>2. /\ case'[c] \in Case /\ case'[c].number = case[c].number
          /\ case'[c].created = case[c].created
      BY <1>1, <2>1, CaseOver
    <2> QED
      BY <1>2, <2>1, <2>2 DEF Exists
  <1>5. CASE ~(c = r.about /\ r.kind \in {"insert", "update"})
    BY <1>1, <1>5 DEF Committed, Exists
  <1> QED
    BY <1>3, <1>4, <1>5

LEMMA TasksAfter ==
    ASSUME TypeOK, NEW r, RequestRight(r), r.kind # "began", Committed(r)
    PROVE  \A t \in Tasks :
             /\ task'[t] \in Task \cup {NoRow}
             /\ task'[t] # NoRow => Exists(task'[t].case) /\ task'[t].case \in Cases
  <1> TAKE t \in Tasks
  <1>1. task[t] \in Task \cup {NoRow}
        /\ (task[t] # NoRow => task[t] \in Task /\ Exists(task[t].case) /\ task[t].case \in Cases)
    BY DEF TypeOK, Task
  <1>2. t \notin Cases
    BY RowAssumption
  <1>3. CASE t # r.about \/ r.kind = "delete"
    BY <1>1, <1>3 DEF Committed
  <1>4. CASE t = r.about /\ r.kind = "insert"
    <2>1. task'[t] = r.row /\ r.row \in Task /\ Exists(r.row.case)
      BY <1>4 DEF Committed, RequestRight, Inserting
    <2> QED
      BY <2>1 DEF Task
  <1>5. CASE t = r.about /\ r.kind = "update"
    <2>1. TaskSet(r.set) /\ task'[t] = Over(task[t], r.set) /\ task[t] # NoRow
      BY <1>5 DEF RequestRight, Updating, Committed
    <2> QED
      BY <1>1, <2>1, TaskOver, ZenonT(30)
  <1> QED
    BY <1>2, <1>3, <1>4, <1>5 DEF RequestRight

LEMMA NotesAfter ==
    ASSUME TypeOK, NEW r, RequestRight(r), r.kind # "began", Committed(r)
    PROVE  \A n \in Notes :
             /\ note'[n] \in Note \cup {NoRow}
             /\ note'[n] # NoRow => Exists(note'[n].case) /\ note'[n].case \in Cases
  <1> TAKE n \in Notes
  <1>1. note[n] \in Note \cup {NoRow}
        /\ (note[n] # NoRow => note[n] \in Note /\ Exists(note[n].case) /\ note[n].case \in Cases)
    BY DEF TypeOK, Note
  <1>2. n \notin Cases
    BY RowAssumption
  <1>3. CASE n # r.about \/ r.kind = "delete"
    BY <1>1, <1>3 DEF Committed
  <1>4. CASE n = r.about /\ r.kind = "insert"
    <2>1. note'[n] = r.row /\ r.row \in Note /\ Exists(r.row.case)
      BY <1>4 DEF Committed, RequestRight, Inserting
    <2> QED
      BY <2>1 DEF Note
  <1>5. CASE n = r.about /\ r.kind = "update"
    <2>1. DOMAIN r.set = {"author"} /\ r.set["author"] \in Users
          /\ note'[n] = Over(note[n], r.set) /\ note[n] # NoRow
      BY <1>5 DEF RequestRight, Updating, Committed
    <2> QED
      BY <1>1, <2>1, NoteOver
  <1> QED
    BY <1>2, <1>3, <1>4, <1>5 DEF RequestRight

(* The feed grows by the words of the request. *)
LEMMA FeedGrows ==
    ASSUME CaseInv, NEW q \in Requests, Commit(q)
    PROVE  \/ req[q].log = <<>> /\ log' = log
           \/ \E what \in Words :
                /\ req[q].log = <<what>>
                /\ log' \in Seq(Activity) /\ Len(log') = Len(log) + 1
                /\ \A i \in 1..Len(log) : log'[i] = log[i]
                /\ log'[Len(log) + 1] = [about |-> req[q].about, what |-> what]
  <1> DEFINE r == req[q]
             tail == [i \in DOMAIN r.log |-> [about |-> r.about, what |-> r.log[i]]]
  <1>1. RequestRight(r) /\ r.kind # "began"
    BY CommitIs
  <1>2. log' = log \o tail /\ log \in Seq(Activity)
    BY CaseTypes DEF Commit
  <1>3. CASE r.log = <<>>
    <2>1. tail = <<>>
      BY <1>3
    <2> QED
      BY <1>2, <1>3, <2>1
  <1>4. ASSUME NEW what \in Words, r.log = <<what>>
        PROVE  /\ log' \in Seq(Activity) /\ Len(log') = Len(log) + 1
               /\ \A i \in 1..Len(log) : log'[i] = log[i]
               /\ log'[Len(log) + 1] = [about |-> r.about, what |-> what]
    <2> DEFINE act == [about |-> r.about, what |-> what]
    <2>1. act \in Activity
      <3>1. r.about \in Cases \cup Tasks \cup Notes
        BY <1>1 DEF RequestRight
      <3> HIDE DEF r
      <3> QED
        BY <3>1 DEF Activity
    <2>2. tail = <<act>>
      BY <1>4
    <2> HIDE DEF act, tail
    <2>3. log' = Append(log, act)
      BY <1>2, <2>1, <2>2
    <2> QED
      BY <1>2, <2>1, <2>3 DEF act
  <1>5. r.log = <<>> \/ \E what \in Words : r.log = <<what>>
    BY <1>1 DEF RequestRight
  <1> QED
    BY <1>3, <1>4, <1>5

(* The other requests go on as they were; those about a task that changed  *)
(* read what is no longer so.                                              *)
Same(x, y) ==
    /\ DOMAIN x = RequestFields
    /\ x.kind = y.kind /\ x.about = y.about /\ x.set = y.set /\ x.log = y.log
    /\ x.row = y.row /\ x.loaded = y.loaded /\ x.wanted = y.wanted /\ x.year = y.year

LEMMA OthersAfter ==
    ASSUME CaseInv, NEW q \in Requests, Commit(q)
    PROVE  /\ DOMAIN req' = Requests /\ req'[q] = Idle
           /\ \A p \in Requests : req'[p] # Idle =>
                /\ p # q /\ req[p] # Idle /\ Same(req'[p], req[p])
                /\ req'[p].stale = (req[p].stale \/ (req[q].about \in Tasks
                                                     /\ req[p].about = req[q].about))
  <1>1. req' = [p \in Requests |->
                 IF p # q /\ req[p] # Idle
                 THEN [req[p] EXCEPT !.stale = @ \/ (req[q].about \in Tasks
                                                     /\ req[p].about = req[q].about)]
                 ELSE Idle]
    BY DEF Commit
  <1>2. ASSUME NEW p \in Requests, req'[p] # Idle
        PROVE  /\ p # q /\ req[p] # Idle /\ Same(req'[p], req[p])
               /\ req'[p].stale = (req[p].stale \/ (req[q].about \in Tasks
                                                    /\ req[p].about = req[q].about))
    <2> DEFINE y == req[p]
               b == (y.stale \/ (req[q].about \in Tasks /\ y.about = req[q].about))
    <2>1. p # q /\ y # Idle /\ req'[p] = [y EXCEPT !.stale = b]
      BY <1>1, <1>2
    <2>2. DOMAIN y = RequestFields
      BY <2>1 DEF CaseInv, CaseTables, Pending, RequestRight
    <2> HIDE DEF y, b
    <2>3. Same(req'[p], y) /\ req'[p].stale = b
      BY <2>1, <2>2 DEF Same, RequestFields
    <2> QED
      BY <2>1, <2>3 DEF y, b
  <1> QED
    BY <1>1, <1>2

(* A request that has not committed yet is still right after a commit. *)
LEMMA RequestAfter ==
    ASSUME TypeOK, NEW r, RequestRight(r), r.kind # "began", Committed(r),
           NEW x, NEW y, RequestRight(y), Same(x, y), x.stale \in BOOLEAN,
           y.kind = "insert" => y.about # r.about
    PROVE  RequestRight(x)'
  <1>1. \A c \in Cases : /\ Exists(c) => Exists(c)'
                         /\ ~Exists(c) /\ Exists(c)' => c = r.about
    BY CasesAfter
  <1>2. y.kind = "insert" =>
          /\ y.about \in Cases => y.row \in Case /\ ~Exists(y.about)
          /\ y.about \in Tasks => y.row \in Task /\ task[y.about] = NoRow /\ Exists(y.row.case)
          /\ y.about \in Notes => y.row \in Note /\ note[y.about] = NoRow /\ Exists(y.row.case)
    BY DEF RequestRight, Inserting
  <1>3. CASE y.kind = "insert"
    <2>1. y.about \in Cases => ~Exists(y.about)'
      BY <1>1, <1>2, <1>3
    <2>2. y.about \in Tasks => task'[y.about] = NoRow /\ Exists(y.row.case)'
      <3>1. ASSUME y.about \in Tasks  PROVE y.row.case \in Cases
        BY <1>2, <1>3, <3>1 DEF Task
      <3>2. ASSUME y.about \in Tasks  PROVE task'[y.about] = NoRow
        BY <1>2, <1>3, <3>2 DEF Committed
      <3> QED
        BY <1>1, <1>2, <1>3, <3>1, <3>2
    <2>3. y.about \in Notes => note'[y.about] = NoRow /\ Exists(y.row.case)'
      <3>1. ASSUME y.about \in Notes  PROVE y.row.case \in Cases
        BY <1>2, <1>3, <3>1 DEF Note
      <3>2. ASSUME y.about \in Notes  PROVE note'[y.about] = NoRow
        BY <1>2, <1>3, <3>2 DEF Committed
      <3> QED
        BY <1>1, <1>2, <1>3, <3>1, <3>2
    <2>4. x.about = y.about /\ x.row = y.row
      BY DEF Same
    <2>5. Inserting(x)'
      <3>1. x.about \in Cases => x.row \in Case /\ ~Exists(x.about)'
        BY <1>2, <1>3, <2>1, <2>4
      <3>2. x.about \in Tasks => x.row \in Task /\ task'[x.about] = NoRow /\ Exists(x.row.case)'
        BY <1>2, <1>3, <2>2, <2>4
      <3>3. x.about \in Notes => x.row \in Note /\ note'[x.about] = NoRow /\ Exists(x.row.case)'
        BY <1>2, <1>3, <2>3, <2>4
      <3> QED
        BY <3>1, <3>2, <3>3 DEF Inserting
    <2> QED
      BY <1>3, <2>5 DEF RequestRight, Same
  <1>4. CASE y.kind = "update"
    <2>1. x.about = y.about /\ x.set = y.set
      BY DEF Same
    <2>2. Updating(y)
      BY <1>4 DEF RequestRight
    <2>3. Updating(x)'
      BY <1>1, <2>1, <2>2 DEF Updating
    <2> QED
      BY <1>4, <2>3 DEF RequestRight, Same
  <1>5. CASE y.kind = "assign"
    BY <1>1, <1>5 DEF RequestRight, Same
  <1>6. CASE y.kind \in {"began", "delete"}
    BY <1>6 DEF RequestRight, Same
  <1> QED
    BY <1>3, <1>4, <1>5, <1>6 DEF RequestRight

LEMMA CommitTables ==
    ASSUME CaseInv, NEW q \in Requests, Commit(q)
    PROVE  /\ CaseTables'
           /\ \A c \in Cases : Exists(c) => Exists(c)'
  <1> DEFINE r == req[q]
  <1>1. r \in Pending /\ r.kind # "began" /\ RequestRight(r) /\ Committed(r) /\ TypeOK
    BY CommitIs, CaseTypes
  <1>2. \A c \in Cases :
             /\ case'[c] \in Case \cup {NoRow}
             /\ Exists(c) => Exists(c)' /\ case'[c].number = case[c].number
             /\ ~Exists(c) /\ Exists(c)' =>
                   c = r.about /\ r.kind = "insert" /\ case'[c] = r.row
    BY <1>1, CasesAfter
  <1>3. \A t \in Tasks : /\ task'[t] \in Task \cup {NoRow}
                         /\ task'[t] # NoRow => Exists(task'[t].case) /\ task'[t].case \in Cases
    BY <1>1, TasksAfter
  <1>4. \A n \in Notes : /\ note'[n] \in Note \cup {NoRow}
                         /\ note'[n] # NoRow => Exists(note'[n].case) /\ note'[n].case \in Cases
    BY <1>1, NotesAfter
  <1>5. log' \in Seq(Activity)
    BY FeedGrows, CaseTypes
  <1>6. UNCHANGED <<year, served, straddled>>
    BY DEF Commit
  <1>7. /\ DOMAIN req' = Requests
        /\ \A p \in Requests : req'[p] # Idle =>
             p # q /\ req[p] # Idle /\ Same(req'[p], req[p]) /\ req'[p].stale \in BOOLEAN
    <2>1. \A p \in Requests : req[p] # Idle => req[p].stale \in BOOLEAN
      BY DEF CaseInv, CaseTables, Pending, RequestRight
    <2> QED
      BY <2>1, OthersAfter
  <1>8. /\ team' \in [Cases -> SUBSET Users]
        /\ \A c \in Cases : ~Exists(c)' => team'[c] = {}
    <2>1. /\ team \in [Cases -> SUBSET Users]
          /\ \A c \in Cases : ~Exists(c) => team[c] = {}
      BY <1>1 DEF TypeOK
    <2>2. CASE r.kind = "assign"
      <3>1. r.about \in Cases /\ Exists(r.about) /\ r.wanted \in SUBSET Users
        BY <1>1, <2>2 DEF RequestRight
      <3>2. NewTeam(r) \in SUBSET Users
        BY <2>1, <3>1 DEF NewTeam
      <3>3. team' = [team EXCEPT ![r.about] = NewTeam(r)]
        BY <2>2 DEF Commit
      <3> HIDE DEF r
      <3> QED
        BY <1>2, <2>1, <3>1, <3>2, <3>3
    <2>3. CASE r.kind # "assign"
      <3>1. team' = team
        BY <2>3 DEF Commit
      <3> QED
        BY <1>2, <2>1, <3>1
    <2> QED
      BY <2>2, <2>3
  <1> HIDE DEF r
  <1>9. \A c, d \in Filed' : case'[c].number = case'[d].number => c = d
    <2>1. \A c, d \in Filed : case[c].number = case[d].number => c = d
      BY <1>1 DEF TypeOK
    <2>2. \A c \in Filed' : c \in Cases /\
             \/ c \in Filed /\ case'[c].number = case[c].number
             \/ /\ c = r.about /\ r.kind = "insert" /\ case'[c] = r.row
                /\ \A d \in Filed : case[d].number # case'[c].number
      BY <1>1, <1>2 DEF Filed, Committed
    <2> QED
      BY <2>1, <2>2
  <1>10. TypeOK'
    <2>1. case' \in [Cases -> Case \cup {NoRow}] /\ task' \in [Tasks -> Task \cup {NoRow}]
          /\ note' \in [Notes -> Note \cup {NoRow}]
      <3>1. case' = [c \in Cases |-> case'[c]] /\ task' = [t \in Tasks |-> task'[t]]
            /\ note' = [n \in Notes |-> note'[n]]
        BY DEF Commit, Stored, Over, CaseInv, CaseTables, TypeOK
      <3> QED
        BY <1>2, <1>3, <1>4, <3>1
    <2>2. \A i \in 1..Len(log') : log'[i] \in Activity
      BY <1>5
    <2>3. /\ \A t \in Tasks : task'[t] # NoRow => case'[task'[t].case] # NoRow
          /\ \A n \in Notes : note'[n] # NoRow => case'[note'[n].case] # NoRow
      BY <1>2, <1>3, <1>4 DEF Exists
    <2>4. year' \in Years /\ served' \in 0..MaxServed
      BY <1>1, <1>6 DEF TypeOK
    <2> QED
      BY <1>8, <1>9, <2>1, <2>2, <2>3, <2>4 DEF TypeOK, Exists
  <1>11. InsertsAlone'
    BY <1>7 DEF CaseInv, CaseTables, InsertsAlone, Same
  <1>12. ASSUME NEW p \in Requests, req'[p] # Idle, NEW x, x = req'[p]
         PROVE  RequestRight(x)'
    <2>1. PICK y : y = req[p]
      OBVIOUS
    <2>2. p # q /\ y # Idle /\ Same(x, y) /\ x.stale \in BOOLEAN
      BY <1>7, <1>12, <2>1
    <2>3. RequestRight(y)
      BY <2>1, <2>2 DEF CaseInv, CaseTables, Pending
    <2>4. PICK s : s = r
      OBVIOUS
    <2>5. y.kind = "insert" => y.about # s.about
      BY <1>1, <2>1, <2>2, <2>4 DEF CaseInv, CaseTables, InsertsAlone, Pending, r
    <2> QED
      BY <1>1, <2>2, <2>3, <2>4, <2>5, RequestAfter
  <1>13. \A x \in Pending' : RequestRight(x)'
    BY <1>12 DEF Pending
  <1> QED
    BY <1>2, <1>5, <1>7, <1>10, <1>11, <1>13 DEF CaseTables

(* Cases are counted, and a commit never makes a year count fewer. *)
LEMMA CountGrows ==
    ASSUME TypeOK, NEW r, RequestRight(r), r.kind # "began", Committed(r), NEW y
    PROVE  /\ Count(y) \in Nat /\ Count(y)' \in Nat /\ Count(y) <= Count(y)'
           /\ r.kind = "insert" /\ r.about \in Cases /\ r.row.created = y
                => Count(y)' = Count(y) + 1
  <1> DEFINE S == {c \in Filed : case[c].created = y}
             T == {c \in Filed' : case'[c].created = y}
  <1>1. IsFiniteSet(S) /\ IsFiniteSet(T)
    <2>1. S \subseteq Cases /\ T \subseteq Cases
      BY DEF Filed
    <2> QED
      BY <2>1, CaseAssumption, FS_Subset
  <1>2. Count(y) = Cardinality(S) /\ Count(y)' = Cardinality(T)
    BY DEF Count
  <1>3. S \subseteq T
    BY CasesAfter DEF Filed
  <1>4. ASSUME r.kind = "insert", r.about \in Cases, r.row.created = y
        PROVE  r.about \notin S /\ T = S \cup {r.about}
    <2>1. ~Exists(r.about) /\ case'[r.about] = r.row
      BY <1>4 DEF RequestRight, Inserting, Committed
    <2>2. Exists(r.about)'
      <3>1. r.row \in Case
        BY <1>4 DEF RequestRight, Inserting
      <3> QED
        BY <2>1, <3>1, RowAssumption DEF Exists
    <2>3. \A c \in T : c \in S \/ c = r.about
      BY CasesAfter DEF Filed
    <2> QED
      BY <1>3, <1>4, <2>1, <2>2, <2>3 DEF Filed
  <1> HIDE DEF S, T
  <1>5. Cardinality(S) \in Nat /\ Cardinality(T) \in Nat /\ Cardinality(S) <= Cardinality(T)
    BY <1>1, <1>3, FS_Subset, FS_CardinalityType
  <1>6. ASSUME r.kind = "insert", r.about \in Cases, r.row.created = y
        PROVE  Cardinality(T) = Cardinality(S) + 1
    BY <1>1, <1>4, <1>6, FS_AddElement
  <1> QED
    BY <1>2, <1>5, <1>6

LEMMA CommitNumbers ==
    ASSUME CaseInv, NEW q \in Requests, Commit(q)
    PROVE  NumbersRight'
  <1>1. PICK r : r = req[q]
    OBVIOUS
  <1>2. r \in Pending /\ r.kind # "began" /\ RequestRight(r) /\ Committed(r) /\ TypeOK
    BY <1>1, CommitIs, CaseTypes
  <1>3. SUFFICES ASSUME ~straddled', NEW y \in Years
                 PROVE  /\ \A c \in Filed' : case'[c].created = y => NumberWithin(case'[c], Count(y)')
                        /\ \A x \in Pending' : x.kind = "insert" /\ x.about \in Cases /\ x.row.created = y
                              => NumberWithin(x.row, Count(y)' + 1)
    BY DEF NumbersRight, NumberWithin
  <1>4. /\ \A c \in Filed : case[c].created = y => NumberWithin(case[c], Count(y))
        /\ \A x \in Pending : x.kind = "insert" /\ x.about \in Cases /\ x.row.created = y
              => NumberWithin(x.row, Count(y) + 1)
    BY <1>3 DEF Commit, CaseInv, NumbersRight
  <1>5. /\ Count(y) \in Nat /\ Count(y)' \in Nat /\ Count(y) <= Count(y)'
        /\ r.kind = "insert" /\ r.about \in Cases /\ r.row.created = y
             => Count(y)' = Count(y) + 1
    BY <1>2, CountGrows
  <1>6. \A row \in Case : row.number[2] \in Nat
    BY DEF Case
  <1>7. ASSUME NEW c \in Filed', case'[c].created = y
        PROVE  NumberWithin(case'[c], Count(y)')
    <2>1. c \in Cases
      BY DEF Filed
    <2>2. CASE Exists(c)
      <3>1. /\ case'[c].number = case[c].number /\ case'[c].created = case[c].created
            /\ c \in Filed /\ case[c] \in Case
        BY <1>2, <2>1, <2>2, CasesAfter, CaseIs
      <3>2. NumberWithin(case[c], Count(y)) /\ case[c].number[2] \in Nat
        BY <1>4, <1>6, <1>7, <3>1
      <3> QED
        BY <1>5, <3>1, <3>2 DEF NumberWithin
    <2>3. CASE ~Exists(c)
      <3>1. c = r.about /\ r.kind = "insert" /\ case'[c] = r.row /\ r.row \in Case
        BY <1>2, <2>1, <2>3, CasesAfter DEF Filed
      <3>2. NumberWithin(r.row, Count(y) + 1) /\ Count(y)' = Count(y) + 1
        BY <1>2, <1>4, <1>5, <1>7, <2>1, <3>1
      <3> QED
        BY <3>1, <3>2
    <2> QED
      BY <2>2, <2>3
  <1>8. ASSUME NEW x \in Pending', x.kind = "insert", x.about \in Cases, x.row.created = y
        PROVE  NumberWithin(x.row, Count(y)' + 1)
    <2>1. PICK z \in Pending : Same(x, z)
      BY OthersAfter DEF Pending
    <2>2. z.kind = "insert" /\ z.about \in Cases /\ z.row = x.row
      BY <1>8, <2>1 DEF Same
    <2>3. z.row \in Case /\ RequestRight(z)
      BY <2>1, <2>2 DEF CaseInv, CaseTables, RequestRight, Inserting
    <2>4. NumberWithin(z.row, Count(y) + 1) /\ z.row.number[2] \in Nat
      BY <1>4, <1>6, <1>8, <2>2, <2>3
    <2> QED
      BY <1>5, <2>2, <2>4 DEF NumberWithin
  <1> QED
    BY <1>7, <1>8

LEMMA CommitFlags ==
    ASSUME CaseInv, NEW q \in Requests, Commit(q)
    PROVE  FlagsRight'
  <1>1. PICK r : r = req[q]
    OBVIOUS
  <1>2. r \in Pending /\ r.kind # "began" /\ RequestRight(r) /\ Committed(r) /\ TypeOK
    BY <1>1, CommitIs, CaseTypes
  <1>3. FlagsMove(r) /\ ArchiveAgrees
    BY <1>2 DEF CaseInv, FlagsRight
  <1>4. byHand \subseteq byHand' /\ (ByHand(r) => r.about \in byHand')
    BY <1>1 DEF Commit
  <1>5. ASSUME NEW c \in Filed' \ byHand'
        PROVE  case'[c].archived <=> case'[c].status = "archived"
    <2>1. c \in Cases /\ c \notin byHand
      BY <1>4 DEF Filed
    <2>2. CASE c = r.about /\ r.kind = "insert"
      <3>1. case'[c] = r.row /\ ~r.row.archived
        BY <1>2, <1>3, <2>1, <2>2 DEF Committed, FlagsMove
      <3>2. r.row.status # "archived"
        BY <1>4, <1>5, <2>1, <2>2 DEF ByHand
      <3> QED
        BY <3>1, <3>2
    <2>3. CASE c = r.about /\ r.kind = "update"
      <3>1. Exists(c) /\ CaseSet(r.set) /\ case'[c] = Over(case[c], r.set)
        BY <1>2, <2>1, <2>3 DEF RequestRight, Updating, Committed
      <3>2. case[c] \in Case /\ c \in Filed
        BY <1>2, <2>1, <3>1, CaseIs
      <3>3. "status" \in CaseColumns /\ "archived" \in CaseColumns
        BY DEF CaseColumns
      <3>4. \A d \in CaseColumns :
              case'[c][d] = IF d \in DOMAIN r.set THEN r.set[d] ELSE case[c][d]
        BY <3>1, <3>2, CaseOver
      <3>5. /\ case'[c]["status"] = IF "status" \in DOMAIN r.set THEN r.set["status"]
                                    ELSE case[c]["status"]
            /\ case'[c]["archived"] = IF "archived" \in DOMAIN r.set THEN r.set["archived"]
                                      ELSE case[c]["archived"]
        BY <3>3, <3>4
      <3>6. case[c].archived <=> case[c].status = "archived"
        BY <1>3, <2>1, <3>2 DEF ArchiveAgrees
      <3>7. /\ "archived" \in DOMAIN r.set =>
                 "status" \in DOMAIN r.set /\ (r.set["archived"] <=> r.set["status"] = "archived")
            /\ "status" \in DOMAIN r.set /\ "archived" \notin DOMAIN r.set => r.log = <<"updated">>
        BY <1>3, <2>1, <2>3 DEF FlagsMove
      <3>8. "status" \in DOMAIN r.set /\ "archived" \notin DOMAIN r.set =>
                 r.set["status"] # "archived" /\ ~case[c].archived
        BY <1>4, <1>5, <2>1, <2>3, <3>7 DEF ByHand
      <3> QED
        BY <3>5, <3>6, <3>7, <3>8
    <2>4. CASE ~(c = r.about /\ r.kind \in {"insert", "update"})
      <3>1. case'[c] = case[c] /\ c \in Filed
        BY <1>2, <1>5, <2>1, <2>4 DEF Committed, Filed, Exists
      <3> QED
        BY <1>3, <2>1, <3>1 DEF ArchiveAgrees
    <2> QED
      BY <2>2, <2>3, <2>4
  <1>6. ASSUME NEW x \in Pending'
        PROVE  FlagsMove(x)'
    <2>1. PICK z \in Pending : Same(x, z)
      BY OthersAfter DEF Pending
    <2>2. FlagsMove(z)
      BY <2>1 DEF CaseInv, FlagsRight
    <2> QED
      BY <1>4, <2>1, <2>2 DEF FlagsMove, Same
  <1> QED
    BY <1>5, <1>6 DEF FlagsRight, ArchiveAgrees

LEMMA CompletionsAfter ==
    ASSUME CaseInv, NEW q \in Requests, Commit(q), NEW r, r = req[q], NEW t
    PROVE  Completions(t)' = IF r.about = t /\ r.log = <<"completed">>
                             THEN Completions(t) \cup {Len(log) + 1} ELSE Completions(t)
  <1> DEFINE done == [about |-> t, what |-> "completed"]
  <1>1. Completions(t) = {i \in 1..Len(log) : log[i] = done}
        /\ Completions(t)' = {i \in 1..Len(log') : log'[i] = done}
    BY DEF Completions
  <1>2. CASE r.log = <<>> /\ log' = log
    BY <1>1, <1>2
  <1>3. ASSUME NEW what \in Words, r.log = <<what>>,
               Len(log') = Len(log) + 1, \A i \in 1..Len(log) : log'[i] = log[i],
               log'[Len(log) + 1] = [about |-> r.about, what |-> what]
        PROVE  Completions(t)' = IF r.about = t /\ r.log = <<"completed">>
                                 THEN Completions(t) \cup {Len(log) + 1} ELSE Completions(t)
    <2>1. Len(log) \in Nat
      BY CaseTypes
    <2>2. log'[Len(log) + 1] = done <=> r.about = t /\ what = "completed"
      BY <1>3
    <2>3. r.log = <<"completed">> <=> what = "completed"
      BY <1>3
    <2> HIDE DEF done
    <2> DEFINE n == Len(log)
    <2>4. \A i : i \in 1..Len(log') <=> i \in 1..n \/ i = n + 1
      BY <1>3, <2>1
    <2>5. (n + 1) \notin 1..n
      BY <2>1
    <2> HIDE DEF n
    <2>6. \A i : i \in Completions(t)' <=>
                   i \in Completions(t) \/ (i = n + 1 /\ r.about = t /\ what = "completed")
      BY <1>1, <1>3, <2>2, <2>4, <2>5 DEF n
    <2> HIDE DEF Completions
    <2>7. CASE r.about = t /\ what = "completed"
      <3>1. Completions(t)' = Completions(t) \cup {n + 1}
        BY <2>6, <2>7
      <3> QED
        BY <2>3, <2>7, <3>1 DEF n
    <2>8. CASE ~(r.about = t /\ what = "completed")
      <3>1. Completions(t)' = Completions(t)
        BY <2>6, <2>8
      <3> QED
        BY <2>3, <2>8, <3>1
    <2> QED
      BY <2>7, <2>8
  <1> QED
    BY <1>2, <1>3, FeedGrows

LEMMA CommitCompletions ==
    ASSUME CaseInv, NEW q \in Requests, Commit(q)
    PROVE  CompletionsRight'
  <1>1. PICK r : r = req[q]
    OBVIOUS
  <1>2. r \in Pending /\ r.kind # "began" /\ RequestRight(r) /\ Committed(r) /\ TypeOK
    BY <1>1, CommitIs, CaseTypes
  <1>3. r.kind \in {"insert", "update", "assign", "delete"} /\ CompletionMoves(r)
    BY <1>2 DEF CaseInv, CompletionsRight, RequestRight
  <1>4. \A t \in Tasks :
          /\ task[t] # NoRow => task[t] \in Task
          /\ task[t] # NoRow /\ task[t].status = "completed" => task[t].completed
          /\ t \notin overlaid => Cardinality(Completions(t)) <= 1
          /\ t \notin overlaid /\ task[t] # NoRow /\ ~task[t].completed => Completions(t) = {}
    BY <1>2 DEF CaseInv, CompletionsRight, CompletedOnce, Completions, TypeOK
  <1>5. overlaid \subseteq overlaid' /\ (r.stale => r.about \in overlaid')
    BY <1>1 DEF Commit
  <1>6. \A t \in Tasks : t \notin Cases
    BY RowAssumption
  <1>7. ASSUME NEW t \in Tasks, r.about = t, r.kind = "update"
        PROVE  /\ task'[t].status = IF "status" \in DOMAIN r.set THEN r.set["status"] ELSE task[t].status
               /\ task'[t].completed = IF "completed" \in DOMAIN r.set THEN TRUE ELSE task[t].completed
               /\ task[t] # NoRow /\ task'[t] # NoRow
    <2>1. TaskSet(r.set) /\ task[t] # NoRow /\ task'[t] = Over(task[t], r.set)
      BY <1>2, <1>7 DEF RequestRight, Updating, Committed
    <2>2. task[t] \in Task
      BY <1>4, <2>1
    <2>3. Over(task[t], r.set) # NoRow
      BY <2>1, <2>2, TaskOver, RowAssumption
    <2>4. /\ Over(task[t], r.set).status
               = IF "status" \in DOMAIN r.set THEN r.set["status"] ELSE task[t].status
          /\ Over(task[t], r.set).completed
               = IF "completed" \in DOMAIN r.set THEN TRUE ELSE task[t].completed
      BY <2>1, <2>2, TaskOver
    <2> QED
      BY <2>1, <2>3, <2>4
  <1>8. ASSUME NEW t \in Tasks
        PROVE  Completions(t)' = IF r.about = t /\ r.log = <<"completed">>
                                 THEN Completions(t) \cup {Len(log) + 1} ELSE Completions(t)
    BY <1>1, CompletionsAfter
  <1>9. <<"created">> # <<"completed">> /\ <<>> # <<"completed">>
    OBVIOUS
  <1>10. ASSUME NEW t \in Tasks, task'[t] # NoRow, task'[t].status = "completed"
         PROVE  task'[t].completed
    <2>1. CASE r.about # t
      BY <1>2, <1>4, <1>10, <2>1 DEF Committed
    <2>2. CASE r.about = t /\ r.kind = "insert"
      BY <1>2, <1>3, <1>10, <2>2 DEF Committed, CompletionMoves
    <2>3. CASE r.about = t /\ r.kind = "update"
      BY <1>3, <1>4, <1>7, <1>10, <2>3 DEF CompletionMoves
    <2>4. CASE r.about = t /\ r.kind = "delete"
      BY <1>2, <1>10, <2>4 DEF Committed
    <2> QED
      BY <1>2, <1>3, <1>6, <2>1, <2>2, <2>3, <2>4 DEF RequestRight
  <1>11. ASSUME NEW t \in Tasks \ overlaid'
         PROVE  Cardinality(Completions(t)') <= 1
    <2>1. t \notin overlaid
      BY <1>5
    <2>2. CASE r.about = t /\ r.log = <<"completed">>
      <3>1. r.kind = "update"
        BY <1>2, <1>3, <1>6, <1>9, <2>2 DEF CompletionMoves, RequestRight
      <3>2. Completions(t) = {}
        BY <1>3, <1>5, <1>9, <2>1, <2>2, <3>1 DEF CompletionMoves
      <3>3. Completions(t)' = {Len(log) + 1}
        BY <1>8, <2>2, <3>2
      <3>4. Cardinality({Len(log) + 1}) = 1
        BY FS_Singleton
      <3> QED
        BY <3>3, <3>4
    <2>3. CASE ~(r.about = t /\ r.log = <<"completed">>)
      BY <1>4, <1>8, <2>1, <2>3
    <2> QED
      BY <2>2, <2>3
  <1>12. ASSUME NEW t \in Tasks \ overlaid', task'[t] # NoRow, ~task'[t].completed
         PROVE  Completions(t)' = {}
    <2>1. t \notin overlaid
      BY <1>5
    <2>2. CASE r.about # t
      BY <1>2, <1>4, <1>8, <1>12, <2>1, <2>2 DEF Committed
    <2>3. CASE r.about = t /\ r.kind = "insert"
      BY <1>3, <1>8, <1>9, <2>3 DEF CompletionMoves
    <2>4. CASE r.about = t /\ r.kind = "update"
      <3>1. "completed" \notin DOMAIN r.set /\ ~task[t].completed /\ task[t] # NoRow
        BY <1>7, <1>12, <2>4
      <3>2. r.log = <<>>
        BY <1>3, <2>4, <3>1 DEF CompletionMoves
      <3> QED
        BY <1>4, <1>8, <1>9, <2>1, <3>1, <3>2
    <2>5. CASE r.about = t /\ r.kind = "delete"
      BY <1>2, <1>12, <2>5 DEF Committed
    <2> QED
      BY <1>2, <1>3, <1>6, <2>2, <2>3, <2>4, <2>5 DEF RequestRight
  <1>13. ASSUME NEW p \in Requests, req'[p] # Idle, NEW x, x = req'[p]
         PROVE  CompletionMoves(x)'
    <2>1. PICK z : z = req[p]
      OBVIOUS
    <2>2. /\ p # q /\ z # Idle /\ Same(x, z)
          /\ x.stale = (z.stale \/ (r.about \in Tasks /\ z.about = r.about))
      BY <1>1, <1>13, <2>1, OthersAfter
    <2>3. CompletionMoves(z) /\ (z.kind = "insert" => z.about # r.about)
      BY <1>1, <1>2, <2>1, <2>2
         DEF CaseInv, CaseTables, CompletionsRight, InsertsAlone, Pending
    <2>4. x.kind = z.kind /\ x.about = z.about /\ x.set = z.set /\ x.log = z.log /\ x.row = z.row
      BY <2>2 DEF Same
    <2>5. ASSUME x.about \in Tasks, x.about # r.about
          PROVE  Completions(x.about)' = Completions(x.about) /\ task'[x.about] = task[x.about]
      BY <1>2, <1>8, <2>5 DEF Committed
    <2>6. ASSUME x.about \in Tasks, x.kind = "insert"
          PROVE  x.row.status # "completed" /\ Completions(x.about)' = {} /\ x.log = <<"created">>
      BY <2>3, <2>4, <2>5, <2>6 DEF CompletionMoves
    <2>7. ASSUME x.about \in Tasks, x.kind = "update", "status" \in DOMAIN x.set,
                 x.set["status"] = "completed", "completed" \notin DOMAIN x.set,
                 task'[x.about] # NoRow
          PROVE  task'[x.about].completed
      <3>1. task[x.about] = NoRow \/ task[x.about].completed
        BY <2>3, <2>4, <2>7 DEF CompletionMoves
      <3>2. CASE x.about # r.about
        BY <2>5, <2>7, <3>1, <3>2
      <3>3. CASE x.about = r.about
        <4>1. r.kind # "insert"
          BY <1>1, <1>2, <2>1, <2>2, <2>4, <3>3, ZenonT(30) DEF CaseInv, CaseTables, InsertsAlone, Pending
        <4>2. r.kind # "delete" /\ r.kind # "assign"
          BY <1>2, <1>6, <2>7, <3>3 DEF Committed, RequestRight
        <4> QED
          BY <1>3, <1>7, <2>7, <3>1, <3>3, <4>1, <4>2
      <3> QED
        BY <3>2, <3>3
    <2>8. ASSUME x.about \in Tasks, x.kind = "update", x.log # <<>>, ~x.stale, x.about \notin overlaid'
          PROVE  Completions(x.about)' = {}
      <3>1. ~z.stale /\ x.about # r.about /\ x.about \notin overlaid
        BY <1>5, <2>2, <2>4, <2>8
      <3> QED
        BY <2>3, <2>4, <2>5, <2>8, <3>1 DEF CompletionMoves
    <2> QED
      BY <2>3, <2>4, <2>6, <2>7, <2>8 DEF CompletionMoves
  <1>14. \A x \in Pending' : CompletionMoves(x)'
    BY <1>13 DEF Pending
  <1> QED
    BY <1>10, <1>11, <1>12, <1>14 DEF CompletionsRight, CompletedOnce, Completions

(* A request fails, a year goes by, the tables stay. *)
LEMMA TablesStay ==
    ASSUME CaseInv,
           UNCHANGED <<case, team, task, note, log, byHand, straddled, overlaid>>,
           year' \in Years, served' \in 0..MaxServed,
           DOMAIN req' = Requests,
           \A p \in Requests : req'[p] = Idle \/ req'[p] = req[p]
    PROVE  CaseInv'
  <1>1. Pending' \subseteq Pending
    BY DEF Pending
  <1>2. Filed' = Filed /\ (\A c : Exists(c)' = Exists(c)) /\ (\A y : Count(y)' = Count(y))
    BY DEF Filed, Exists, Count
  <1>3. \A t : Completions(t)' = Completions(t)
    BY DEF Completions
  <1>4. TypeOK'
    BY <1>2, CaseTypes DEF TypeOK, Exists
  <1>5. \A x \in Pending' : RequestRight(x)'
    <2>1. \A x : RequestRight(x) => RequestRight(x)'
      BY DEF RequestRight, Inserting, Updating, Exists
    <2> QED
      BY <1>1, <2>1 DEF CaseInv, CaseTables
  <1>6. InsertsAlone'
    BY DEF CaseInv, CaseTables, InsertsAlone
  <1>7. CaseTables'
    BY <1>4, <1>5, <1>6, CaseTypes DEF CaseTables
  <1>8. NumbersRight'
    BY <1>1, <1>2 DEF CaseInv, NumbersRight
  <1>9. FlagsRight'
    <2>1. \A x : FlagsMove(x) => FlagsMove(x)'
      BY DEF FlagsMove
    <2> QED
      BY <1>1, <1>2, <2>1 DEF CaseInv, FlagsRight, ArchiveAgrees
  <1>10. CompletionsRight'
    <2>1. \A x : CompletionMoves(x) => CompletionMoves(x)'
      BY <1>3 DEF CompletionMoves
    <2>2. CompletedOnce'
      BY DEF CaseInv, CompletionsRight, CompletedOnce
    <2> QED
      BY <1>1, <1>3, <2>1, <2>2 DEF CaseInv, CompletionsRight
  <1> QED
    BY <1>7, <1>8, <1>9, <1>10 DEF CaseInv

(* What the inbox sees of a step of the cases. *)
CasesStay ==
    /\ \A c \in Cases : Exists(c) => Exists(c)'
    /\ served <= served' /\ served' \in 0..MaxServed

LEMMA CaseInvStays ==
    ASSUME CaseInv, Next
    PROVE  CaseInv' /\ CasesStay
  <1>0. served \in 0..MaxServed /\ MaxServed \in Nat
    BY CaseTypes, CaseAssumption DEF TypeOK
  <1>1. ASSUME NEW q \in Requests, NEW r, Sends(q, r), Begun(r)
        PROVE  CaseInv' /\ CasesStay
    <2>1. Enters(q, r) /\ UNCHANGED straddled /\ Joins(r)
          /\ ~(r.kind = "insert" /\ r.about \in Cases)
      BY <1>1, SendsEnters DEF Begun
    <2>2. CaseTables' /\ FlagsRight' /\ CompletionsRight' /\ NumbersRight'
      BY <2>1, EnterTables, EnterNumbers
    <2>3. CasesStay
      BY <1>0, <1>1 DEF Sends, CasesStay, Exists
    <2> QED
      BY <2>2, <2>3 DEF CaseInv
  <1>2. ASSUME NEW q \in Requests, NEW u \in Users, NEW c \in Cases, NEW status \in Statuses,
               NEW private \in BOOLEAN, Create(q, u, c, status, private)
        PROVE  CaseInv' /\ CasesStay
    <2>1. PICK r : /\ Enters(q, r) /\ Joins(r) /\ r.row.number = NextNumber
                   /\ r.row.created \in Years
                   /\ straddled' = (straddled \/ r.row.created # year)
      BY <1>2, CreateJoins
    <2>2. \A y : ~straddled' /\ r.kind = "insert" /\ r.about \in Cases /\ r.row.created = y
             => NumberWithin(r.row, Count(y) + 1)
      <3> SUFFICES ASSUME r.row.created = year
                   PROVE  NumberWithin(r.row, Count(year) + 1)
        BY <2>1
      <3>1. r.row.number = <<year, Count(year) + 1>>
        BY <2>1 DEF NextNumber, Count
      <3>2. Count(year) \in Nat
        <4>1. {d \in Filed : case[d].created = year} \subseteq Cases
          BY DEF Filed
        <4> QED
          BY <4>1, CaseAssumption, FS_Subset, FS_CardinalityType DEF Count
      <3> QED
        BY <3>1, <3>2 DEF NumberWithin
    <2>3. CaseTables' /\ FlagsRight' /\ CompletionsRight' /\ NumbersRight'
      BY <2>1, <2>2, EnterTables, EnterNumbers
    <2>4. CasesStay
      BY <1>0, <1>2 DEF Create, CasesStay, Exists
    <2> QED
      BY <2>3, <2>4 DEF CaseInv
  <1>3. ASSUME NEW q \in Requests, Commit(q)
        PROVE  CaseInv' /\ CasesStay
    <2>1. CaseInv'
      BY <1>3, CommitTables, CommitNumbers, CommitFlags, CommitCompletions DEF CaseInv
    <2>2. served' = served
      BY <1>3 DEF Commit
    <2> QED
      BY <1>0, <1>3, <2>1, <2>2, CommitTables DEF CasesStay
  <1>4. ASSUME NEW q \in Requests, Fails(q)
        PROVE  CaseInv' /\ CasesStay
    <2>1. /\ UNCHANGED <<case, team, task, note, log, byHand, straddled, overlaid>>
          /\ year' \in Years /\ served' = served /\ DOMAIN req' = Requests
          /\ \A p \in Requests : req'[p] = Idle \/ req'[p] = req[p]
      BY <1>4, CaseTypes DEF Fails, Finished, TypeOK
    <2> QED
      BY <1>0, <2>1, TablesStay DEF CasesStay, Exists
  <1>5. ASSUME NewYear
        PROVE  CaseInv' /\ CasesStay
    <2>1. year' \in Years
      BY <1>5, CaseTypes, CaseAssumption DEF NewYear, TypeOK, Years
    <2>2. /\ UNCHANGED <<case, team, task, note, log, byHand, straddled, overlaid>>
          /\ served' = served /\ req' = req
      BY <1>5 DEF NewYear
    <2> QED
      BY <1>0, <2>1, <2>2, CaseTypes, TablesStay DEF CasesStay, Exists
  <1>6. ASSUME NEW q \in Requests, NEW u \in Users, CaseRoutes(q, u) \/ WorkRoutes(q, u)
        PROVE  CaseInv' /\ CasesStay
    BY <1>1, <1>2, <1>6, RoutesBegin
  <1>7. ASSUME NEW q \in Requests, BeginCreate(q)
        PROVE  CaseInv' /\ CasesStay
    BY <1>1, <1>7, BeginCreateBegins
  <1> QED
    BY <1>3, <1>4, <1>5, <1>6, <1>7 DEF Next

LEMMA CaseInit ==
    ASSUME Init
    PROVE  CaseInv
  <1>1. PICK u \in Filers, private \in BOOLEAN :
          case = [c \in Cases |-> IF c = Earlier THEN NewCase(u, "open", private, <<0, 1>>, 0)
                                  ELSE NoRow]
    BY DEF Init
  <1> DEFINE row == NewCase(u, "open", private, <<0, 1>>, 0)
  <1>2. /\ team = [c \in Cases |-> {}] /\ task = [t \in Tasks |-> NoRow]
        /\ note = [n \in Notes |-> NoRow] /\ log = <<>> /\ year = 0
        /\ req = [q \in Requests |-> Idle] /\ served = 0 /\ byHand = {} /\ overlaid = {}
    BY DEF Init
  <1>3. Earlier \in Cases /\ u \in Users /\ 0 \in Years /\ 0 \in 0..MaxServed
    BY CaseAssumption DEF Years
  <1>4. row \in Case /\ row.number = <<0, 1>> /\ row.created = 0 /\ ~row.archived /\ row.status = "open"
    BY <1>3, CaseAssumption DEF NewCase, Case
  <1> HIDE DEF row
  <1>5. /\ case \in [Cases -> Case \cup {NoRow}] /\ case[Earlier] = row
        /\ \A c \in Cases : Exists(c) <=> c = Earlier
    BY <1>1, <1>3, <1>4, RowAssumption DEF row, Exists
  <1>6. Filed = {Earlier}
    BY <1>3, <1>5 DEF Filed
  <1>7. Pending = {}
    BY <1>2 DEF Pending
  <1>8. TypeOK
    BY <1>2, <1>3, <1>5, <1>6 DEF TypeOK
  <1>9. CaseTables
    BY <1>2, <1>7, <1>8 DEF CaseTables, InsertsAlone
  <1>10. NumbersRight
    <2>1. {c \in Filed : case[c].created = 0} = {Earlier}
      BY <1>4, <1>5, <1>6
    <2>2. Count(0) = 1
      <3>1. Cardinality({Earlier}) = 1
        BY FS_Singleton
      <3> QED
        BY <2>1, <3>1 DEF Count
    <2>3. \A y \in Years, c \in Filed : case[c].created = y => NumberWithin(case[c], Count(y))
      BY <1>4, <1>5, <1>6, <2>2 DEF NumberWithin
    <2> QED
      BY <1>7, <2>3 DEF NumbersRight
  <1>11. FlagsRight
    BY <1>4, <1>5, <1>6, <1>7 DEF FlagsRight, ArchiveAgrees
  <1>12. CompletionsRight
    <2>1. \A t : Completions(t) = {}
      BY <1>2 DEF Completions
    <2>2. Cardinality({}) = 0
      BY FS_EmptySet
    <2>3. CompletedOnce
      BY <1>2, <2>1, <2>2 DEF CompletedOnce, Completions
    <2> QED
      BY <1>2, <1>7, <2>1, <2>3 DEF CompletionsRight
  <1> QED
    BY <1>9, <1>10, <1>11, <1>12 DEF CaseInv

-----------------------------------------------------------------------------
(* The inbox. *)

LEMMA DeskTypes ==
    ASSUME DeskInv
    PROVE  /\ CaseInv /\ TypeOK /\ DeskTypeOK /\ DOMAIN call = Calls
           /\ alert \in [Alerts -> Alert \cup {NoRow}]
           /\ inbox \in [Users -> [Alerts -> Notification \cup {NoRow}]]
           /\ served \in 0..MaxServed /\ MaxServed \in Nat
           /\ \A k \in Calls : call[k] # Idle => call[k] \in Ringing /\ CallRight(call[k])
  BY CaseAssumption DEF DeskInv, InboxInv, DeskTypeOK, TypeOK, Ringing

LEMMA InboxInitRight ==
    ASSUME CaseInv, InboxInit
    PROVE  InboxInv
  <1>1. Ringing = {} /\ DOMAIN call = Calls
    BY DEF InboxInit, Ringing
  <1>2. \A u \in Users : Own(u) = {}
    BY DEF InboxInit, Own
  <1>3. DeskTypeOK
    BY CaseTypes DEF InboxInit, DeskTypeOK
  <1>4. RaisesAlone
    BY DEF InboxInit, RaisesAlone
  <1> QED
    BY <1>1, <1>2, <1>3, <1>4 DEF InboxInv, ReadKnowingly

(* Cases go on beside the inbox. *)
LEMMA CasesBeside ==
    ASSUME DeskInv, CaseInv', CasesStay, UNCHANGED inboxVars
    PROVE  DeskInv'
  <1>1. UNCHANGED <<alert, inbox, call>>
    BY DEF inboxVars
  <1>2. TypeOK'
    BY DEF CaseInv, CaseTables
  <1>3. \A a \in Alerts : alert[a] # NoRow => alert[a].case \in Cases
    BY DeskTypes DEF Alert
  <1>4. DeskTypeOK'
    <2>1. \A a \in Alerts : alert[a] # NoRow => case'[alert[a].case] # NoRow
      BY <1>3, DeskTypes DEF DeskTypeOK, CasesStay, Exists
    <2> QED
      BY <1>1, <1>2, <2>1, DeskTypes DEF DeskTypeOK, Exists
  <1>5. \A u \in Users : \A a \in Own(u) : inbox[u][a].born <= served'
    <2>1. \A u \in Users : \A a \in Own(u) : inbox[u][a].born \in Nat /\ inbox[u][a].born <= served
      BY DeskTypes DEF Own, Notification, DeskInv, InboxInv
    <2> QED
      BY <2>1, DeskTypes DEF CasesStay
  <1>6. \A u : Own(u)' = Own(u)
    BY <1>1 DEF Own
  <1>7. Ringing' = Ringing
    BY <1>1 DEF Ringing
  <1>8. \A x : CallRight(x) => CallRight(x)'
    BY <1>1, <1>6 DEF CallRight, CasesStay, Raised, Exists
  <1> QED
    BY <1>1, <1>4, <1>5, <1>6, <1>7, <1>8, DeskTypes
       DEF DeskInv, InboxInv, RaisesAlone, ReadKnowingly

(* A call that comes in. *)
LEMMA CallJoins ==
    ASSUME DeskInv, UNCHANGED caseVars, NEW k \in Calls, NEW r, Calling(k, r), CallRight(r),
           r.kind = "raise" => \A j \in Calls : call[j] # Idle => call[j].alert # r.alert
    PROVE  DeskInv'
  <1>1. UNCHANGED <<case, team, task, note, log, year, req, byHand, straddled, overlaid>>
    BY DEF caseVars
  <1>2. served' = served + 1 /\ served < MaxServed /\ UNCHANGED <<alert, inbox>>
        /\ call' = [call EXCEPT ![k] = r]
    BY DEF Calling
  <1>3. served' \in 0..MaxServed
    BY <1>2, DeskTypes
  <1>4. CaseInv'
    <2>1. year' \in Years
      BY <1>1, DeskTypes DEF TypeOK
    <2> QED
      BY <1>1, <1>3, <2>1, DeskTypes, CaseTypes, TablesStay
  <1>5. /\ DOMAIN call' = Calls /\ call'[k] = r
        /\ \A j \in Calls \ {k} : call'[j] = call[j]
    BY <1>2, DeskTypes
  <1>6. \A u : Own(u)' = Own(u)
    BY <1>2 DEF Own
  <1>7. \A x : CallRight(x) => CallRight(x)'
    BY <1>1, <1>2, <1>6 DEF CallRight, Raised, Exists
  <1>8. \A x \in Ringing' : CallRight(x)'
    BY <1>5, <1>7, DeskTypes DEF Ringing
  <1>9. DeskTypeOK'
    BY <1>1, <1>2, <1>4, DeskTypes DEF DeskTypeOK, CaseInv, CaseTables, Exists
  <1>10. \A u \in Users : \A a \in Own(u) : inbox[u][a].born <= served'
    <2>1. \A u \in Users : \A a \in Own(u) : inbox[u][a].born \in Nat /\ inbox[u][a].born <= served
      BY DeskTypes DEF Own, Notification, DeskInv, InboxInv
    <2> QED
      BY <1>2, <2>1, DeskTypes
  <1>11. RaisesAlone'
    <2>1. RaisesAlone
      BY DEF DeskInv, InboxInv
    <2>2. ASSUME NEW j \in Calls \ {k}, call[j] # Idle, call[j].kind = "raise", r.kind = "raise"
          PROVE  call[j].alert # r.alert
      BY <2>2
    <2> QED
      BY <1>5, <2>1, <2>2 DEF RaisesAlone
  <1> QED
    BY <1>2, <1>4, <1>5, <1>6, <1>8, <1>9, <1>10, <1>11 DEF DeskInv, InboxInv, ReadKnowingly

LEMMA RaiseJoins ==
    ASSUME DeskInv, UNCHANGED caseVars, NEW k \in Calls, NEW a \in Alerts, NEW c \in Cases,
           Raise(k, a, c)
    PROVE  DeskInv'
  <1> DEFINE r == [kind |-> "raise", alert |-> a, case |-> c, told |-> CaseMembers(c)]
  <1>1. ~Raised(a) /\ Exists(c) /\ Calling(k, r)
        /\ \A j \in Calls : call[j] # Idle => call[j].alert # a
    BY DEF Raise
  <1>2. CaseMembers(c) \subseteq Users
    BY <1>1, DeskTypes, CaseIs DEF CaseMembers, TypeOK, Case
  <1>3. r.kind = "raise" /\ r.alert = a /\ r.case = c /\ r.told = CaseMembers(c)
    OBVIOUS
  <1> HIDE DEF r
  <1>4. CallRight(r)
    BY <1>1, <1>2, <1>3 DEF CallRight
  <1> QED
    BY <1>1, <1>3, <1>4, CallJoins

(* A verdict writes its own columns, and its own user's name. *)
LEMMA VerdictJoins ==
    ASSUME DeskInv, UNCHANGED caseVars, NEW k \in Calls, NEW u \in Users, NEW a \in Alerts,
           NEW verdict \in Verdicts, GiveVerdict(k, u, a, verdict)
    PROVE  DeskInv'
  <1> DEFINE row == alert[a]
             want == Stamped(row, u, verdict)
             set == Changes(row, want, DOMAIN row, {})
             r == [kind |-> "verdict", alert |-> a, user |-> u, verdict |-> verdict, set |-> set]
  <1>1. Raised(a) /\ Calling(k, r)
    BY DEF GiveVerdict
  <1>2. row \in Alert
    BY <1>1, DeskTypes DEF Raised
  <1>3. /\ DOMAIN row = {"case", "status", "acknowledged_by", "resolved_by"}
        /\ want["case"] = row["case"] /\ want["status"] \in Verdicts
        /\ want["acknowledged_by"] = row["acknowledged_by"] \/ want["acknowledged_by"] \in Users
        /\ want["resolved_by"] = row["resolved_by"] \/ want["resolved_by"] \in Users
        /\ \/ want["acknowledged_by"] = row["acknowledged_by"]
           \/ verdict = "acknowledged" /\ want["acknowledged_by"] = u
        /\ \/ want["resolved_by"] = row["resolved_by"]
           \/ verdict = "resolved" /\ want["resolved_by"] = u
    BY <1>2 DEF Alert, Verdicts, Stamped
  <1>4. /\ \A d : d \in DOMAIN set <=> d \in DOMAIN row /\ want[d] # row[d]
        /\ \A d \in DOMAIN set : set[d] = want[d]
    BY DEF Changes
  <1>5. r.kind = "verdict" /\ r.alert = a /\ r.set = set /\ r.user = u /\ r.verdict = verdict
    OBVIOUS
  <1> HIDE DEF row, want, set, r
  <1>6. VerdictSet(set)
    BY <1>3, <1>4 DEF VerdictSet
  <1>7. OwnName(r)
    BY <1>3, <1>4, <1>5 DEF OwnName
  <1>8. CallRight(r)
    BY <1>1, <1>5, <1>6, <1>7 DEF CallRight
  <1> QED
    BY <1>1, <1>5, <1>8, CallJoins

LEMMA MarkingJoins ==
    ASSUME DeskInv, UNCHANGED caseVars, NEW k \in Calls, NEW u \in Users, NEW rows,
           rows \subseteq Own(u), Marking(k, u, rows)
    PROVE  DeskInv'
  <1> DEFINE r == [kind |-> "mark", alert |-> NoRow, user |-> u, rows |-> rows, began |-> served + 1]
  <1>1. Calling(k, r) /\ served < MaxServed
    BY DEF Marking, Calling
  <1>2. r.kind = "mark" /\ r.user = u /\ r.rows = rows /\ r.began = served + 1
    OBVIOUS
  <1>3. served + 1 \in 1..MaxServed
    BY <1>1, DeskTypes
  <1>4. \A a \in Own(u) : Raised(a) /\ a \in Alerts
    BY DeskTypes DEF Own, DeskTypeOK, Raised
  <1>5. \A a \in Own(u) : inbox[u][a].born < served + 1
    <2>1. \A a \in Own(u) : inbox[u][a].born \in Nat /\ inbox[u][a].born <= served
      BY DeskTypes DEF Own, Notification, DeskInv, InboxInv
    <2> QED
      BY <2>1, DeskTypes
  <1> HIDE DEF r
  <1>6. CallRight(r)
    BY <1>2, <1>3, <1>4, <1>5 DEF CallRight
  <1> QED
    BY <1>1, <1>2, <1>6, CallJoins

LEMMA ClearingJoins ==
    ASSUME DeskInv, UNCHANGED caseVars, NEW k \in Calls, NEW u \in Users, NEW a \in Alerts,
           ArchiveNotification(k, u, a) \/ DeleteNotification(k, u, a)
    PROVE  DeskInv'
  <1>1. PICK kind \in {"archive", "delete"}, rows \in SUBSET {a} :
          Calling(k, [kind |-> kind, alert |-> NoRow, user |-> u, rows |-> rows])
    <2>1. CASE ArchiveNotification(k, u, a)
      <3>1. {b \in {a} : ~inbox[u][b].archived} \in SUBSET {a}
        OBVIOUS
      <3> QED
        BY <2>1, <3>1 DEF ArchiveNotification
    <2>2. CASE DeleteNotification(k, u, a)
      <3>1. {a} \in SUBSET {a}
        OBVIOUS
      <3> QED
        BY <2>2, <3>1 DEF DeleteNotification
    <2> QED
      BY <2>1, <2>2
  <1> DEFINE r == [kind |-> kind, alert |-> NoRow, user |-> u, rows |-> rows]
  <1>2. r.kind = kind /\ r.user = u /\ r.rows = rows
    OBVIOUS
  <1>3. Raised(a)
    BY DeskTypes DEF ArchiveNotification, DeleteNotification, Own, DeskTypeOK, Raised
  <1>4. Calling(k, r)
    BY <1>1
  <1> HIDE DEF r
  <1>5. CallRight(r)
    BY <1>1, <1>2, <1>3 DEF CallRight
  <1> QED
    BY <1>1, <1>2, <1>4, <1>5, CallJoins

-----------------------------------------------------------------------------
(* Answers. *)

(* The answer changes tables and calls; what the invariant still needs to  *)
(* hear of both.                                                           *)
LEMMA AnswerStays ==
    ASSUME DeskInv, UNCHANGED caseVars, UNCHANGED served, NEW k \in Calls,
           call' = [call EXCEPT ![k] = Idle],
           alert' \in [Alerts -> Alert \cup {NoRow}],
           inbox' \in [Users -> [Alerts -> Notification \cup {NoRow}]],
           \A a \in Alerts : Raised(a)' => Exists(alert'[a].case),
           \A u \in Users, a \in Alerts : inbox'[u][a] # NoRow =>
              /\ Raised(a)' /\ inbox'[u][a].born <= served
              /\ inbox'[u][a].read # 0 => inbox'[u][a].read > inbox'[u][a].born,
           \A x \in Ringing : (\E j \in Calls \ {k} : x = call[j]) => CallRight(x)'
    PROVE  DeskInv'
  <1>1. UNCHANGED <<case, team, task, note, log, year, req, byHand, straddled, overlaid>>
    BY DEF caseVars
  <1>2. CaseInv'
    <2>1. year' \in Years /\ served' \in 0..MaxServed
      BY <1>1, DeskTypes DEF TypeOK
    <2> QED
      BY <1>1, <2>1, DeskTypes, CaseTypes, TablesStay
  <1>3. /\ DOMAIN call' = Calls /\ call'[k] = Idle
        /\ \A j \in Calls \ {k} : call'[j] = call[j]
    BY DeskTypes
  <1>4. DeskTypeOK'
    BY <1>1, <1>2 DEF DeskTypeOK, CaseInv, CaseTables, Raised, Exists
  <1>5. \A u \in Users : \A a \in Own(u)' :
          /\ inbox'[u][a].born <= served'
          /\ inbox'[u][a].read # 0 => inbox'[u][a].read > inbox'[u][a].born
    BY DEF Own
  <1>6. \A x \in Ringing' : CallRight(x)'
    BY <1>3 DEF Ringing
  <1>7. RaisesAlone'
    BY <1>3 DEF DeskInv, InboxInv, RaisesAlone
  <1> QED
    BY <1>2, <1>3, <1>4, <1>5, <1>6, <1>7 DEF DeskInv, InboxInv, ReadKnowingly

(* The match task commits: nobody has heard of the alert before. *)
LEMMA FanOutAnswers ==
    ASSUME DeskInv, UNCHANGED caseVars, NEW k \in Calls, Replies(k), call[k].kind = "raise"
    PROVE  DeskInv'
  <1>1. PICK r : r = call[k]
    OBVIOUS
  <1>2. /\ r # Idle /\ FanOut(k) /\ UNCHANGED served /\ call' = [call EXCEPT ![k] = Idle]
        /\ CallRight(r) /\ r.kind = "raise"
    BY <1>1, DeskTypes DEF Replies
  <1>3. r.alert \in Alerts /\ ~Raised(r.alert) /\ r.case \in Cases /\ Exists(r.case)
        /\ r.told \subseteq Users
    BY <1>2 DEF CallRight
  <1> DEFINE new == [case |-> r.case, status |-> "new", acknowledged_by |-> NoRow, resolved_by |-> NoRow]
             told == [born |-> served, read |-> 0, archived |-> FALSE]
  <1>4. new \in Alert /\ new.case = r.case /\ told \in Notification
        /\ told.born = served /\ told.read = 0
    BY <1>3, DeskTypes DEF Alert, Notification
  <1>5. alert' = [alert EXCEPT ![r.alert] = new]
        /\ inbox' = [u \in Users |-> IF u \in r.told THEN [inbox[u] EXCEPT ![r.alert] = told]
                                      ELSE inbox[u]]
    BY <1>1, <1>2 DEF FanOut
  <1> HIDE DEF new, told
  <1>6. alert' \in [Alerts -> Alert \cup {NoRow}]
    BY <1>3, <1>4, <1>5, DeskTypes
  <1>7. inbox' \in [Users -> [Alerts -> Notification \cup {NoRow}]]
    BY <1>3, <1>4, <1>5, DeskTypes
  <1>8. /\ \A a \in Alerts : alert'[a] = IF a = r.alert THEN new ELSE alert[a]
        /\ \A u \in Users, a \in Alerts :
             inbox'[u][a] = IF a = r.alert /\ u \in r.told THEN told ELSE inbox[u][a]
    BY <1>3, <1>5, DeskTypes
  <1>9. new # NoRow /\ told # NoRow
    BY <1>4, AlertAssumption
  <1>10. \A a \in Alerts : Raised(a)' <=> Raised(a) \/ a = r.alert
    BY <1>8, <1>9 DEF Raised
  <1>11. \A a \in Alerts : Raised(a)' => Exists(alert'[a].case)
    BY <1>3, <1>4, <1>8, <1>10, DeskTypes DEF DeskTypeOK, Raised
  <1>12. \A u \in Users : inbox[u][r.alert] = NoRow
    BY <1>3, DeskTypes DEF DeskTypeOK, Raised
  <1>13. ASSUME NEW u \in Users, NEW a \in Alerts, inbox'[u][a] # NoRow
         PROVE  /\ Raised(a)' /\ inbox'[u][a].born <= served
                /\ inbox'[u][a].read # 0 => inbox'[u][a].read > inbox'[u][a].born
    <2>1. CASE a = r.alert
      BY <1>4, <1>8, <1>10, <1>12, <1>13, <2>1, DeskTypes
    <2>2. CASE a # r.alert
      <3>1. inbox'[u][a] = inbox[u][a] /\ a \in Own(u)
        BY <1>8, <1>13, <2>2 DEF Own
      <3> QED
        BY <1>10, <3>1, DeskTypes DEF DeskTypeOK, DeskInv, InboxInv, ReadKnowingly, Own, Raised
    <2> QED
      BY <2>1, <2>2
  <1>14. ASSUME NEW j \in Calls \ {k}, NEW x \in Ringing, x = call[j]
         PROVE  CallRight(x)'
    <2>1. CallRight(x) /\ x # Idle
      BY <1>14, DeskTypes DEF Ringing
    <2>2. x.kind = "raise" => x.alert # r.alert
      BY <1>1, <1>2, <1>14, <2>1 DEF DeskInv, InboxInv, RaisesAlone
    <2>3. \A c : Exists(c)' = Exists(c)
      BY DEF caseVars, Exists
    <2>4. x.kind \in {"mark", "archive", "delete"} =>
            \A a \in x.rows : a # r.alert /\ inbox'[x.user][a] = inbox[x.user][a]
      BY <1>3, <1>8, <2>1 DEF CallRight
    <2>5. x.kind = "mark" => x.rows \cap Own(x.user)' = x.rows \cap Own(x.user)
      BY <2>4 DEF Own
    <2> QED
      BY <1>10, <2>1, <2>2, <2>3, <2>4, <2>5 DEF CallRight
  <1> QED
    BY <1>2, <1>6, <1>7, <1>11, <1>13, <1>14, AnswerStays

LEMMA AlertOver ==
    ASSUME NEW row \in Alert, NEW set, VerdictSet(set)
    PROVE  LET new == Over(row, set) IN
           /\ new \in Alert /\ new.case = row.case
           /\ \/ new.acknowledged_by = row.acknowledged_by
              \/ "acknowledged_by" \in DOMAIN set /\ new.acknowledged_by = set["acknowledged_by"]
           /\ \/ new.resolved_by = row.resolved_by
              \/ "resolved_by" \in DOMAIN set /\ new.resolved_by = set["resolved_by"]
  <1> DEFINE new == Over(row, set)
             Fields == {"case", "status", "acknowledged_by", "resolved_by"}
  <1>1. DOMAIN row = Fields /\ DOMAIN new = Fields
    BY DEF Alert, Over
  <1>2. \A d \in Fields : new[d] = IF d \in DOMAIN set THEN set[d] ELSE row[d]
    BY <1>1 DEF Over
  <1>3. new = [d \in Fields |-> new[d]]
    BY <1>1 DEF Over
  <1> HIDE DEF new
  <1>4. /\ new.case = row.case
        /\ new.status \in Verdicts \/ new.status = row.status
        /\ new.acknowledged_by \in Users \/ new.acknowledged_by = row.acknowledged_by
        /\ new.resolved_by \in Users \/ new.resolved_by = row.resolved_by
    BY <1>2 DEF VerdictSet
  <1>5. new \in Alert
    BY <1>3, <1>4 DEF Alert
  <1> QED
    BY <1>2, <1>4, <1>5 DEF new

(* What a step does to the names on alerts. *)
NamesStand ==
    \A a \in Alerts : Raised(a) =>
        /\ \/ alert'[a].acknowledged_by = alert[a].acknowledged_by
           \/ Answers(a, "acknowledged", alert'[a].acknowledged_by)
        /\ \/ alert'[a].resolved_by = alert[a].resolved_by
           \/ Answers(a, "resolved", alert'[a].resolved_by)

LEMMA VerdictAnswers ==
    ASSUME DeskInv, UNCHANGED caseVars, NEW k \in Calls, Replies(k), call[k].kind = "verdict"
    PROVE  DeskInv' /\ NamesStand
  <1>1. PICK r : r = call[k]
    OBVIOUS
  <1>2. /\ alert' = [alert EXCEPT ![r.alert] = Over(@, r.set)] /\ UNCHANGED inbox
        /\ UNCHANGED served /\ call' = [call EXCEPT ![k] = Idle]
        /\ CallRight(r) /\ r.kind = "verdict"
    BY <1>1, DeskTypes DEF Replies
  <1>3. r.alert \in Alerts /\ Raised(r.alert) /\ VerdictSet(r.set) /\ OwnName(r)
    BY <1>2 DEF CallRight
  <1>4. alert[r.alert] \in Alert
    BY <1>3, DeskTypes DEF Raised
  <1>5. PICK new : new = Over(alert[r.alert], r.set)
    OBVIOUS
  <1>6. /\ new \in Alert /\ new.case = alert[r.alert].case
        /\ \/ new.acknowledged_by = alert[r.alert].acknowledged_by
           \/ r.verdict = "acknowledged" /\ new.acknowledged_by = r.user
        /\ \/ new.resolved_by = alert[r.alert].resolved_by
           \/ r.verdict = "resolved" /\ new.resolved_by = r.user
    BY <1>3, <1>4, <1>5, AlertOver DEF OwnName
  <1>7. \A a \in Alerts : alert'[a] = IF a = r.alert THEN new ELSE alert[a]
    BY <1>2, <1>5, DeskTypes
  <1>8. alert' \in [Alerts -> Alert \cup {NoRow}]
    BY <1>2, <1>5, <1>6, DeskTypes
  <1>9. \A a \in Alerts : Raised(a)' <=> Raised(a)
    BY <1>3, <1>6, <1>7, AlertAssumption DEF Raised
  <1>10. \A a \in Alerts : Raised(a)' => Exists(alert'[a].case)
    BY <1>6, <1>7, <1>9, DeskTypes DEF DeskTypeOK, Raised
  <1>11. ASSUME NEW u \in Users, NEW a \in Alerts, inbox'[u][a] # NoRow
         PROVE  /\ Raised(a)' /\ inbox'[u][a].born <= served
                /\ inbox'[u][a].read # 0 => inbox'[u][a].read > inbox'[u][a].born
    <2>1. inbox'[u][a] = inbox[u][a] /\ a \in Own(u)
      BY <1>2, <1>11 DEF Own
    <2> QED
      BY <1>9, <2>1, DeskTypes DEF DeskTypeOK, DeskInv, InboxInv, ReadKnowingly, Own, Raised
  <1>12. ASSUME NEW j \in Calls \ {k}, NEW x \in Ringing, x = call[j]
         PROVE  CallRight(x)'
    <2>1. CallRight(x)
      BY <1>12, DeskTypes DEF Ringing
    <2>2. (\A c : Exists(c)' = Exists(c)) /\ (\A u : Own(u)' = Own(u))
      BY <1>2 DEF caseVars, Exists, Own
    <2> QED
      BY <1>2, <1>9, <2>1, <2>2 DEF CallRight
  <1>13. DeskInv'
    BY <1>2, <1>8, <1>10, <1>11, <1>12, DeskTypes, AnswerStays
  <1>14. \A verdict, u : r.verdict = verdict /\ r.user = u => Answers(r.alert, verdict, u)
    BY <1>1, <1>2, DeskTypes DEF Answers, Replies
  <1>15. NamesStand
    BY <1>6, <1>7, <1>14 DEF NamesStand
  <1> QED
    BY <1>13, <1>15

(* What an answer does to each notification. *)
LEMMA AppliedIs ==
    ASSUME DeskInv, NEW r, r.kind \in {"mark", "archive", "delete"}, r.user \in Users, Applied(r),
           r.kind = "mark" => r.began \in 1..MaxServed
    PROVE  /\ inbox' \in [Users -> [Alerts -> Notification \cup {NoRow}]]
           /\ \A u \in Users, a \in Alerts : inbox'[u][a] # NoRow =>
                /\ inbox[u][a] # NoRow /\ inbox'[u][a].born = inbox[u][a].born
                /\ \/ inbox'[u][a].read = inbox[u][a].read
                   \/ u = r.user /\ r.kind = "mark" /\ a \in r.rows /\ inbox'[u][a].read = r.began
  <1>1. /\ DOMAIN inbox' = Users
        /\ \A u \in Users : u # r.user => inbox'[u] = inbox[u]
        /\ inbox'[r.user] = [a \in Alerts |-> IF inbox[r.user][a] # NoRow
                                              THEN NewRow(r, a, inbox[r.user][a]) ELSE NoRow]
    BY DeskTypes DEF Applied
  <1>2. ASSUME NEW a, NEW row \in Notification
        PROVE  \/ NewRow(r, a, row) = NoRow
               \/ /\ NewRow(r, a, row) \in Notification /\ NewRow(r, a, row).born = row.born
                  /\ \/ NewRow(r, a, row).read = row.read
                     \/ r.kind = "mark" /\ a \in r.rows /\ NewRow(r, a, row).read = r.began
    <2>1. CASE r.kind = "mark" /\ a \in r.rows
      <3>1. NewRow(r, a, row) = [row EXCEPT !.read = r.began]
        BY <2>1 DEF NewRow, Marked
      <3>2. r.began \in 0..MaxServed
        BY <2>1, DeskTypes
      <3> QED
        BY <2>1, <3>1, <3>2 DEF Notification
    <2>2. CASE r.kind = "archive" /\ a \in r.rows
      <3>1. NewRow(r, a, row) = [row EXCEPT !.archived = TRUE]
        BY <2>2 DEF NewRow
      <3> QED
        BY <3>1 DEF Notification
    <2>3. CASE r.kind = "delete" /\ a \in r.rows
      BY <2>3 DEF NewRow
    <2>4. CASE a \notin r.rows
      BY <2>4 DEF NewRow, Marked
    <2> QED
      BY <2>1, <2>2, <2>3, <2>4
  <1>3. ASSUME NEW u \in Users, NEW a \in Alerts
        PROVE  /\ inbox'[u][a] \in Notification \cup {NoRow}
               /\ inbox'[u][a] # NoRow =>
                    /\ inbox[u][a] # NoRow /\ inbox'[u][a].born = inbox[u][a].born
                    /\ \/ inbox'[u][a].read = inbox[u][a].read
                       \/ /\ u = r.user /\ r.kind = "mark" /\ a \in r.rows
                          /\ inbox'[u][a].read = r.began
    BY <1>1, <1>2, DeskTypes
  <1>4. \A u \in Users : inbox'[u] = [a \in Alerts |-> inbox'[u][a]]
    BY <1>1, DeskTypes
  <1>5. inbox' \in [Users -> [Alerts -> Notification \cup {NoRow}]]
    <2>1. inbox' = [u \in Users |-> inbox'[u]]
      BY DeskTypes DEF Applied
    <2>2. \A u \in Users : inbox'[u] \in [Alerts -> Notification \cup {NoRow}]
      BY <1>3, <1>4
    <2> QED
      BY <2>1, <2>2
  <1> QED
    BY <1>3, <1>5

LEMMA ClearAnswers ==
    ASSUME DeskInv, UNCHANGED caseVars, UNCHANGED <<alert, served>>, NEW k \in Calls,
           call' = [call EXCEPT ![k] = Idle], call[k] # Idle,
           UNCHANGED inbox \/ (call[k].kind \in {"mark", "archive", "delete"} /\ Applied(call[k]))
    PROVE  DeskInv'
  <1>1. PICK r : r = call[k]
    OBVIOUS
  <1>2. CallRight(r)
    BY <1>1, DeskTypes
  <1>3. /\ inbox' \in [Users -> [Alerts -> Notification \cup {NoRow}]]
        /\ \A u \in Users, a \in Alerts : inbox'[u][a] # NoRow =>
             /\ inbox[u][a] # NoRow /\ inbox'[u][a].born = inbox[u][a].born
             /\ \/ inbox'[u][a].read = inbox[u][a].read
                \/ u = r.user /\ r.kind = "mark" /\ a \in r.rows /\ inbox'[u][a].read = r.began
    <2>1. CASE UNCHANGED inbox
      BY <2>1, DeskTypes
    <2>2. CASE r.kind \in {"mark", "archive", "delete"} /\ Applied(r)
      <3>1. r.user \in Users /\ (r.kind = "mark" => r.began \in 1..MaxServed)
        BY <1>2, <2>2 DEF CallRight
      <3> QED
        BY <2>2, <3>1, AppliedIs
    <2> QED
      BY <1>1, <2>1, <2>2
  <1>4. ASSUME NEW u \in Users, NEW a \in Alerts, inbox'[u][a] # NoRow
        PROVE  /\ Raised(a)' /\ inbox'[u][a].born <= served
               /\ inbox'[u][a].read # 0 => inbox'[u][a].read > inbox'[u][a].born
    <2>1. /\ a \in Own(u) /\ Raised(a)' /\ inbox[u][a].born <= served
          /\ inbox[u][a] \in Notification
          /\ inbox[u][a].read # 0 => inbox[u][a].read > inbox[u][a].born
      BY <1>3, <1>4, DeskTypes DEF Own, DeskTypeOK, Raised, DeskInv, InboxInv, ReadKnowingly
    <2>2. CASE inbox'[u][a].read = inbox[u][a].read
      BY <1>3, <1>4, <2>1, <2>2
    <2>3. CASE u = r.user /\ r.kind = "mark" /\ a \in r.rows /\ inbox'[u][a].read = r.began
      <3>1. inbox[u][a].born < r.began /\ r.began \in Nat /\ inbox[u][a].born \in Nat
        BY <1>2, <2>1, <2>3, DeskTypes DEF CallRight, Notification
      <3> QED
        BY <1>3, <1>4, <2>1, <2>3, <3>1
    <2> QED
      BY <1>3, <1>4, <2>2, <2>3
  <1>5. ASSUME NEW j \in Calls \ {k}, NEW x \in Ringing, x = call[j]
        PROVE  CallRight(x)'
    <2>1. CallRight(x)
      BY <1>5, DeskTypes DEF Ringing
    <2>2. (\A c : Exists(c)' = Exists(c)) /\ (\A a : Raised(a)' = Raised(a))
      BY DEF caseVars, Exists, Raised
    <2>3. x.kind = "mark" => \A a \in x.rows \cap Own(x.user)' : inbox'[x.user][a].born < x.began
      <3> SUFFICES ASSUME x.kind = "mark", NEW a \in x.rows \cap Own(x.user)'
                   PROVE  inbox'[x.user][a].born < x.began
        OBVIOUS
      <3>1. x.user \in Users /\ a \in Alerts /\ inbox'[x.user][a] # NoRow
        BY <2>1 DEF CallRight, Own
      <3>2. inbox'[x.user][a].born = inbox[x.user][a].born /\ a \in Own(x.user)
        BY <1>3, <3>1 DEF Own
      <3> QED
        BY <2>1, <3>2 DEF CallRight
    <2> QED
      BY <2>1, <2>2, <2>3 DEF CallRight
  <1>6. \A a \in Alerts : Raised(a)' => Exists(alert'[a].case)
    BY DeskTypes DEF DeskTypeOK, Raised
  <1>7. alert' \in [Alerts -> Alert \cup {NoRow}]
    BY DeskTypes
  <1> QED
    BY <1>3, <1>4, <1>5, <1>6, <1>7, AnswerStays

LEMMA DeskInvStays ==
    ASSUME DeskInv, [DeskNext]_<<vars, inboxVars>>
    PROVE  DeskInv' /\ NamesStand
  <1>1. CASE Next /\ UNCHANGED inboxVars
    <2>1. CaseInv' /\ CasesStay
      BY <1>1, DeskTypes, CaseInvStays
    <2> QED
      BY <1>1, <2>1, CasesBeside DEF inboxVars, NamesStand
  <1>2. CASE UNCHANGED <<vars, inboxVars>>
    <2>1. UNCHANGED <<case, team, task, note, log, byHand, straddled, overlaid, year, served, req>>
      BY <1>2 DEF vars
    <2>2. year' \in Years /\ served' \in 0..MaxServed
      BY <2>1, DeskTypes DEF TypeOK
    <2>3. CaseInv'
      BY <2>1, <2>2, DeskTypes, CaseTypes, TablesStay
    <2>4. CasesStay
      BY <2>1, DeskTypes DEF CasesStay, Exists
    <2> QED
      BY <1>2, <2>3, <2>4, CasesBeside DEF inboxVars, NamesStand
  <1>3. ASSUME UNCHANGED caseVars, NEW k \in Calls, Replies(k)
        PROVE  DeskInv' /\ NamesStand
    <2>1. CASE call[k].kind = "raise"
      <3>1. ASSUME NEW a \in Alerts, Raised(a)
            PROVE  alert'[a] = alert[a]
        <4>1. ~Raised(call[k].alert)
          BY <1>3, <2>1, DeskTypes DEF Replies, CallRight
        <4> QED
          BY <1>3, <2>1, <3>1, <4>1, DeskTypes DEF Replies, FanOut
      <3> QED
        BY <1>3, <2>1, <3>1, FanOutAnswers DEF NamesStand
    <2>2. CASE call[k].kind = "verdict"
      BY <1>3, <2>2, VerdictAnswers
    <2>3. CASE call[k].kind \in {"mark", "archive", "delete"}
      <3>1. /\ Applied(call[k]) /\ UNCHANGED <<alert, served>> /\ call[k] # Idle
            /\ call' = [call EXCEPT ![k] = Idle]
        BY <1>3, <2>3 DEF Replies
      <3> QED
        BY <1>3, <2>3, <3>1, ClearAnswers DEF NamesStand
    <2> QED
      BY <1>3, <2>1, <2>2, <2>3 DEF Replies
  <1>4. ASSUME UNCHANGED caseVars, NEW k \in Calls, Misfires(k)
        PROVE  DeskInv' /\ NamesStand
    BY <1>4, ClearAnswers DEF Misfires, NamesStand
  <1>5. ASSUME UNCHANGED caseVars, NEW k \in Calls, NEW a \in Alerts, NEW c \in Cases, Raise(k, a, c)
        PROVE  DeskInv' /\ NamesStand
    BY <1>5, RaiseJoins DEF Raise, Calling, NamesStand
  <1>6. ASSUME UNCHANGED caseVars, NEW k \in Calls, NEW u \in Users, AlertRoutes(k, u)
        PROVE  DeskInv' /\ NamesStand
    BY <1>6, VerdictJoins DEF AlertRoutes, GiveVerdict, Calling, NamesStand
  <1>7. ASSUME UNCHANGED caseVars, NEW k \in Calls, NEW u \in Users, InboxRoutes(k, u)
        PROVE  DeskInv' /\ NamesStand
    <2>1. UNCHANGED alert
      BY <1>7 DEF InboxRoutes, MarkAllRead, MarkRead, Marking, ArchiveNotification,
                  DeleteNotification, Calling
    <2>2. ASSUME NEW a \in Alerts, MarkRead(k, u, a)
          PROVE  DeskInv'
      <3>1. {a} \cap Unread(u) \subseteq Own(u) /\ Marking(k, u, {a} \cap Unread(u))
        BY <2>2 DEF MarkRead, Unread
      <3> QED
        BY <1>7, <3>1, MarkingJoins
    <2>3. ASSUME MarkAllRead(k, u)
          PROVE  DeskInv'
      <3>1. Unread(u) \subseteq Own(u) /\ Marking(k, u, Unread(u))
        BY <2>3 DEF MarkAllRead, Unread
      <3> QED
        BY <1>7, <3>1, MarkingJoins
    <2> QED
      BY <1>7, <2>1, <2>2, <2>3, ClearingJoins DEF InboxRoutes, NamesStand
  <1> QED
    BY <1>1, <1>2, <1>3, <1>4, <1>5, <1>6, <1>7 DEF DeskNext, InboxNext

-----------------------------------------------------------------------------
(* The theorems. *)

LEMMA DeskInvariant == DeskSpec => []DeskInv
  <1>1. DeskInit => DeskInv
    BY CaseInit, InboxInitRight DEF DeskInit, DeskInv
  <1>2. DeskInv /\ [DeskNext]_<<vars, inboxVars>> => DeskInv'
    BY DeskInvStays
  <1> QED
    BY <1>1, <1>2, PTL DEF DeskSpec

(* Rows keep their types and their references, and no two cases share a    *)
(* number, whatever requests overlap (Create, Commit, FanOut).             *)
THEOREM TypeCorrect == DeskSpec => []DeskTypeOK
  <1>1. DeskInv => DeskTypeOK
    BY DEF DeskInv, InboxInv
  <1> QED
    BY <1>1, DeskInvariant, PTL

(* The next reference number is free unless a creation straddled a year    *)
(* (generate_reference_number).                                            *)
THEOREM NumbersAlwaysFree == DeskSpec => []NextNumberFree
  <1>1. ASSUME DeskInv, ~straddled, NEW c \in Filed
        PROVE  case[c].number # NextNumber
    <2>1. case[c] \in Case /\ case[c].created \in Years
      BY <1>1, DeskTypes, CaseIs DEF Filed, Case
    <2>2. NumberWithin(case[c], Count(case[c].created))
      BY <1>1, <2>1 DEF DeskInv, CaseInv, NumbersRight
    <2>3. Count(year) \in Nat
      <3>1. {d \in Filed : case[d].created = year} \subseteq Cases
        BY DEF Filed
      <3> QED
        BY <3>1, CaseAssumption, FS_Subset, FS_CardinalityType DEF Count
    <2>4. NextNumber = <<year, Count(year) + 1>>
      BY DEF NextNumber, Count
    <2>5. case[c].number[2] \in Nat
      BY <2>1 DEF Case
    <2> QED
      BY <2>2, <2>3, <2>4, <2>5 DEF NumberWithin
  <1>2. DeskInv => NextNumberFree
    BY <1>1 DEF NextNumberFree
  <1> QED
    BY <1>2, DeskInvariant, PTL

(* Archive and status move together, a completion is dated and logged once *)
(* (archive, restore, update, update_task).                                *)
THEOREM FlagsAlwaysAgree == DeskSpec => []CaseFlagsAgree
  <1>1. DeskInv => CaseFlagsAgree
    BY DEF DeskInv, CaseInv, FlagsRight, CompletionsRight, CaseFlagsAgree
  <1> QED
    BY <1>1, DeskInvariant, PTL

(* Nobody has read what came after they asked (mark_all_read).             *)
THEOREM AlwaysReadKnowingly == DeskSpec => []ReadKnowingly
  <1>1. DeskInv => ReadKnowingly
    BY DEF DeskInv, InboxInv
  <1> QED
    BY <1>1, DeskInvariant, PTL

(* The names on an alert are entered by their own users' requests, and by  *)
(* no other verdict that overlaps them (_transition).                      *)
THEOREM StampsAlwaysStay == DeskSpec => StampsStay
  <1>1. DeskInv /\ [DeskNext]_<<vars, inboxVars>> => [NamesStand]_alert
    BY DeskInvStays
  <1>2. DeskSpec => [][NamesStand]_alert
    BY <1>1, DeskInvariant, PTL DEF DeskSpec
  <1> QED
    BY <1>2 DEF StampsStay, NamesStand

=============================================================================
