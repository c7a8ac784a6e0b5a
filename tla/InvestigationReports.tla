------------------------ MODULE InvestigationReports ------------------------
(***************************************************************************)
(* The life of a case's investigation reports: ReportService and the       *)
(* investigation_reports table.  Requests run in parallel threads.  Each   *)
(* loads its row once and keeps that copy in the session: a commit writes  *)
(* the columns the copy changed, and the copy is not read again (sessions  *)
(* have expire_on_commit=False).  Generating commits twice, once before    *)
(* and once after the content is collected.                                *)
(***************************************************************************)
EXTENDS Naturals

CONSTANTS
    Ids,        \* primary keys of reports
    Requests,   \* requests in flight at a time
    Configs,    \* section and filter configurations
    Blank,      \* those of them in which every section is disabled
    Data,       \* what the case may hold when a section is collected
    Budget,     \* how often each operation may be requested
    Empty,      \* the content without any section, {}
    NoHash, NoId

Operations == {"create", "generate", "publish", "version", "delete", "export", "fault"}

ASSUME ReportAssumption ==
    /\ NoId \notin Ids
    /\ Blank \subseteq Configs
    /\ Empty \notin [config : Configs, data : Data]
    /\ NoHash \notin [config : Configs, data : Data] \cup {Empty}
    /\ Budget \in [Operations -> Nat]

VARIABLES
    report,    \* committed rows, by id
    exports,   \* export records: the report and the content that was rendered
    req,       \* per request: what it does next, and its copy of the row
    left,      \* requests still to come, by operation
    blanked    \* reports whose content was to be emptied and was not

vars == <<report, exports, req, left, blanked>>

Content == [config : Configs, data : Data] \cup {Empty}
Statuses == {"draft", "generating", "ready", "published"}
Columns == {"status", "version", "parent", "config", "content", "hash", "approved", "deleted"}

(* content_hash is the SHA-256 of the content, so it stands for the content *)
(* it was computed from.  A new report has an empty content and no hash.    *)
Row == [status : Statuses, version : Nat \ {0}, parent : Ids \cup {NoId}, config : Configs,
        content : Content, hash : Content \cup {NoHash}, approved : BOOLEAN, deleted : BOOLEAN]

Phases == {"begin", "collect", "publish", "delete"}
Idle == [phase |-> "idle"]
Job == [phase : Phases, id : Ids, old : Row, new : Row]

Known == DOMAIN report

(* Type invariant. *)
TypeOK ==
    /\ Known \subseteq Ids
    /\ \A i \in Known : report[i] \in Row
    /\ exports \subseteq [id : Ids, content : Content]
    /\ \A q \in Requests : req[q] \in Job \cup {Idle}
    /\ left \in [Operations -> Nat]
    /\ blanked \subseteq Known

Init ==
    /\ report = [i \in {} |-> {}]
    /\ exports = {}
    /\ req = [q \in Requests |-> Idle]
    /\ left = Budget
    /\ blanked = {}

-----------------------------------------------------------------------------

(* ReportService.get. *)
Live(i) == i \in Known /\ ~report[i].deleted

Take(op) ==
    /\ left[op] > 0
    /\ left' = [left EXCEPT ![op] = @ - 1]

(* A row is inserted.  Nobody knows its id before the response, so that    *)
(* the insert counts as one step with the reads it depends on.             *)
Insert(version, parent, config) ==
    /\ \E i \in Ids \ Known :
          report' = [x \in Known \cup {i} |->
                        IF x # i THEN report[x]
                        ELSE [status |-> "draft", version |-> version, parent |-> parent,
                              config |-> config, content |-> Empty, hash |-> NoHash,
                              approved |-> FALSE, deleted |-> FALSE]]
    /\ UNCHANGED <<exports, req, blanked>>

Create ==
    /\ Take("create")
    /\ \E config \in Configs : Insert(1, NoId, config)

(* The new version takes the parent's configuration unless it brings one.  *)
CreateNewVersion(i) ==
    /\ Live(i)
    /\ Take("version")
    /\ \E config \in Configs : Insert(report[i].version + 1, i, config)

(* A request loads row i and will change its copy to new. *)
Load(q, i, phase, new) ==
    /\ req[q] = Idle
    /\ req' = [req EXCEPT ![q] = [phase |-> phase, id |-> i, old |-> report[i], new |-> new]]
    /\ UNCHANGED <<report, exports, blanked>>

(* UPDATE sets the columns in which the copy differs from what was loaded; *)
(* a content equal to the loaded one is left out of it, whatever the row   *)
(* holds by then.                                                          *)
Write(i, old, new) ==
    [report EXCEPT ![i] = [c \in Columns |-> IF new[c] # old[c] THEN new[c] ELSE @[c]]]

(* The copy is written; next is what the request does after that.          *)
Save(q, next) ==
    /\ report' = Write(req[q].id, req[q].old, req[q].new)
    /\ req' = [req EXCEPT ![q] = next]
    /\ UNCHANGED <<exports, left, blanked>>

(* generate, first transaction: a report in any status may be regenerated. *)
Generate(q, i) ==
    /\ Live(i)
    /\ Take("generate")
    /\ \E config \in Configs :
          Load(q, i, "begin", [report[i] EXCEPT !.status = "generating", !.config = config])

BeginGeneration(q) ==
    /\ req[q].phase = "begin"
    /\ Save(q, [req[q] EXCEPT !.phase = "collect", !.old = req[q].new])

(* The enabled sections, each filled from what the case holds. *)
Collected(config, data) ==
    IF config \in Blank THEN Empty ELSE [config |-> config, data |-> data]

(* Slip: the hash of the previous content is kept. *)
FilledOldHash(row, data) ==
    [row EXCEPT !.status = "ready", !.content = Collected(row.config, data)]

Filled(row, data) ==
    LET content == Collected(row.config, data) IN
    [row EXCEPT !.status = "ready", !.content = content, !.hash = content]

(* Slip: a status that the lifecycle does not have. *)
FailedStatus(row) == [row EXCEPT !.status = "failed"]

(* Slip: only the error is recorded. *)
FailedSilently(row) == row

Failed(row) == [row EXCEPT !.status = "draft"]

(* The UPDATE from old to new writes the hash of no sections, but not the  *)
(* empty content, which is the one it had loaded; the row has another.     *)
Blanks(i, old, new) ==
    /\ new.content = Empty /\ old.content = Empty /\ report[i].content # Empty
    /\ new.hash # old.hash

(* generate, second transaction: the sections are filled from what the     *)
(* case holds by then, or a collector raised.                              *)
EndGeneration(q) ==
    /\ req[q].phase = "collect"
    /\ LET i == req[q].id  old == req[q].old IN
       \E new \in {Filled(old, data) : data \in Data} \cup {Failed(old)} :
          /\ report' = Write(i, old, new)
          /\ blanked' = IF Blanks(i, old, new) THEN blanked \cup {i} ELSE blanked
    /\ req' = [req EXCEPT ![q] = Idle]
    /\ UNCHANGED <<exports, left>>

(* Slip: a draft may be published, too. *)
PublishableDraft(i) == Live(i) /\ report[i].status \in {"draft", "ready"}

Publishable(i) == Live(i) /\ report[i].status = "ready"

Publish(q, i) ==
    /\ Publishable(i)
    /\ Take("publish")
    /\ Load(q, i, "publish", [report[i] EXCEPT !.status = "published", !.approved = TRUE])

Delete(q, i) ==
    /\ Live(i)
    /\ Take("delete")
    /\ Load(q, i, "delete", [report[i] EXCEPT !.deleted = TRUE])

(* publish and delete commit. *)
Commit(q) ==
    /\ req[q].phase \in {"publish", "delete"}
    /\ Save(q, Idle)

(* A report of any status may be exported (record_export). *)
Export(i) ==
    /\ Live(i)
    /\ Take("export")
    /\ exports' = exports \cup {[id |-> i, content |-> report[i].content]}
    /\ UNCHANGED <<report, req, blanked>>

(* The process dies, or a statement of the request fails in the database:  *)
(* the transaction rolls back.                                             *)
Abort(q) ==
    /\ req[q] # Idle
    /\ Take("fault")
    /\ req' = [req EXCEPT ![q] = Idle]
    /\ UNCHANGED <<report, exports, blanked>>

Proceed(q) == BeginGeneration(q) \/ EndGeneration(q) \/ Commit(q)

Next ==
    \/ Create
    \/ \E i \in Ids : CreateNewVersion(i) \/ Export(i)
    \/ \E q \in Requests, i \in Ids : Generate(q, i) \/ Publish(q, i) \/ Delete(q, i)
    \/ \E q \in Requests : Proceed(q) \/ Abort(q)

Spec == Init /\ [][Next]_vars

(* The threads of the API keep running. *)
FairSpec == Spec /\ \A q \in Requests : WF_vars(Proceed(q))

-----------------------------------------------------------------------------

(* No generation has ended yet. *)
New(row) == row.content = Empty /\ row.hash = NoHash

(* Once a report has been generated its hash is that of the stored content,*)
(* whichever generations and other requests overlap, except where the first*)
(* generation of a report ran with every section disabled and another      *)
(* stored its content before this one ended.                               *)
HashMatchesContent ==
    \A i \in Known \ blanked : New(report[i]) \/ report[i].hash = report[i].content

(* Only a report that was generated and approved is ever published, even   *)
(* when it is being regenerated at the same time.                          *)
PublishedIsComplete ==
    \A i \in Known : report[i].status = "published" =>
        report[i].hash # NoHash /\ report[i].approved

Generating(i) == i \in Known /\ report[i].status = "generating"

FaultFree == left["fault"] = Budget["fault"]

(* No report stays in "generating": the request that put it there, or one  *)
(* that overlapped with it, always ends in another status, as long as the  *)
(* process lives and the database answers.                                 *)
GenerationEnds == \A i \in Ids : Generating(i) ~> ~Generating(i) \/ ~FaultFree
=============================================================================
