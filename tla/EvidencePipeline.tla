------------------------- MODULE EvidencePipeline -------------------------
(***************************************************************************)
(* The asynchronous enrichment of an uploaded evidence item: the row in    *)
(* PostgreSQL, the Celery broker, the worker slots that run                *)
(* ProcessingPipeline.run inside a SQLAlchemy session, the watchlist task  *)
(* the pipeline enqueues, and the timeline ingest shared by the pipeline   *)
(* and by POST /timeline/ingest.                                           *)
(*                                                                         *)
(* A step of the model is what happens between two points at which another *)
(* process can see or disturb the run: a commit, a query, a message sent.  *)
(* One "batch" stands for all rows of a kind that one run adds.            *)
(***************************************************************************)
EXTENDS Naturals, FiniteSets

CONSTANTS
    Evidence,    \* evidence items of one case
    Textual,     \* those whose file yields text (native or OCR)
    Workers,     \* the slots of the worker (celery --concurrency=2)
    MaxRetries,  \* max_retries of each task kind
    Allowed,     \* how often each kind of trouble may happen
    NoTask       \* the task of an idle slot

Kinds == {"process", "match"}

(* crash: the worker container dies; childLoss: one forked child dies;     *)
(* redelivery: the broker's visibility timeout expires under a running     *)
(* task; dbError: a statement fails; sendFailure: the broker refuses a     *)
(* message; stageFailure: a stage raises and its except clause logs it;    *)
(* exception: an error no stage catches reaches run's handler; ingest: a   *)
(* user calls POST /timeline/ingest.                                       *)
Troubles == {"crash", "childLoss", "redelivery", "dbError", "sendFailure",
             "stageFailure", "exception", "ingest"}

ASSUME PipelineAssumption ==
    /\ Textual \subseteq Evidence
    /\ IsFiniteSet(Workers)
    /\ MaxRetries \in [Kinds -> Nat]
    /\ Allowed \in [Troubles -> Nat]

Message == UNION {[kind : {k}, ev : Evidence, tries : 0 .. MaxRetries[k]] : k \in Kinds}

ASSUME NoTaskAssumption == NoTask \notin Message

(* Slips in the chain of statuses: a status the pipeline never leaves, and *)
(* a run that skips the timeline.                                          *)
NextStageToHashing ==
    [METADATA_EXTRACTION |-> "OCR_QUEUE", OCR_QUEUE |-> "AI_QUEUE",
     AI_QUEUE |-> "TIMELINE_QUEUE", TIMELINE_QUEUE |-> "HASHING",
     GRAPH_QUEUE |-> "INDEXED", INDEXED |-> "COMPLETED"]

NextStageSkipping ==
    [METADATA_EXTRACTION |-> "OCR_QUEUE", OCR_QUEUE |-> "AI_QUEUE",
     AI_QUEUE |-> "GRAPH_QUEUE", TIMELINE_QUEUE |-> "GRAPH_QUEUE",
     GRAPH_QUEUE |-> "INDEXED", INDEXED |-> "COMPLETED"]

(* The order in which _run_pipeline walks through the statuses.            *)
NextStage ==
    [METADATA_EXTRACTION |-> "OCR_QUEUE",
     OCR_QUEUE           |-> "AI_QUEUE",
     AI_QUEUE            |-> "TIMELINE_QUEUE",
     TIMELINE_QUEUE      |-> "GRAPH_QUEUE",
     GRAPH_QUEUE         |-> "INDEXED",
     INDEXED             |-> "COMPLETED"]

Stage == DOMAIN NextStage \cup {"COMPLETED"}
Status == Stage \cup {"ABSENT", "FAILED"}
Terminal == {"COMPLETED", "FAILED"}

TimelineRow == [id : Nat, origin : Nat, ev : Evidence]

VARIABLES
    row,         \* committed Evidence row with its committed derived rows
    timeline,    \* committed canonical TimelineEvent rows
    indexed,     \* documents in OpenSearch
    matched,     \* per evidence: the entity batches each finished match saw
    queue,       \* the broker: how many copies of each message are deliverable
    undispatched,\* committed uploads whose process_evidence.delay is still to run
    logged,      \* evidence for which a stage failure was caught and logged
    lost,        \* tasks that did not finish and whose message will not come back
    early,       \* evidence matched while its entities were still uncommitted
    pc, task,    \* per slot: where it is, and the message it executes
    at,          \* per slot: the stage it is about to enter or is running
    session,     \* per slot: identity map and pending changes of its session
    owned,       \* slots whose delivery the broker still holds as unacked
    ingest,      \* the rows an ingest request is about to commit
    fresh,       \* next unused primary key
    left         \* how much trouble may still happen

workerVars == <<pc, task, at, session, owned>>
dataVars   == <<row, timeline, indexed, matched, logged>>
vars == <<row, timeline, indexed, matched, queue, undispatched, logged, lost, early,
          pc, task, at, session, owned, ingest, fresh, left>>

Row == [status : Status, completedAt : BOOLEAN, error : BOOLEAN, text : BOOLEAN,
        ents : Nat, raw : SUBSET Nat, summary : BOOLEAN]

(* mem is evidence.status as this session last read or wrote it            *)
(* (expire_on_commit=False: a commit does not refresh it); hasText is the  *)
(* local extracted_text; the rest is added to the session, not committed.  *)
Session == [mem : Status, hasText : BOOLEAN, text : BOOLEAN, ents : BOOLEAN,
            raw : SUBSET Nat, canon : SUBSET TimelineRow, summary : BOOLEAN,
            poisoned : BOOLEAN, seen : Nat]

NoRow == [status |-> "ABSENT", completedAt |-> FALSE, error |-> FALSE, text |-> FALSE,
          ents |-> 0, raw |-> {}, summary |-> FALSE]

NewSession == [mem |-> "ABSENT", hasText |-> FALSE, text |-> FALSE, ents |-> FALSE,
               raw |-> {}, canon |-> {}, summary |-> FALSE,
               poisoned |-> FALSE, seen |-> 0]

NoIngest == [busy |-> FALSE, rows |-> {}]

(* Type invariant. *)
TypeOK ==
    /\ row \in [Evidence -> Row]
    /\ timeline \subseteq TimelineRow
    /\ indexed \subseteq Evidence
    /\ matched \in [Evidence -> SUBSET Nat]
    /\ queue \in [Message -> Nat]
    /\ undispatched \subseteq Evidence
    /\ logged \subseteq Evidence
    /\ lost \subseteq Kinds \X Evidence
    /\ early \subseteq Evidence
    /\ pc \in [Workers -> {"idle", "enter", "run", "match", "alert"}]
    /\ task \in [Workers -> Message \cup {NoTask}]
    /\ at \in [Workers -> Stage]
    /\ session \in [Workers -> Session]
    /\ owned \subseteq Workers
    /\ ingest \in [busy : BOOLEAN, rows : SUBSET TimelineRow]
    /\ fresh \in Nat
    /\ left \in [Troubles -> Nat]

Init ==
    /\ row = [e \in Evidence |-> NoRow]
    /\ timeline = {}
    /\ indexed = {}
    /\ matched = [e \in Evidence |-> {}]
    /\ queue = [m \in Message |-> 0]
    /\ undispatched = {}
    /\ logged = {}
    /\ lost = {}
    /\ early = {}
    /\ pc = [w \in Workers |-> "idle"]
    /\ task = [w \in Workers |-> NoTask]
    /\ at = [w \in Workers |-> "METADATA_EXTRACTION"]
    /\ session = [w \in Workers |-> NewSession]
    /\ owned = {}
    /\ ingest = NoIngest
    /\ fresh = 0
    /\ left = Allowed

Spend(t) == left[t] > 0 /\ left' = [left EXCEPT ![t] = @ - 1]

New(kind, e) == [kind |-> kind, ev |-> e, tries |-> 0]
Sent(q, m) == [q EXCEPT ![m] = @ + 1]
Of(m) == <<m.kind, m.ev>>

(***************************************************************************)
(* API side: upload, dispatch, and the on-demand ingest.                   *)
(***************************************************************************)

(* record_upload commits the row (status already OCR_QUEUE) before the     *)
(* task is dispatched.                                                     *)
Upload(e) ==
    /\ row[e].status = "ABSENT"
    /\ row' = [row EXCEPT ![e].status = "OCR_QUEUE"]
    /\ undispatched' = undispatched \cup {e}
    /\ UNCHANGED <<timeline, indexed, matched, logged, lost, early, queue, workerVars, ingest,
                   fresh, left>>

(* Slip: the task is sent before the row is committed. *)
DispatchEarly(e) ==
    /\ row[e].status = "ABSENT"
    /\ queue' = Sent(queue, New("process", e))
    /\ UNCHANGED <<dataVars, lost, early, workerVars, undispatched, ingest, fresh, left>>

(* process_evidence.delay: a broker failure is logged and swallowed.       *)
Dispatch(e) ==
    /\ e \in undispatched
    /\ undispatched' = undispatched \ {e}
    /\ \/ queue' = Sent(queue, New("process", e)) /\ UNCHANGED <<left, lost>>
       \/ Spend("sendFailure") /\ lost' = lost \cup {<<"process", e>>} /\ UNCHANGED queue
    /\ UNCHANGED <<dataVars, early, workerVars, ingest, fresh>>

(* Slip: ingest without the existing_origin_ids check. *)
IngestRowsUnchecked(batches, id) ==
    {[id |-> id, origin |-> b.origin, ev |-> b.ev] : b \in batches}

(* The canonical rows ingest_from_extraction adds, with primary key id,    *)
(* for the extracted batches it sees: those whose origin is not yet in the *)
(* committed timeline (existing_origin_ids).                               *)
IngestRows(batches, id) ==
    {[id |-> id, origin |-> b.origin, ev |-> b.ev] :
        b \in {c \in batches : \A t \in timeline : t.origin # c.origin}}

Batches(e, origins) == {[ev |-> e, origin |-> o] : o \in origins}

IngestRead ==
    /\ ~ingest.busy
    /\ Spend("ingest")
    /\ ingest' = [busy |-> TRUE,
                  rows |-> IngestRows(UNION {Batches(e, row[e].raw) : e \in Evidence}, fresh)]
    /\ fresh' = fresh + 1
    /\ UNCHANGED <<dataVars, lost, early, queue, undispatched, workerVars>>

IngestCommit ==
    /\ ingest.busy
    /\ timeline' = timeline \cup ingest.rows
    /\ ingest' = NoIngest
    /\ UNCHANGED <<row, indexed, matched, logged, lost, early, queue, undispatched, workerVars,
                   fresh, left>>

(***************************************************************************)
(* Delivery and acknowledgement (Celery over Redis, acks_late).            *)
(***************************************************************************)

(* The task ends: the message is acknowledged and the session closed,      *)
(* which rolls back whatever it did not commit.                            *)
Idle(w) ==
    /\ pc' = [pc EXCEPT ![w] = "idle"]
    /\ task' = [task EXCEPT ![w] = NoTask]
    /\ session' = [session EXCEPT ![w] = NewSession]
    /\ owned' = owned \ {w}
    /\ UNCHANGED at

(* A free slot takes a message and loads the evidence row.  A task for a   *)
(* row that is not there is logged and dropped.                            *)
Deliver(w, m) ==
    /\ pc[w] = "idle"
    /\ queue[m] > 0
    /\ queue' = [queue EXCEPT ![m] = @ - 1]
    /\ IF row[m.ev].status = "ABSENT"
       THEN UNCHANGED workerVars
       ELSE /\ pc' = [pc EXCEPT ![w] = IF m.kind = "process" THEN "enter" ELSE "match"]
            /\ task' = [task EXCEPT ![w] = m]
            /\ at' = [at EXCEPT ![w] = "METADATA_EXTRACTION"]
            /\ session' = [session EXCEPT ![w] = [NewSession EXCEPT !.mem = row[m.ev].status]]
            /\ owned' = owned \cup {w}
    /\ UNCHANGED <<dataVars, lost, early, undispatched, ingest, fresh, left>>

(* Slip: the exception ends the task without a retry. *)
PropagateWithoutRetry(w) ==
    /\ Idle(w)
    /\ UNCHANGED <<queue, dataVars, lost, early, undispatched, ingest, fresh>>

(* An exception leaves the task: self.retry sends the message again with   *)
(* one more try, unless the tries are used up: the exception is then       *)
(* raised and the late ack drops the message.                              *)
Propagate(w) ==
    /\ Idle(w)
    /\ IF task[w].tries < MaxRetries[task[w].kind]
       THEN queue' = Sent(queue, [task[w] EXCEPT !.tries = @ + 1]) /\ UNCHANGED lost
       ELSE lost' = lost \cup {Of(task[w])} /\ UNCHANGED queue
    /\ UNCHANGED <<dataVars, early, undispatched, ingest, fresh>>

(* A statement fails at a point that no stage guards with try.             *)
DbFailure(w) ==
    /\ \/ pc[w] \in {"enter", "match", "alert"}
       \/ pc[w] = "run" /\ at[w] = "AI_QUEUE" /\ session[w].hasText
    /\ Spend("dbError")
    /\ Propagate(w)

(***************************************************************************)
(* The pipeline.                                                           *)
(***************************************************************************)

(* Slip: the extracted events are not part of the flush. *)
FlushedWithoutRaw(w, status) ==
    LET s == session[w] IN
    [row[task[w].ev] EXCEPT
        !.status  = IF status = s.mem THEN @ ELSE status,
        !.text    = @ \/ s.text,
        !.ents    = IF s.ents THEN @ + 1 ELSE @,
        !.summary = @ \/ s.summary]

(* The row after this session's flush: SQLAlchemy writes the status only   *)
(* if it differs from the value the session remembers.                     *)
Flushed(w, status) ==
    LET s == session[w] IN
    [row[task[w].ev] EXCEPT
        !.status  = IF status = s.mem THEN @ ELSE status,
        !.text    = @ \/ s.text,
        !.ents    = IF s.ents THEN @ + 1 ELSE @,
        !.raw     = @ \cup s.raw,
        !.summary = @ \/ s.summary]

Cleared(s, status) ==
    [s EXCEPT !.mem = status, !.text = FALSE, !.ents = FALSE, !.raw = {}, !.canon = {},
              !.summary = FALSE]

(* The flush at the end of a stage fails: an error caught earlier left the *)
(* transaction unusable, or another run inserted the summary row first     *)
(* (evidence_id is unique).                                                *)
CannotFlush(w) ==
    \/ session[w].poisoned
    \/ session[w].summary /\ row[task[w].ev].summary

(* Stages whose body changes nothing but locals (EXIF metadata goes into a *)
(* dict; the graph stage is empty).                                        *)
Silent == {"METADATA_EXTRACTION", "GRAPH_QUEUE"}

(* _set_status: write the next status and commit the previous stage's work.*)
EnterStage(w) ==
    /\ pc[w] = "enter" /\ at[w] # "COMPLETED"
    /\ ~CannotFlush(w)
    /\ row' = [row EXCEPT ![task[w].ev] = Flushed(w, at[w])]
    /\ timeline' = timeline \cup session[w].canon
    /\ session' = [session EXCEPT ![w] = Cleared(@, at[w])]
    /\ IF at[w] \in Silent
       THEN at' = [at EXCEPT ![w] = NextStage[@]] /\ UNCHANGED pc
       ELSE pc' = [pc EXCEPT ![w] = "run"] /\ UNCHANGED at
    /\ UNCHANGED <<indexed, matched, logged, lost, early, queue, undispatched, task, owned,
                   ingest, fresh, left>>

(* The last commit, with COMPLETED and processing_completed_at.            *)
Finalize(w) ==
    /\ pc[w] = "enter" /\ at[w] = "COMPLETED"
    /\ ~CannotFlush(w)
    /\ row' = [row EXCEPT ![task[w].ev] = [Flushed(w, "COMPLETED") EXCEPT !.completedAt = TRUE]]
    /\ timeline' = timeline \cup session[w].canon
    /\ Idle(w)
    /\ UNCHANGED <<indexed, matched, logged, lost, early, queue, undispatched, ingest, fresh,
                   left>>

(* The flush fails, and so does the commit of FAILED in run's handler.     *)
AbortRun(w) ==
    /\ pc[w] = "enter"
    /\ CannotFlush(w)
    /\ Propagate(w)
    /\ UNCHANGED left

(* An exception other than a database error, outside the stages' own try   *)
(* blocks (resolving the path, reading the metadata column, probing the    *)
(* file): run's handler commits FAILED and the task ends normally.         *)
FailRun(w) ==
    /\ \/ pc[w] = "enter" /\ at[w] \in {"METADATA_EXTRACTION", "OCR_QUEUE"}
       \/ pc[w] = "run" /\ at[w] = "OCR_QUEUE"
    /\ Spend("exception")
    /\ \E found \in {FALSE, pc[w] = "run" /\ task[w].ev \in Textual} :
          row' = [row EXCEPT ![task[w].ev] =
                     [Flushed(w, "FAILED") EXCEPT !.completedAt = TRUE, !.error = TRUE,
                                                  !.text = @ \/ found]]
    /\ Idle(w)
    /\ UNCHANGED <<timeline, indexed, matched, logged, lost, early, queue, undispatched, ingest,
                   fresh>>

(* The body of a stage ends and the next status is about to be set.        *)
StageDone(w) ==
    /\ pc' = [pc EXCEPT ![w] = "enter"]
    /\ at' = [at EXCEPT ![w] = NextStage[@]]

(* The stage's own except clause: a failure costs a warning in the log.    *)
Caught(w, failed) ==
    IF failed
    THEN Spend("stageFailure") /\ logged' = logged \cup {task[w].ev}
    ELSE UNCHANGED <<logged, left>>

(* Text extraction and OCR; a failure leaves the run without text.         *)
RunOcr(w) ==
    /\ pc[w] = "run" /\ at[w] = "OCR_QUEUE"
    /\ StageDone(w)
    /\ \E failed \in BOOLEAN :
          /\ Caught(w, failed)
          /\ LET found == task[w].ev \in Textual /\ ~failed
             IN  session' = [session EXCEPT ![w].hasText = found, ![w].text = found]
    /\ UNCHANGED <<row, timeline, indexed, matched, lost, early, queue, undispatched, task,
                   owned, ingest, fresh>>

(* Entities and keywords are added and flushed, and the watchlist task is  *)
(* sent - before the commit that makes them visible.  Its send may fail.   *)
RunAI(w) ==
    /\ pc[w] = "run" /\ at[w] = "AI_QUEUE"
    /\ StageDone(w)
    /\ IF session[w].hasText
       THEN \/ \E failed \in BOOLEAN :
                 /\ Caught(w, failed)
                 /\ session' = [session EXCEPT ![w].ents = ~failed]
                 /\ queue' = Sent(queue, New("match", task[w].ev))
                 /\ UNCHANGED lost
            \/ /\ Spend("sendFailure")
               /\ session' = [session EXCEPT ![w].ents = TRUE]
               /\ lost' = lost \cup {<<"match", task[w].ev>>}
               /\ UNCHANGED <<logged, queue>>
       ELSE UNCHANGED <<logged, lost, session, queue, left>>
    /\ UNCHANGED <<row, timeline, indexed, matched, early, undispatched, task, owned, ingest,
                   fresh>>

(* A database error caught inside a stage: the transaction is rolled back  *)
(* and every later use of the session raises PendingRollbackError.         *)
Poison(w) ==
    /\ Spend("dbError")
    /\ logged' = logged \cup {task[w].ev}
    /\ session' = [session EXCEPT ![w].poisoned = TRUE]

(* Extracted timeline events are added, then mirrored into the canonical   *)
(* timeline.  Each part may fail on its own.                               *)
RunTimeline(w) ==
    /\ pc[w] = "run" /\ at[w] = "TIMELINE_QUEUE"
    /\ StageDone(w)
    /\ IF session[w].hasText
       THEN \/ \E extracted, mirrored \in BOOLEAN :
                 LET e == task[w].ev
                     raw == IF extracted THEN {fresh} ELSE {}
                 IN  /\ Caught(w, ~extracted \/ ~mirrored)
                     /\ session' = [session EXCEPT
                           ![w].raw = raw,
                           ![w].canon = IF mirrored
                                        THEN IngestRows(Batches(e, row[e].raw \cup raw), fresh)
                                        ELSE {}]
                     /\ fresh' = fresh + 1
            \/ Poison(w) /\ UNCHANGED fresh
       ELSE UNCHANGED <<logged, session, fresh, left>>
    /\ UNCHANGED <<row, timeline, indexed, matched, lost, early, queue, undispatched, task,
                   owned, ingest>>

(* OpenSearch indexing, then the AI summary: an update if the row is       *)
(* there, else an insert, and nothing if no provider is configured.        *)
RunIndexing(w) ==
    /\ pc[w] = "run" /\ at[w] = "INDEXED"
    /\ StageDone(w)
    /\ \/ \E failed \in BOOLEAN :
             /\ Caught(w, failed)
             /\ indexed' = IF failed THEN indexed ELSE indexed \cup {task[w].ev}
             /\ \E insert \in {FALSE, session[w].hasText /\ ~row[task[w].ev].summary} :
                   session' = [session EXCEPT ![w].summary = insert]
       \/ session[w].hasText /\ Poison(w) /\ indexed' = indexed \cup {task[w].ev}
    /\ UNCHANGED <<row, timeline, matched, lost, early, queue, undispatched, task, owned, ingest,
                   fresh>>

(***************************************************************************)
(* The watchlist task, as far as the pipeline is concerned: it reads the   *)
(* committed entities, then commits its alerts.                            *)
(***************************************************************************)

(* A run has entities of e in its session that no other session sees yet.  *)
EntitiesPending(e) == \E v \in Workers : session[v].ents /\ task[v].ev = e

MatchRead(w) ==
    /\ pc[w] = "match"
    /\ session' = [session EXCEPT ![w].seen = row[task[w].ev].ents]
    /\ pc' = [pc EXCEPT ![w] = "alert"]
    /\ early' = IF row[task[w].ev].ents = 0 /\ EntitiesPending(task[w].ev)
                THEN early \cup {task[w].ev} ELSE early
    /\ UNCHANGED <<dataVars, lost, queue, undispatched, task, at, owned, ingest, fresh, left>>

MatchCommit(w) ==
    /\ pc[w] = "alert"
    /\ matched' = [matched EXCEPT ![task[w].ev] = @ \cup {session[w].seen}]
    /\ Idle(w)
    /\ UNCHANGED <<row, timeline, indexed, logged, lost, early, queue, undispatched, ingest,
                   fresh, left>>

(***************************************************************************)
(* Crashes and redelivery.                                                 *)
(***************************************************************************)

(* Slip: without acks_late a crash loses the messages being executed. *)
CrashAckedEarly ==
    /\ Spend("crash")
    /\ pc' = [w \in Workers |-> "idle"]
    /\ task' = [w \in Workers |-> NoTask]
    /\ session' = [w \in Workers |-> NewSession]
    /\ owned' = {}
    /\ UNCHANGED <<dataVars, lost, early, queue, undispatched, at, ingest, fresh>>

(* The worker container dies: every unacked message becomes deliverable.   *)
(* A run whose message was delivered again before is cut off for good.     *)
Crash ==
    /\ Spend("crash")
    /\ queue' = [m \in Message |-> queue[m] + Cardinality({w \in owned : task[w] = m})]
    /\ lost' = lost \cup {Of(task[w]) : w \in {v \in Workers \ owned : pc[v] # "idle"}}
    /\ pc' = [w \in Workers |-> "idle"]
    /\ task' = [w \in Workers |-> NoTask]
    /\ session' = [w \in Workers |-> NewSession]
    /\ owned' = {}
    /\ UNCHANGED <<dataVars, early, undispatched, at, ingest, fresh>>

(* A forked child dies: WorkerLostError is a task failure, acknowledged    *)
(* because task_reject_on_worker_lost is not set.                          *)
ChildLoss(w) ==
    /\ pc[w] # "idle"
    /\ Spend("childLoss")
    /\ Idle(w)
    /\ lost' = lost \cup {Of(task[w])}
    /\ UNCHANGED <<dataVars, early, queue, undispatched, ingest, fresh>>

(* The visibility timeout expires while the task still runs.               *)
Redeliver(w) ==
    /\ w \in owned
    /\ Spend("redelivery")
    /\ owned' = owned \ {w}
    /\ queue' = Sent(queue, task[w])
    /\ UNCHANGED <<dataVars, lost, early, undispatched, pc, task, at, session, ingest, fresh>>

-----------------------------------------------------------------------------

(* One step of the task a slot executes. *)
Step(w) ==
    \/ EnterStage(w) \/ Finalize(w) \/ AbortRun(w) \/ FailRun(w)
    \/ RunOcr(w) \/ RunAI(w) \/ RunTimeline(w) \/ RunIndexing(w)
    \/ MatchRead(w) \/ MatchCommit(w)

Next ==
    \/ \E e \in Evidence : Upload(e) \/ Dispatch(e)
    \/ IngestRead \/ IngestCommit
    \/ \E w \in Workers, m \in Message : Deliver(w, m)
    \/ \E w \in Workers : Step(w) \/ DbFailure(w) \/ ChildLoss(w) \/ Redeliver(w)
    \/ Crash

Spec == Init /\ [][Next]_vars

(* The API process, the broker and every worker slot keep running.         *)
Fairness ==
    /\ \A e \in Evidence : WF_vars(Dispatch(e))
    /\ WF_vars(IngestCommit)
    /\ \A w \in Workers : WF_vars(\E m \in Message : Deliver(w, m)) /\ WF_vars(Step(w))

FairSpec == Spec /\ Fairness

(***************************************************************************)
(* Properties.                                                             *)
(***************************************************************************)

Executing(w, kind, e) == pc[w] # "idle" /\ task[w].kind = kind /\ task[w].ev = e

(* No message queued and no slot busy for e. *)
Quiet(e) ==
    /\ e \notin undispatched
    /\ \A m \in Message : m.ev = e => queue[m] = 0
    /\ \A w \in Workers, k \in Kinds : ~Executing(w, k, e)

(* record_upload commits before it dispatches, so no worker ever meets a   *)
(* task whose evidence row is missing and drops it.                        *)
TasksHaveRows ==
    /\ \A m \in Message : queue[m] > 0 => row[m.ev].status # "ABSENT"
    /\ \A w \in Workers : task[w] # NoTask => row[task[w].ev].status # "ABSENT"

(* A mirrored event always points back at a committed extraction row of    *)
(* the same evidence: the raw history stays auditable whatever crashes,    *)
(* retries or concurrent ingests happen.                                   *)
TimelineHasOrigin == \A t \in timeline : t.origin \in row[t.ev].raw

(* COMPLETED tells the truth: unless some stage failure was logged for it, *)
(* a completed item with text has its text, entities, extracted events and *)
(* their canonical mirrors committed - after any crash, retry or overlap.  *)
CompletedIsEnriched ==
    \A e \in Textual \ logged :
        row[e].status = "COMPLETED" =>
            /\ row[e].text
            /\ row[e].ents > 0
            /\ row[e].raw # {}
            /\ \A o \in row[e].raw : \E t \in timeline : t.ev = e /\ t.origin = o

(* Ingest is idempotent per extracted event: pipeline runs and on-demand   *)
(* ingests that overlap never mirror one extraction row twice, as long as  *)
(* no stage of that evidence failed.                                       *)
OriginMirroredOnce ==
    \A s, t \in timeline : s.origin = t.origin /\ s.ev \notin logged => s = t

(* Entities that were committed were seen by a finished watchlist match,   *)
(* once nothing about the evidence is in flight, unless a match task was   *)
(* lost.                                                                   *)
EveryEvidenceMatched ==
    \A e \in Evidence :
        Quiet(e) /\ row[e].ents > 0 /\ <<"match", e>> \notin lost => \E n \in matched[e] : n > 0

(* The same but for the race of that task with the commit of the entities: *)
(* only a match that read before the commit can have missed them.          *)
MatchedUnlessEarly ==
    \A e \in Evidence \ early :
        Quiet(e) /\ row[e].ents > 0 /\ <<"match", e>> \notin lost => \E n \in matched[e] : n > 0

(* An item nobody works on any more has reached a terminal status, unless  *)
(* a processing task of it was lost.                                       *)
NoneStranded ==
    \A e \in Evidence :
        Quiet(e) /\ <<"process", e>> \notin lost => row[e].status \in Terminal \cup {"ABSENT"}

(* Every uploaded item settles in a terminal status for good.              *)
UploadsSettle ==
    \A e \in Evidence :
        row[e].status # "ABSENT" ~> [](row[e].status \in Terminal)
=============================================================================
