---------------------- MODULE EvidencePipelineProofs ----------------------
(* Proofs about EvidencePipeline, for any number of evidence items and     *)
(* worker slots and any amount of trouble: typing first; then that every   *)
(* task has a row, every canonical event a committed origin, unfailed      *)
(* evidence is mirrored exactly once and COMPLETED tells the truth; last,  *)
(* that no item is stranded and no committed entities stay unmatched.      *)
EXTENDS EvidencePipeline, FiniteSetTheorems, TLAPS

(* What a slot that is not idle is doing. *)
SlotsOK ==
    /\ \A w \in Workers : pc[w] # "idle" => task[w] \in Message
    /\ \A w \in Workers : pc[w] = "run" => at[w] # "COMPLETED"
    /\ \A w \in owned : pc[w] # "idle"

TypeInv == TypeOK /\ SlotsOK

-----------------------------------------------------------------------------

LEMMA MessageParts ==
    ASSUME NEW m \in Message
    PROVE  /\ m.kind \in Kinds
           /\ m.ev \in Evidence
           /\ m.tries \in 0 .. MaxRetries[m.kind]
           /\ m = [kind |-> m.kind, ev |-> m.ev, tries |-> m.tries]
  BY DEF Message

LEMMA MessageMade ==
    ASSUME NEW k \in Kinds, NEW e \in Evidence, NEW n \in 0 .. MaxRetries[k]
    PROVE  [kind |-> k, ev |-> e, tries |-> n] \in Message
  BY DEF Message

LEMMA NewIsMessage ==
    ASSUME NEW k \in Kinds, NEW e \in Evidence
    PROVE  New(k, e) \in Message
<1>1. MaxRetries[k] \in Nat
  BY PipelineAssumption
<1>2. QED
  BY <1>1, MessageMade DEF New

LEMMA RetryIsMessage ==
    ASSUME NEW m \in Message, m.tries < MaxRetries[m.kind]
    PROVE  [m EXCEPT !.tries = @ + 1] \in Message
<1>1. MaxRetries[m.kind] \in Nat /\ m.tries + 1 \in 0 .. MaxRetries[m.kind]
  BY MessageParts, PipelineAssumption
<1>2. [m EXCEPT !.tries = @ + 1] = [kind |-> m.kind, ev |-> m.ev, tries |-> m.tries + 1]
  BY MessageParts
<1>3. QED
  BY <1>1, <1>2, MessageParts, MessageMade

LEMMA SentIsQueue ==
    ASSUME NEW q \in [Message -> Nat], NEW m \in Message
    PROVE  Sent(q, m) \in [Message -> Nat]
  BY DEF Sent

LEMMA OfType ==
    ASSUME NEW m \in Message
    PROVE  Of(m) \in Kinds \X Evidence
  BY MessageParts DEF Of

LEMMA NoRowIsRow == NoRow \in Row
  BY DEF NoRow, Row, Status, Stage, NextStage

LEMMA NewSessionIsSession == NewSession \in Session
  BY DEF NewSession, Session, Status, Stage, NextStage

LEMMA SpendType ==
    ASSUME left \in [Troubles -> Nat], NEW t \in Troubles, Spend(t)
    PROVE  left' \in [Troubles -> Nat]
  BY DEF Spend

LEMMA IngestRowsType ==
    ASSUME NEW batches, NEW id \in Nat,
           \A b \in batches : b.ev \in Evidence /\ b.origin \in Nat
    PROVE  IngestRows(batches, id) \subseteq TimelineRow
  BY DEF IngestRows, TimelineRow

LEMMA BatchesType ==
    ASSUME NEW e \in Evidence, NEW origins \in SUBSET Nat
    PROVE  \A b \in Batches(e, origins) : b.ev \in Evidence /\ b.origin \in Nat
  BY DEF Batches

LEMMA StageIsStatus == Stage \subseteq Status
  BY DEF Stage, Status

LEMMA NextStageType ==
    ASSUME NEW s \in Stage, s # "COMPLETED"
    PROVE  NextStage[s] \in Stage
  BY DEF Stage, NextStage

LEMMA RowUpdate ==
    ASSUME NEW r \in Row, NEW st \in Status, NEW tx \in BOOLEAN, NEW n \in Nat,
           NEW rw \in SUBSET Nat, NEW sm \in BOOLEAN
    PROVE  [r EXCEPT !.status = st, !.text = tx, !.ents = n, !.raw = rw, !.summary = sm] \in Row
  BY DEF Row

LEMMA FlushedType ==
    ASSUME TypeOK, NEW w \in Workers, task[w] \in Message, NEW s \in Status
    PROVE  Flushed(w, s) \in Row
<1> DEFINE r == row[task[w].ev]
           c == session[w]
           st == IF s = c.mem THEN r.status ELSE s
           n == IF c.ents THEN r.ents + 1 ELSE r.ents
<1>1. r \in Row
  BY MessageParts DEF TypeOK
<1>2. c \in Session
  BY DEF TypeOK
<1>3. st \in Status
  BY <1>1 DEF Row
<1>4. n \in Nat
  BY <1>1 DEF Row
<1>5. (r.raw \cup c.raw) \in SUBSET Nat
  BY <1>1, <1>2 DEF Row, Session
<1>6. (r.text \/ c.text) \in BOOLEAN /\ (r.summary \/ c.summary) \in BOOLEAN
  BY <1>1, <1>2, Zenon DEF Row, Session
<1> HIDE DEF r, c, st, n
<1>7. [r EXCEPT !.status = st, !.text = r.text \/ c.text, !.ents = n,
                !.raw = r.raw \cup c.raw, !.summary = r.summary \/ c.summary] \in Row
  BY <1>1, <1>3, <1>4, <1>5, <1>6, RowUpdate
<1>8. QED
  BY <1>7 DEF Flushed, r, c, st, n

LEMMA InitTypeInv == Init => TypeInv
<1>1. SUFFICES ASSUME Init PROVE TypeInv
  OBVIOUS
<1>2. TypeOK
  BY <1>1, NoRowIsRow, NewSessionIsSession, PipelineAssumption
  DEF Init, TypeOK, NoIngest, Stage, NextStage
<1>3. SlotsOK
  BY <1>1 DEF Init, SlotsOK
<1>4. QED
  BY <1>2, <1>3 DEF TypeInv

-----------------------------------------------------------------------------
(* One lemma per group of actions: each preserves the type invariant.      *)

LEMMA IdleSlots ==
    ASSUME TypeInv, NEW w \in Workers, Idle(w)
    PROVE  /\ pc' \in [Workers -> {"idle", "enter", "run", "match", "alert"}]
           /\ task' \in [Workers -> Message \cup {NoTask}]
           /\ at' \in [Workers -> Stage]
           /\ session' \in [Workers -> Session]
           /\ owned' \subseteq Workers
           /\ SlotsOK'
<1>1. session' \in [Workers -> Session]
  BY NewSessionIsSession DEF TypeInv, TypeOK, Idle
<1>2. pc' \in [Workers -> {"idle", "enter", "run", "match", "alert"}]
  BY DEF TypeInv, TypeOK, Idle
<1>3. task' \in [Workers -> Message \cup {NoTask}]
  BY DEF TypeInv, TypeOK, Idle
<1>4. at' \in [Workers -> Stage] /\ owned' \subseteq Workers
  BY DEF TypeInv, TypeOK, Idle
<1>5. SlotsOK'
  BY DEF TypeInv, TypeOK, Idle, SlotsOK
<1>6. QED
  BY <1>1, <1>2, <1>3, <1>4, <1>5

LEMMA UploadType ==
    ASSUME TypeInv, NEW e \in Evidence, Upload(e)
    PROVE  TypeInv'
<1>1. row' \in [Evidence -> Row]
  BY SMTT(30) DEF TypeInv, TypeOK, Upload, Row, Status, Stage, NextStage
<1>2. QED
  BY <1>1 DEF TypeInv, TypeOK, SlotsOK, Upload, workerVars

LEMMA DispatchType ==
    ASSUME TypeInv, NEW e \in Evidence, Dispatch(e)
    PROVE  TypeInv'
<1>1. queue' \in [Message -> Nat]
  BY NewIsMessage, SentIsQueue DEF TypeInv, TypeOK, Dispatch, Kinds
<1>2. left' \in [Troubles -> Nat]
  BY SpendType DEF TypeInv, TypeOK, Dispatch, Troubles
<1>3. lost' \subseteq Kinds \X Evidence
  BY DEF TypeInv, TypeOK, Dispatch, Kinds
<1>4. QED
  BY <1>1, <1>2, <1>3 DEF TypeInv, TypeOK, SlotsOK, Dispatch, workerVars, dataVars

LEMMA IngestReadType ==
    ASSUME TypeInv, IngestRead
    PROVE  TypeInv'
<1> DEFINE B == UNION {Batches(e, row[e].raw) : e \in Evidence}
<1>1. \A b \in B : b.ev \in Evidence /\ b.origin \in Nat
  BY DEF TypeInv, TypeOK, Row, Batches
<1>2. IngestRows(B, fresh) \subseteq TimelineRow
  BY <1>1, IngestRowsType DEF TypeInv, TypeOK
<1>3. ingest' \in [busy : BOOLEAN, rows : SUBSET TimelineRow]
  BY <1>2 DEF IngestRead
<1>4. left' \in [Troubles -> Nat]
  BY SpendType DEF TypeInv, TypeOK, IngestRead, Troubles
<1>5. fresh' \in Nat
  BY DEF TypeInv, TypeOK, IngestRead
<1>6. QED
  BY <1>3, <1>4, <1>5 DEF TypeInv, TypeOK, SlotsOK, IngestRead, workerVars, dataVars

LEMMA IngestCommitType ==
    ASSUME TypeInv, IngestCommit
    PROVE  TypeInv'
  BY DEF TypeInv, TypeOK, SlotsOK, IngestCommit, NoIngest, workerVars

LEMMA DeliverType ==
    ASSUME TypeInv, NEW w \in Workers, NEW m \in Message, Deliver(w, m)
    PROVE  TypeInv'
<1>1. queue' \in [Message -> Nat]
  BY DEF TypeInv, TypeOK, Deliver
<1>2. CASE row[m.ev].status = "ABSENT"
  BY <1>1, <1>2 DEF TypeInv, TypeOK, SlotsOK, Deliver, workerVars, dataVars
<1>3. CASE row[m.ev].status # "ABSENT"
  <2>1. row[m.ev].status \in Status
    BY MessageParts DEF TypeInv, TypeOK, Row
  <2>2. [NewSession EXCEPT !.mem = row[m.ev].status] \in Session
    BY <2>1, NewSessionIsSession DEF Session
  <2>3. session' \in [Workers -> Session]
    BY <1>3, <2>2 DEF TypeInv, TypeOK, Deliver
  <2>4. /\ pc' \in [Workers -> {"idle", "enter", "run", "match", "alert"}]
        /\ task' \in [Workers -> Message \cup {NoTask}]
        /\ at' \in [Workers -> Stage]
        /\ owned' \subseteq Workers
    BY <1>3 DEF TypeInv, TypeOK, Deliver, Stage, NextStage
  <2>5. SlotsOK'
    BY <1>3 DEF TypeInv, TypeOK, SlotsOK, Deliver
  <2>6. QED
    BY <1>1, <2>3, <2>4, <2>5 DEF TypeInv, TypeOK, Deliver, dataVars
<1>4. QED
  BY <1>2, <1>3

LEMMA PropagateType ==
    ASSUME TypeInv, NEW w \in Workers, pc[w] # "idle", Propagate(w),
           left' \in [Troubles -> Nat]
    PROVE  TypeInv'
<1>1. task[w] \in Message
  BY DEF TypeInv, SlotsOK
<1>2. queue' \in [Message -> Nat]
  BY <1>1, RetryIsMessage, SentIsQueue DEF TypeInv, TypeOK, Propagate
<1>3. lost' \subseteq Kinds \X Evidence
  BY <1>1, OfType DEF TypeInv, TypeOK, Propagate
<1>4. QED
  BY <1>2, <1>3, IdleSlots DEF TypeInv, TypeOK, Propagate, dataVars

LEMMA CommitType ==
    ASSUME TypeInv, NEW w \in Workers, pc[w] # "idle", NEW s \in Status
    PROVE  /\ [row EXCEPT ![task[w].ev] = Flushed(w, s)] \in [Evidence -> Row]
           /\ timeline \cup session[w].canon \subseteq TimelineRow
           /\ Flushed(w, s) \in Row
<1>1. task[w] \in Message
  BY DEF TypeInv, SlotsOK
<1>2. Flushed(w, s) \in Row
  BY <1>1, FlushedType DEF TypeInv
<1>3. session[w].canon \subseteq TimelineRow
  BY DEF TypeInv, TypeOK, Session
<1>4. QED
  BY <1>2, <1>3 DEF TypeInv, TypeOK

LEMMA ClearedType ==
    ASSUME NEW c \in Session, NEW s \in Status
    PROVE  Cleared(c, s) \in Session
  BY DEF Cleared, Session

LEMMA EnterStageType ==
    ASSUME TypeInv, NEW w \in Workers, EnterStage(w)
    PROVE  TypeInv'
<1>1. at[w] \in Stage /\ at[w] \in Status /\ pc[w] # "idle" /\ at[w] # "COMPLETED"
  BY StageIsStatus DEF TypeInv, TypeOK, EnterStage
<1>2. row' \in [Evidence -> Row] /\ timeline' \subseteq TimelineRow
  BY <1>1, CommitType DEF EnterStage
<1>3. Cleared(session[w], at[w]) \in Session
  BY <1>1, ClearedType DEF TypeInv, TypeOK
<1>4. session' \in [Workers -> Session]
  BY <1>3 DEF TypeInv, TypeOK, EnterStage
<1>5. /\ pc' \in [Workers -> {"idle", "enter", "run", "match", "alert"}]
      /\ at' \in [Workers -> Stage]
  BY <1>1, NextStageType DEF TypeInv, TypeOK, EnterStage
<1>6. SlotsOK'
  BY <1>1 DEF TypeInv, TypeOK, SlotsOK, EnterStage
<1>7. QED
  BY <1>2, <1>4, <1>5, <1>6 DEF TypeInv, TypeOK, EnterStage

LEMMA FinalizeType ==
    ASSUME TypeInv, NEW w \in Workers, Finalize(w)
    PROVE  TypeInv'
<1>1. pc[w] # "idle" /\ "COMPLETED" \in Status
  BY DEF Finalize, Status, Stage
<1>0. ASSUME NEW r \in Row PROVE [r EXCEPT !.completedAt = TRUE] \in Row
  BY DEF Row
<1>2. [Flushed(w, "COMPLETED") EXCEPT !.completedAt = TRUE] \in Row
  BY <1>0, <1>1, CommitType
<1>3. row' \in [Evidence -> Row]
  BY <1>2 DEF TypeInv, TypeOK, Finalize
<1>4. timeline' \subseteq TimelineRow
  BY <1>1, CommitType DEF Finalize
<1>5. QED
  BY <1>3, <1>4, IdleSlots DEF TypeInv, TypeOK, Finalize

LEMMA FailRunType ==
    ASSUME TypeInv, NEW w \in Workers, FailRun(w)
    PROVE  TypeInv'
<1>1. pc[w] # "idle" /\ "FAILED" \in Status
  BY DEF FailRun, Status
<1>2. Flushed(w, "FAILED") \in Row
  BY <1>1, CommitType
<1>3. PICK found \in BOOLEAN :
        row' = [row EXCEPT ![task[w].ev] =
                   [Flushed(w, "FAILED") EXCEPT !.completedAt = TRUE, !.error = TRUE,
                                                !.text = @ \/ found]]
  BY DEF FailRun
<1>4. (Flushed(w, "FAILED").text \/ found) \in BOOLEAN
  OBVIOUS
<1>5. ASSUME NEW r \in Row, NEW t \in BOOLEAN
      PROVE  [r EXCEPT !.completedAt = TRUE, !.error = TRUE, !.text = t] \in Row
  BY DEF Row
<1>6. [Flushed(w, "FAILED") EXCEPT !.completedAt = TRUE, !.error = TRUE,
                                   !.text = Flushed(w, "FAILED").text \/ found] \in Row
  BY <1>2, <1>4, <1>5
<1>7. row' \in [Evidence -> Row]
  BY <1>3, <1>6 DEF TypeInv, TypeOK
<1>8. left' \in [Troubles -> Nat]
  BY SpendType DEF TypeInv, TypeOK, FailRun, Troubles
<1>9. QED
  BY <1>7, <1>8, IdleSlots DEF TypeInv, TypeOK, FailRun

LEMMA StageDoneType ==
    ASSUME TypeInv, NEW w \in Workers, StageDone(w), pc[w] = "run"
    PROVE  /\ pc' \in [Workers -> {"idle", "enter", "run", "match", "alert"}]
           /\ at' \in [Workers -> Stage]
<1>1. at[w] \in Stage /\ at[w] # "COMPLETED"
  BY DEF TypeInv, TypeOK, SlotsOK
<1>2. QED
  BY <1>1, NextStageType DEF TypeInv, TypeOK, StageDone

LEMMA StageDoneSlots ==
    ASSUME TypeInv, NEW w \in Workers, StageDone(w), pc[w] = "run", UNCHANGED <<task, owned>>
    PROVE  SlotsOK'
  BY DEF TypeInv, TypeOK, SlotsOK, StageDone

LEMMA CaughtType ==
    ASSUME TypeInv, NEW w \in Workers, task[w] \in Message, NEW f, Caught(w, f)
    PROVE  logged' \subseteq Evidence /\ left' \in [Troubles -> Nat]
<1>1. task[w].ev \in Evidence
  BY MessageParts
<1>2. QED
  BY <1>1, SpendType DEF TypeInv, TypeOK, Caught, Troubles

LEMMA PoisonType ==
    ASSUME TypeInv, NEW w \in Workers, task[w] \in Message, Poison(w)
    PROVE  /\ logged' \subseteq Evidence
           /\ left' \in [Troubles -> Nat]
           /\ session' \in [Workers -> Session]
<1>1. task[w].ev \in Evidence
  BY MessageParts
<1>2. ASSUME NEW c \in Session
      PROVE  [c EXCEPT !.poisoned = TRUE] \in Session
  BY DEF Session
<1>3. session' \in [Workers -> Session]
  BY <1>2 DEF TypeInv, TypeOK, Poison
<1>4. QED
  BY <1>1, <1>3, SpendType DEF TypeInv, TypeOK, Poison, Troubles

LEMMA RunOcrType ==
    ASSUME TypeInv, NEW w \in Workers, RunOcr(w)
    PROVE  TypeInv'
<1>1. pc[w] = "run" /\ task[w] \in Message /\ StageDone(w) /\ UNCHANGED <<task, owned>>
  BY DEF TypeInv, SlotsOK, RunOcr
<1>2. PICK f \in BOOLEAN :
        /\ Caught(w, f)
        /\ session' = [session EXCEPT ![w].hasText = task[w].ev \in Textual /\ ~f,
                                      ![w].text = task[w].ev \in Textual /\ ~f]
  BY DEF RunOcr
<1>3. ASSUME NEW c \in Session, NEW b \in BOOLEAN
      PROVE  [c EXCEPT !.hasText = b, !.text = b] \in Session
  BY DEF Session
<1>4. (task[w].ev \in Textual /\ ~f) \in BOOLEAN
  OBVIOUS
<1>5. session' \in [Workers -> Session]
  BY <1>2, <1>3, <1>4 DEF TypeInv, TypeOK
<1>6. QED
  BY <1>1, <1>2, <1>5, StageDoneType, StageDoneSlots, CaughtType DEF TypeInv, TypeOK, RunOcr

LEMMA RunAIType ==
    ASSUME TypeInv, NEW w \in Workers, RunAI(w)
    PROVE  TypeInv'
<1>1. pc[w] = "run" /\ task[w] \in Message /\ StageDone(w) /\ UNCHANGED <<task, owned>>
  BY DEF TypeInv, SlotsOK, RunAI
<1>2. ASSUME NEW c \in Session, NEW b \in BOOLEAN
      PROVE  [c EXCEPT !.ents = b] \in Session
  BY DEF Session
<1>3. New("match", task[w].ev) \in Message
  BY <1>1, MessageParts, NewIsMessage DEF Kinds
<1>4. session' \in [Workers -> Session]
  <2>1. CASE UNCHANGED session
    BY <2>1 DEF TypeInv, TypeOK
  <2>2. ASSUME NEW b \in BOOLEAN, session' = [session EXCEPT ![w].ents = b]
        PROVE  session' \in [Workers -> Session]
    BY <1>2, <2>2 DEF TypeInv, TypeOK
  <2>3. CASE ~session[w].hasText
    BY <2>1, <2>3 DEF RunAI
  <2>4. CASE session[w].hasText
    <3>1. \/ \E f \in BOOLEAN : session' = [session EXCEPT ![w].ents = ~f]
          \/ session' = [session EXCEPT ![w].ents = TRUE]
      BY <2>4, Zenon DEF RunAI
    <3>2. \A f \in BOOLEAN : (~f) \in BOOLEAN
      OBVIOUS
    <3>3. QED
      BY <2>2, <3>1, <3>2
  <2>5. QED
    BY <2>3, <2>4
<1>5. queue' \in [Message -> Nat]
  BY <1>3, SentIsQueue DEF TypeInv, TypeOK, RunAI
<1>6. logged' \subseteq Evidence /\ left' \in [Troubles -> Nat]
  BY <1>1, CaughtType, SpendType DEF TypeInv, TypeOK, RunAI, Troubles
<1>7. lost' \subseteq Kinds \X Evidence
  <2>1. task[w].ev \in Evidence
    BY <1>1, MessageParts
  <2>2. QED
    BY <2>1 DEF TypeInv, TypeOK, RunAI, Kinds
<1>8. QED
  BY <1>1, <1>4, <1>5, <1>6, <1>7, StageDoneType, StageDoneSlots DEF TypeInv, TypeOK, RunAI

LEMMA RunTimelineType ==
    ASSUME TypeInv, NEW w \in Workers, RunTimeline(w)
    PROVE  TypeInv'
<1>1. pc[w] = "run" /\ task[w] \in Message /\ StageDone(w) /\ UNCHANGED <<task, owned>>
  BY DEF TypeInv, SlotsOK, RunTimeline
<1>2. ASSUME NEW c \in Session, NEW r \in SUBSET Nat, NEW k \in SUBSET TimelineRow
      PROVE  [c EXCEPT !.raw = r, !.canon = k] \in Session
  BY DEF Session
<1>3. task[w].ev \in Evidence /\ fresh \in Nat /\ row[task[w].ev].raw \subseteq Nat
  BY <1>1, MessageParts DEF TypeInv, TypeOK, Row
<1>4. ASSUME NEW r \in SUBSET Nat
      PROVE  IngestRows(Batches(task[w].ev, row[task[w].ev].raw \cup r), fresh) \subseteq TimelineRow
  <2>1. row[task[w].ev].raw \cup r \in SUBSET Nat
    BY <1>3
  <2>2. QED
    BY <1>3, <2>1, BatchesType, IngestRowsType
<1>5. CASE ~session[w].hasText
  BY <1>1, <1>5, StageDoneType, StageDoneSlots DEF TypeInv, TypeOK, RunTimeline
<1>6. CASE session[w].hasText /\ Poison(w) /\ UNCHANGED fresh
  BY <1>1, <1>6, StageDoneType, StageDoneSlots, PoisonType DEF TypeInv, TypeOK, RunTimeline
<1>7. ASSUME NEW extracted \in BOOLEAN, NEW mirrored \in BOOLEAN, NEW r \in SUBSET Nat,
             Caught(w, ~extracted \/ ~mirrored),
             session' = [session EXCEPT
                 ![w].raw = r,
                 ![w].canon = IF mirrored
                              THEN IngestRows(Batches(task[w].ev, row[task[w].ev].raw \cup r), fresh)
                              ELSE {}],
             fresh' = fresh + 1
      PROVE  TypeInv'
  <2>1. session' \in [Workers -> Session]
    BY <1>2, <1>4, <1>7 DEF TypeInv, TypeOK
  <2>2. fresh' \in Nat
    BY <1>3, <1>7
  <2>3. logged' \subseteq Evidence /\ left' \in [Troubles -> Nat]
    BY <1>1, <1>7, CaughtType
  <2>4. QED
    BY <1>1, <2>1, <2>2, <2>3, StageDoneType, StageDoneSlots DEF TypeInv, TypeOK, RunTimeline
<1>8. CASE session[w].hasText /\ ~(Poison(w) /\ UNCHANGED fresh)
  <2>1. PICK extracted \in BOOLEAN, mirrored \in BOOLEAN :
          /\ Caught(w, ~extracted \/ ~mirrored)
          /\ session' = [session EXCEPT
                ![w].raw = IF extracted THEN {fresh} ELSE {},
                ![w].canon =
                    IF mirrored
                    THEN IngestRows(Batches(task[w].ev, row[task[w].ev].raw \cup
                                               (IF extracted THEN {fresh} ELSE {})), fresh)
                    ELSE {}]
          /\ fresh' = fresh + 1
    BY <1>8 DEF RunTimeline
  <2>2. (IF extracted THEN {fresh} ELSE {}) \in SUBSET Nat
    BY <1>3
  <2>3. QED
    BY <1>7, <2>1, <2>2
<1>9. QED
  BY <1>5, <1>6, <1>8

LEMMA RunIndexingType ==
    ASSUME TypeInv, NEW w \in Workers, RunIndexing(w)
    PROVE  TypeInv'
<1>1. pc[w] = "run" /\ task[w] \in Message /\ StageDone(w) /\ UNCHANGED <<task, owned>>
  BY DEF TypeInv, SlotsOK, RunIndexing
<1>2. task[w].ev \in Evidence
  BY <1>1, MessageParts
<1>3. ASSUME NEW c \in Session, NEW b \in BOOLEAN
      PROVE  [c EXCEPT !.summary = b] \in Session
  BY DEF Session
<1>4. (session[w].hasText /\ ~row[task[w].ev].summary) \in BOOLEAN
  BY <1>2, Zenon DEF TypeInv, TypeOK, Row, Session
<1>5. CASE Poison(w)
  BY <1>1, <1>2, <1>5, StageDoneType, StageDoneSlots, PoisonType DEF TypeInv, TypeOK, RunIndexing
<1>6. ASSUME NEW f \in BOOLEAN, Caught(w, f), NEW insert \in BOOLEAN,
             session' = [session EXCEPT ![w].summary = insert]
      PROVE  TypeInv'
  <2>1. session' \in [Workers -> Session]
    BY <1>3, <1>6 DEF TypeInv, TypeOK
  <2>2. logged' \subseteq Evidence /\ left' \in [Troubles -> Nat]
    BY <1>1, <1>6, CaughtType
  <2>3. indexed' \subseteq Evidence
    BY <1>2 DEF TypeInv, TypeOK, RunIndexing
  <2>4. QED
    BY <1>1, <2>1, <2>2, <2>3, StageDoneType, StageDoneSlots DEF TypeInv, TypeOK, RunIndexing
<1>7. QED
  BY <1>4, <1>5, <1>6 DEF RunIndexing

LEMMA MatchReadType ==
    ASSUME TypeInv, NEW w \in Workers, MatchRead(w)
    PROVE  TypeInv'
<1>1. task[w] \in Message /\ pc[w] # "idle"
  BY DEF TypeInv, SlotsOK, MatchRead
<1>2. row[task[w].ev].ents \in Nat
  BY <1>1, MessageParts DEF TypeInv, TypeOK, Row
<1>3. ASSUME NEW c \in Session, NEW n \in Nat
      PROVE  [c EXCEPT !.seen = n] \in Session
  BY DEF Session
<1>4. session' \in [Workers -> Session]
  BY <1>2, <1>3 DEF TypeInv, TypeOK, MatchRead
<1>5. early' \subseteq Evidence
  BY <1>1, MessageParts DEF TypeInv, TypeOK, MatchRead
<1>6. QED
  BY <1>1, <1>4, <1>5 DEF TypeInv, TypeOK, SlotsOK, MatchRead, dataVars

LEMMA MatchCommitType ==
    ASSUME TypeInv, NEW w \in Workers, MatchCommit(w)
    PROVE  TypeInv'
<1>1. session[w].seen \in Nat
  BY DEF TypeInv, TypeOK, Session
<1>2. matched' \in [Evidence -> SUBSET Nat]
  BY <1>1 DEF TypeInv, TypeOK, MatchCommit
<1>3. QED
  BY <1>2, IdleSlots DEF TypeInv, TypeOK, MatchCommit

LEMMA CrashType ==
    ASSUME TypeInv, Crash
    PROVE  TypeInv'
<1>1. ASSUME NEW m \in Message
      PROVE  Cardinality({w \in owned : task[w] = m}) \in Nat
  <2>1. IsFiniteSet({w \in owned : task[w] = m})
    BY PipelineAssumption, FS_Subset DEF TypeInv, TypeOK
  <2>2. QED
    BY <2>1, FS_CardinalityType
<1>2. queue' \in [Message -> Nat]
  BY <1>1 DEF TypeInv, TypeOK, Crash
<1>3. left' \in [Troubles -> Nat]
  BY SpendType DEF TypeInv, TypeOK, Crash, Troubles
<1>4. lost' \subseteq Kinds \X Evidence
  BY OfType DEF TypeInv, TypeOK, SlotsOK, Crash
<1>5. QED
  BY <1>2, <1>3, <1>4, NewSessionIsSession DEF TypeInv, TypeOK, SlotsOK, Crash, dataVars

LEMMA ChildLossType ==
    ASSUME TypeInv, NEW w \in Workers, ChildLoss(w)
    PROVE  TypeInv'
<1>1. left' \in [Troubles -> Nat]
  BY SpendType DEF TypeInv, TypeOK, ChildLoss, Troubles
<1>2. lost' \subseteq Kinds \X Evidence
  BY OfType DEF TypeInv, TypeOK, SlotsOK, ChildLoss
<1>3. QED
  BY <1>1, <1>2, IdleSlots DEF TypeInv, TypeOK, ChildLoss, dataVars

LEMMA RedeliverType ==
    ASSUME TypeInv, NEW w \in Workers, Redeliver(w)
    PROVE  TypeInv'
<1>1. task[w] \in Message
  BY DEF TypeInv, SlotsOK, Redeliver
<1>2. queue' \in [Message -> Nat]
  BY <1>1, SentIsQueue DEF TypeInv, TypeOK, Redeliver
<1>3. left' \in [Troubles -> Nat]
  BY SpendType DEF TypeInv, TypeOK, Redeliver, Troubles
<1>4. QED
  BY <1>2, <1>3 DEF TypeInv, TypeOK, SlotsOK, Redeliver, dataVars

LEMMA NextTypeInv == TypeInv /\ [Next]_vars => TypeInv'
<1> SUFFICES ASSUME TypeInv, [Next]_vars PROVE TypeInv'
  OBVIOUS
<1>1. ASSUME NEW e \in Evidence, Upload(e) \/ Dispatch(e) PROVE TypeInv'
  BY <1>1, UploadType, DispatchType
<1>2. CASE IngestRead \/ IngestCommit
  BY <1>2, IngestReadType, IngestCommitType
<1>3. ASSUME NEW w \in Workers, NEW m \in Message, Deliver(w, m) PROVE TypeInv'
  BY <1>3, DeliverType
<1>4. ASSUME NEW w \in Workers, Step(w) PROVE TypeInv'
  <2>1. CASE AbortRun(w)
    BY <2>1, PropagateType DEF AbortRun, TypeInv, TypeOK
  <2>2. QED
    BY <1>4, <2>1, EnterStageType, FinalizeType, FailRunType, RunOcrType, RunAIType,
       RunTimelineType, RunIndexingType, MatchReadType, MatchCommitType DEF Step
<1>5. ASSUME NEW w \in Workers, DbFailure(w) PROVE TypeInv'
  <2>1. left' \in [Troubles -> Nat]
    BY <1>5, SpendType DEF TypeInv, TypeOK, DbFailure, Troubles
  <2>2. QED
    BY <1>5, <2>1, PropagateType DEF DbFailure
<1>6. ASSUME NEW w \in Workers, ChildLoss(w) \/ Redeliver(w) PROVE TypeInv'
  BY <1>6, ChildLossType, RedeliverType
<1>7. CASE Crash
  BY <1>7, CrashType
<1>8. CASE UNCHANGED vars
  BY <1>8 DEF TypeInv, TypeOK, SlotsOK, vars
<1>9. QED
  BY <1>1, <1>2, <1>3, <1>4, <1>5, <1>6, <1>7, <1>8 DEF Next

(* Every reachable state of the pipeline is well-typed.                    *)
THEOREM TypeCorrect == Spec => []TypeOK
<1>1. Spec => []TypeInv
  BY InitTypeInv, NextTypeInv, PTL DEF Spec
<1>2. TypeInv => TypeOK
  BY DEF TypeInv
<1>3. QED
  BY <1>1, <1>2, PTL

-----------------------------------------------------------------------------
(***************************************************************************)
(* The inductive invariant.  The properties alone are not inductive: they  *)
(* speak of committed rows, and what a run will commit is in its session.  *)
(***************************************************************************)

(* Tasks, queued, running or still to be sent, have their row. *)
RowsForTasks ==
    /\ TasksHaveRows
    /\ \A e \in undispatched : row[e].status # "ABSENT"

(* Primary keys of extracted events are handed out once. *)
FreshIds ==
    /\ \A e \in Evidence : \A o \in row[e].raw : o < fresh
    /\ \A w \in Workers : \A o \in session[w].raw :
          o < fresh /\ \A e \in Evidence : o \notin row[e].raw
    /\ \A w, x \in Workers : w # x => session[w].raw \cap session[x].raw = {}
    /\ \A e, f \in Evidence : e # f => row[e].raw \cap row[f].raw = {}

(* What a session is about to commit to the timeline: mirrors of its own   *)
(* extraction, unless an earlier failure left older rows to catch up on.   *)
PendingMirrors ==
    /\ \A w \in Workers : session[w].raw # {} \/ session[w].canon # {} =>
          pc[w] = "enter" /\ at[w] = "GRAPH_QUEUE"
    /\ \A w \in Workers : \A c \in session[w].canon :
          /\ c.ev = task[w].ev
          /\ c.origin \in row[c.ev].raw \cup session[w].raw
          /\ c.ev \notin logged => c.origin \in session[w].raw
    /\ \A w \in Workers : \A c, d \in session[w].canon : c.origin = d.origin => c = d
    /\ \A w \in Workers : \A o \in session[w].raw :
          task[w].ev \in logged \/ \E c \in session[w].canon : c.origin = o
    /\ \A i \in ingest.rows : i.origin \in row[i.ev].raw /\ i.ev \in logged

(* Committed extraction without a logged failure is mirrored. *)
Mirrored ==
    \A e \in Evidence \ logged : \A o \in row[e].raw :
        \E t \in timeline : t.ev = e /\ t.origin = o

AfterOcr == {"AI_QUEUE", "TIMELINE_QUEUE", "GRAPH_QUEUE", "INDEXED", "COMPLETED"}
AfterAI == {"TIMELINE_QUEUE", "GRAPH_QUEUE", "INDEXED", "COMPLETED"}
AfterTimeline == {"GRAPH_QUEUE", "INDEXED", "COMPLETED"}

(* What a run has got done by the stage it has reached. *)
StageResults(w) ==
    pc[w] \in {"enter", "run"} /\ task[w].ev \in Textual \ logged =>
        /\ at[w] \in AfterOcr =>
              session[w].hasText /\ (session[w].text \/ row[task[w].ev].text)
        /\ at[w] \in AfterAI => session[w].ents \/ row[task[w].ev].ents > 0
        /\ at[w] \in AfterTimeline => session[w].raw # {} \/ row[task[w].ev].raw # {}

Progress == \A w \in Workers : StageResults(w)

(* CompletedIsEnriched without the mirrors, which Mirrored is about. *)
CompletedHasResults ==
    \A e \in Textual \ logged : row[e].status = "COMPLETED" =>
        row[e].text /\ row[e].ents > 0 /\ row[e].raw # {}

TimelineInv ==
    FreshIds /\ TimelineHasOrigin /\ PendingMirrors /\ Mirrored /\ OriginMirroredOnce

SafetyInv == TypeInv /\ RowsForTasks /\ TimelineInv /\ Progress /\ CompletedHasResults

-----------------------------------------------------------------------------

(* No step takes a status back to ABSENT or loses committed results.       *)
RowsKept ==
    \A e \in Evidence :
        /\ row[e].raw \subseteq row'[e].raw
        /\ row[e].text => row'[e].text
        /\ row[e].ents <= row'[e].ents
        /\ row[e].status # "ABSENT" => row'[e].status # "ABSENT"

(* A step that commits nothing to the timeline: each session keeps what it *)
(* is about to commit, or has nothing to commit after the step.            *)
Calm ==
    /\ \A e \in Evidence : row'[e].raw = row[e].raw
    /\ timeline' = timeline
    /\ logged \subseteq logged'
    /\ fresh' = fresh
    /\ ingest' = ingest
    /\ \A x \in Workers :
          \/ session'[x].raw = {} /\ session'[x].canon = {}
          \/ /\ session'[x].raw = session[x].raw
             /\ session'[x].canon = session[x].canon
             /\ task'[x] = task[x] /\ pc'[x] = pc[x] /\ at'[x] = at[x]

LEMMA CalmTimeline ==
    ASSUME TypeInv, TimelineInv, Calm
    PROVE  TimelineInv'
<1>1. FreshIds'
  BY DEF TimelineInv, FreshIds, Calm
<1>2. TimelineHasOrigin'
  BY DEF TypeInv, TypeOK, TimelineRow, TimelineInv, TimelineHasOrigin, Calm
<1>3. PendingMirrors'
  <2>1. \A w \in Workers : session'[w].raw # {} \/ session'[w].canon # {} =>
            pc'[w] = "enter" /\ at'[w] = "GRAPH_QUEUE"
    BY DEF TimelineInv, PendingMirrors, Calm
  <2>2. ASSUME NEW w \in Workers, NEW c \in session'[w].canon
        PROVE  /\ c.ev = task'[w].ev
               /\ c.origin \in row'[c.ev].raw \cup session'[w].raw
               /\ c.ev \notin logged' => c.origin \in session'[w].raw
    <3>1. /\ c \in session[w].canon
          /\ session'[w].raw = session[w].raw
          /\ task'[w] = task[w]
      BY <2>2 DEF Calm
    <3>2. c.ev \in Evidence
      BY <3>1 DEF TypeInv, TypeOK, Session, TimelineRow
    <3>3. QED
      BY <3>1, <3>2 DEF TimelineInv, PendingMirrors, Calm
  <2>3. \A w \in Workers : \A c, d \in session'[w].canon : c.origin = d.origin => c = d
    BY DEF TimelineInv, PendingMirrors, Calm
  <2>4. \A w \in Workers : \A o \in session'[w].raw :
            task'[w].ev \in logged' \/ \E c \in session'[w].canon : c.origin = o
    BY DEF TimelineInv, PendingMirrors, Calm
  <2>5. \A i \in ingest'.rows : i.origin \in row'[i.ev].raw /\ i.ev \in logged'
    BY DEF TypeInv, TypeOK, TimelineRow, TimelineInv, PendingMirrors, Calm
  <2>6. QED
    BY <2>1, <2>2, <2>3, <2>4, <2>5 DEF PendingMirrors
<1>4. Mirrored'
  BY DEF TimelineInv, Mirrored, Calm
<1>5. OriginMirroredOnce'
  BY DEF TimelineInv, OriginMirroredOnce, Calm
<1>6. QED
  BY <1>1, <1>2, <1>3, <1>4, <1>5 DEF TimelineInv

(* What w's session holds becomes durable.                                 *)
Committed(w) ==
    /\ row'[task[w].ev].raw = row[task[w].ev].raw \cup session[w].raw
    /\ \A e \in Evidence : e # task[w].ev => row'[e] = row[e]
    /\ timeline' = timeline \cup session[w].canon
    /\ session'[w].raw = {} /\ session'[w].canon = {}
    /\ \A x \in Workers : x # w =>
          /\ session'[x] = session[x]
          /\ task'[x] = task[x] /\ pc'[x] = pc[x] /\ at'[x] = at[x]
    /\ UNCHANGED <<logged, fresh, ingest>>

LEMMA CommittedTimeline ==
    ASSUME TypeInv, TimelineInv, NEW w \in Workers, pc[w] # "idle", Committed(w)
    PROVE  TimelineInv'
<1> DEFINE e == task[w].ev
<1>0. e \in Evidence
  BY MessageParts DEF TypeInv, SlotsOK
<1>a. \A t \in timeline \cup session[w].canon : t.ev \in Evidence
  BY DEF TypeInv, TypeOK, Session, TimelineRow
<1>b. \A x \in Workers : \A c \in session[x].canon : c.ev \in Evidence
  BY DEF TypeInv, TypeOK, Session, TimelineRow
<1>c. \A f \in Evidence : row[f].raw \subseteq row'[f].raw
  BY DEF Committed
<1>d. \A f \in Evidence : f # e => row'[f].raw = row[f].raw
  BY DEF Committed
<1>e. \A f \in Evidence : \A o \in row'[f].raw :
        o \in row[f].raw \/ (f = e /\ o \in session[w].raw)
  BY <1>0 DEF Committed
<1>1. FreshIds'
  <2>1. \A f \in Evidence : \A o \in row'[f].raw : o < fresh'
    BY <1>e DEF Committed, TimelineInv, FreshIds
  <2>2. ASSUME NEW x \in Workers, NEW o \in session'[x].raw
        PROVE  o < fresh' /\ \A f \in Evidence : o \notin row'[f].raw
    <3>1. x # w /\ o \in session[x].raw
      BY <2>2 DEF Committed
    <3>2. o \notin session[w].raw
      BY <3>1 DEF TimelineInv, FreshIds
    <3>3. QED
      BY <1>e, <3>1, <3>2 DEF Committed, TimelineInv, FreshIds
  <2>3. \A x, y \in Workers : x # y => session'[x].raw \cap session'[y].raw = {}
    BY DEF Committed, TimelineInv, FreshIds
  <2>4. \A f, g \in Evidence : f # g => row'[f].raw \cap row'[g].raw = {}
    BY <1>e DEF TimelineInv, FreshIds
  <2>5. QED
    BY <2>1, <2>2, <2>3, <2>4 DEF FreshIds
<1>2. TimelineHasOrigin'
  <2>1. ASSUME NEW t \in timeline'
        PROVE  t.origin \in row'[t.ev].raw
    <3>1. CASE t \in timeline
      BY <1>a, <1>c, <3>1 DEF TimelineInv, TimelineHasOrigin
    <3>2. CASE t \in session[w].canon
      BY <1>0, <3>2 DEF TimelineInv, PendingMirrors, Committed
    <3>3. QED
      BY <2>1, <3>1, <3>2 DEF Committed
  <2>2. QED
    BY <2>1 DEF TimelineHasOrigin
<1>3. PendingMirrors'
  <2>1. \A x \in Workers : session'[x].raw # {} \/ session'[x].canon # {} =>
            pc'[x] = "enter" /\ at'[x] = "GRAPH_QUEUE"
    BY DEF TimelineInv, PendingMirrors, Committed
  <2>2. ASSUME NEW x \in Workers, NEW c \in session'[x].canon
        PROVE  /\ c.ev = task'[x].ev
               /\ c.origin \in row'[c.ev].raw \cup session'[x].raw
               /\ c.ev \notin logged' => c.origin \in session'[x].raw
    <3>1. c \in session[x].canon /\ session'[x] = session[x] /\ task'[x] = task[x]
      BY <2>2 DEF Committed
    <3>2. c.ev \in Evidence
      BY <1>b, <3>1
    <3>3. QED
      BY <1>c, <3>1, <3>2 DEF TimelineInv, PendingMirrors, Committed
  <2>3. \A x \in Workers : \A c, d \in session'[x].canon : c.origin = d.origin => c = d
    BY DEF TimelineInv, PendingMirrors, Committed
  <2>4. \A x \in Workers : \A o \in session'[x].raw :
            task'[x].ev \in logged' \/ \E c \in session'[x].canon : c.origin = o
    BY DEF TimelineInv, PendingMirrors, Committed
  <2>5. \A i \in ingest'.rows : i.origin \in row'[i.ev].raw /\ i.ev \in logged'
    BY <1>c DEF TypeInv, TypeOK, TimelineRow, TimelineInv, PendingMirrors, Committed
  <2>6. QED
    BY <2>1, <2>2, <2>3, <2>4, <2>5 DEF PendingMirrors
<1>4. Mirrored'
  <2>1. ASSUME NEW f \in Evidence, f \notin logged', NEW o \in row'[f].raw
        PROVE  \E t \in timeline' : t.ev = f /\ t.origin = o
    <3>1. CASE o \in row[f].raw
      BY <2>1, <3>1 DEF TimelineInv, Mirrored, Committed
    <3>2. CASE f = e /\ o \in session[w].raw
      <4>1. PICK c \in session[w].canon : c.origin = o
        BY <2>1, <3>2 DEF TimelineInv, PendingMirrors, Committed
      <4>2. c.ev = f /\ c \in timeline'
        BY <3>2, <4>1 DEF TimelineInv, PendingMirrors, Committed
      <4>3. QED
        BY <4>1, <4>2
    <3>3. QED
      BY <1>e, <2>1, <3>1, <3>2
  <2>2. QED
    BY <2>1 DEF Mirrored
<1>5. OriginMirroredOnce'
  <2>1. ASSUME NEW s \in timeline', NEW t \in timeline', s.origin = t.origin, s.ev \notin logged
        PROVE  s = t
    <3>1. CASE s \in timeline /\ t \in timeline
      BY <2>1, <3>1 DEF TimelineInv, OriginMirroredOnce
    <3>2. CASE s \in session[w].canon /\ t \in session[w].canon
      BY <2>1, <3>2 DEF TimelineInv, PendingMirrors
    <3>3. CASE s \in session[w].canon /\ t \in timeline
      <4>1. s.origin \in session[w].raw
        BY <2>1, <3>3 DEF TimelineInv, PendingMirrors
      <4>2. t.origin \in row[t.ev].raw /\ t.ev \in Evidence
        BY <1>a, <3>3 DEF TimelineInv, TimelineHasOrigin
      <4>3. QED
        BY <2>1, <4>1, <4>2 DEF TimelineInv, FreshIds
    <3>4. CASE s \in timeline /\ t \in session[w].canon
      <4>1. s.origin \in row[s.ev].raw /\ s.ev \in Evidence
        BY <1>a, <3>4 DEF TimelineInv, TimelineHasOrigin
      <4>2. t.origin \notin session[w].raw
        BY <2>1, <4>1 DEF TimelineInv, FreshIds
      <4>3. t.origin \in row[t.ev].raw /\ t.ev \in Evidence /\ t.ev \in logged
        BY <1>a, <3>4, <4>2 DEF TimelineInv, PendingMirrors
      <4>4. QED
        BY <2>1, <4>1, <4>3 DEF TimelineInv, FreshIds
    <3>5. QED
      BY <2>1, <3>1, <3>2, <3>3, <3>4 DEF Committed
  <2>2. QED
    BY <2>1 DEF OriginMirroredOnce, Committed
<1>6. QED
  BY <1>1, <1>2, <1>3, <1>4, <1>5 DEF TimelineInv

-----------------------------------------------------------------------------
(* Every action keeps TimelineInv: by CalmTimeline, by CommittedTimeline,  *)
(* or - ingest and the timeline stage - by an argument of its own.         *)

LEMMA FlushedFacts ==
    ASSUME TypeInv, NEW w \in Workers, pc[w] # "idle", NEW s \in Status, s # "ABSENT"
    PROVE  LET r == row[task[w].ev]
               f == Flushed(w, s)
           IN  /\ task[w].ev \in Evidence
               /\ f \in Row
               /\ f.raw = r.raw \cup session[w].raw
               /\ r.text \/ session[w].text => f.text
               /\ f.ents \in Nat /\ r.ents <= f.ents
               /\ session[w].ents => f.ents > 0
               /\ f.ents > 0 => r.ents > 0 \/ session[w].ents
               /\ f.status \in {r.status, s}
               /\ s # session[w].mem => f.status = s
<1>1. task[w].ev \in Evidence
  BY MessageParts DEF TypeInv, SlotsOK
<1>2. row[task[w].ev] \in Row /\ row[task[w].ev].ents \in Nat
  BY <1>1 DEF TypeInv, TypeOK, Row
<1>3. Flushed(w, s) \in Row
  BY CommitType
<1>4. Flushed(w, s).raw = row[task[w].ev].raw \cup session[w].raw
  BY <1>2 DEF Flushed, Row
<1>5. row[task[w].ev].text \/ session[w].text => Flushed(w, s).text
  BY <1>2 DEF Flushed, Row
<1>6. Flushed(w, s).ents = IF session[w].ents THEN row[task[w].ev].ents + 1
                                              ELSE row[task[w].ev].ents
  BY <1>2 DEF Flushed, Row
<1>7. /\ Flushed(w, s).status \in {row[task[w].ev].status, s}
      /\ s # session[w].mem => Flushed(w, s).status = s
  BY <1>2 DEF Flushed, Row
<1>8. QED
  BY <1>1, <1>2, <1>3, <1>4, <1>5, <1>6, <1>7

(* The slot drops its session and nothing else about the timeline changes. *)
LEMMA IdleCalm ==
    ASSUME TypeInv, NEW w \in Workers, Idle(w), \A e \in Evidence : row'[e].raw = row[e].raw,
           timeline' = timeline, logged' = logged, fresh' = fresh, ingest' = ingest
    PROVE  Calm
<1>1. session'[w].raw = {} /\ session'[w].canon = {}
  BY DEF TypeInv, TypeOK, Idle, NewSession
<1>2. \A x \in Workers : x # w =>
          /\ session'[x] = session[x]
          /\ task'[x] = task[x] /\ pc'[x] = pc[x] /\ at'[x] = at[x]
  BY DEF TypeInv, TypeOK, Idle
<1>3. QED
  BY <1>1, <1>2 DEF Calm

(* The body of a stage other than the timeline stage. *)
LEMMA BodyCalm ==
    ASSUME TypeInv, TimelineInv, NEW w \in Workers, pc[w] \in {"run", "match"},
           \A x \in Workers : x # w =>
              /\ session'[x] = session[x]
              /\ task'[x] = task[x] /\ pc'[x] = pc[x] /\ at'[x] = at[x],
           session'[w].raw = session[w].raw, session'[w].canon = session[w].canon,
           logged \subseteq logged', UNCHANGED <<row, timeline, fresh, ingest>>
    PROVE  Calm
<1>1. session[w].raw = {} /\ session[w].canon = {}
  BY DEF TimelineInv, PendingMirrors
<1>2. QED
  BY <1>1 DEF Calm

LEMMA StageDoneOthers ==
    ASSUME TypeInv, NEW w \in Workers, StageDone(w), UNCHANGED task
    PROVE  \A x \in Workers : x # w =>
              task'[x] = task[x] /\ pc'[x] = pc[x] /\ at'[x] = at[x]
  BY DEF TypeInv, TypeOK, StageDone

LEMMA UploadTimeline ==
    ASSUME TypeInv, TimelineInv, NEW e \in Evidence, Upload(e)
    PROVE  TimelineInv'
<1>1. \A f \in Evidence : row'[f].raw = row[f].raw
  BY DEF TypeInv, TypeOK, Row, Upload
<1>2. Calm
  BY <1>1 DEF Upload, Calm, workerVars
<1>3. QED
  BY <1>2, CalmTimeline

LEMMA DispatchTimeline ==
    ASSUME TypeInv, TimelineInv, NEW e \in Evidence, Dispatch(e)
    PROVE  TimelineInv'
<1>1. Calm
  BY DEF Dispatch, Calm, workerVars, dataVars
<1>2. QED
  BY <1>1, CalmTimeline

LEMMA IngestReadTimeline ==
    ASSUME TypeInv, TimelineInv, IngestRead
    PROVE  TimelineInv'
<1>1. ASSUME NEW i \in ingest'.rows
      PROVE  i.origin \in row[i.ev].raw /\ i.ev \in logged
  <2>1. PICK e \in Evidence : \E o \in row[e].raw :
           /\ i.origin = o /\ i.ev = e
           /\ \A t \in timeline : t.origin # o
    BY <1>1 DEF IngestRead, IngestRows, Batches
  <2>2. e \in logged
    BY <2>1 DEF TimelineInv, Mirrored
  <2>3. QED
    BY <2>1, <2>2
<1>2. FreshIds'
  BY DEF TypeInv, TypeOK, Row, Session, TimelineInv, FreshIds, IngestRead, workerVars, dataVars
<1>3. PendingMirrors'
  BY <1>1 DEF TimelineInv, PendingMirrors, IngestRead, workerVars, dataVars
<1>4. Mirrored' /\ TimelineHasOrigin' /\ OriginMirroredOnce'
  BY DEF TimelineInv, Mirrored, TimelineHasOrigin, OriginMirroredOnce, IngestRead, dataVars
<1>5. QED
  BY <1>2, <1>3, <1>4 DEF TimelineInv

LEMMA IngestCommitTimeline ==
    ASSUME TypeInv, TimelineInv, IngestCommit
    PROVE  TimelineInv'
<1>1. \A i \in ingest.rows : i.origin \in row[i.ev].raw /\ i.ev \in logged /\ i.ev \in Evidence
  BY DEF TypeInv, TypeOK, TimelineRow, TimelineInv, PendingMirrors
<1>2. FreshIds' /\ PendingMirrors' /\ Mirrored'
  BY DEF TimelineInv, FreshIds, PendingMirrors, Mirrored, IngestCommit, NoIngest, workerVars
<1>3. TimelineHasOrigin'
  BY <1>1 DEF TimelineInv, TimelineHasOrigin, IngestCommit
<1>4. ASSUME NEW s \in timeline', NEW t \in timeline', s.origin = t.origin, s.ev \notin logged
      PROVE  s = t
  <2>1. s \in timeline
    BY <1>1, <1>4 DEF IngestCommit
  <2>2. s.ev \in Evidence /\ s.origin \in row[s.ev].raw
    BY <2>1 DEF TypeInv, TypeOK, TimelineRow, TimelineInv, TimelineHasOrigin
  <2>3. CASE t \in timeline
    BY <1>4, <2>1, <2>3 DEF TimelineInv, OriginMirroredOnce
  <2>4. CASE t \in ingest.rows
    BY <1>1, <1>4, <2>2, <2>4 DEF TimelineInv, FreshIds
  <2>5. QED
    BY <1>4, <2>3, <2>4 DEF IngestCommit
<1>5. OriginMirroredOnce'
  BY <1>4 DEF OriginMirroredOnce, IngestCommit
<1>6. QED
  BY <1>2, <1>3, <1>5 DEF TimelineInv

LEMMA DeliverTimeline ==
    ASSUME TypeInv, TimelineInv, NEW w \in Workers, NEW m \in Message, Deliver(w, m)
    PROVE  TimelineInv'
<1>1. CASE row[m.ev].status = "ABSENT"
  <2>1. Calm
    BY <1>1 DEF Deliver, Calm, workerVars, dataVars
  <2>2. QED
    BY <2>1, CalmTimeline
<1>2. CASE row[m.ev].status # "ABSENT"
  <2>1. session'[w].raw = {} /\ session'[w].canon = {}
    BY <1>2 DEF TypeInv, TypeOK, Deliver, NewSession
  <2>2. \A x \in Workers : x # w =>
          /\ session'[x] = session[x]
          /\ task'[x] = task[x] /\ pc'[x] = pc[x] /\ at'[x] = at[x]
    BY <1>2 DEF TypeInv, TypeOK, Deliver
  <2>3. Calm
    BY <2>1, <2>2 DEF Deliver, Calm, dataVars
  <2>4. QED
    BY <2>3, CalmTimeline
<1>3. QED
  BY <1>1, <1>2

LEMMA EndTimeline ==
    ASSUME TypeInv, TimelineInv, NEW w \in Workers,
           DbFailure(w) \/ AbortRun(w) \/ ChildLoss(w) \/ MatchCommit(w)
    PROVE  TimelineInv'
<1>1. Calm
  BY IdleCalm DEF DbFailure, AbortRun, ChildLoss, MatchCommit, Propagate, dataVars
<1>2. QED
  BY <1>1, CalmTimeline

LEMMA FailRunTimeline ==
    ASSUME TypeInv, TimelineInv, NEW w \in Workers, FailRun(w)
    PROVE  TimelineInv'
<1>1. pc[w] # "idle" /\ session[w].raw = {} /\ "FAILED" \in Status
  BY DEF FailRun, TimelineInv, PendingMirrors, Status
<1>2. /\ task[w].ev \in Evidence
      /\ Flushed(w, "FAILED") \in Row
      /\ Flushed(w, "FAILED").raw = row[task[w].ev].raw
  <2>1. /\ task[w].ev \in Evidence
        /\ Flushed(w, "FAILED") \in Row
        /\ Flushed(w, "FAILED").raw = row[task[w].ev].raw \cup session[w].raw
    BY <1>1, FlushedFacts, Zenon
  <2>2. QED
    BY <1>1, <2>1
<1>3. PICK found \in BOOLEAN :
        row' = [row EXCEPT ![task[w].ev] =
                   [Flushed(w, "FAILED") EXCEPT !.completedAt = TRUE, !.error = TRUE,
                                                !.text = @ \/ found]]
  BY DEF FailRun
<1>4. ASSUME NEW r \in Row, NEW t
      PROVE  [r EXCEPT !.completedAt = TRUE, !.error = TRUE, !.text = t].raw = r.raw
  BY DEF Row
<1>5. \A e \in Evidence : row'[e].raw = row[e].raw
  BY <1>2, <1>3, <1>4 DEF TypeInv, TypeOK
<1>6. Calm
  BY <1>5, IdleCalm DEF FailRun
<1>7. QED
  BY <1>6, CalmTimeline

LEMMA EnterStageTimeline ==
    ASSUME TypeInv, TimelineInv, NEW w \in Workers, EnterStage(w)
    PROVE  TimelineInv'
<1>1. pc[w] # "idle" /\ at[w] \in Status /\ at[w] # "ABSENT"
  BY StageIsStatus DEF EnterStage, TypeInv, TypeOK, Stage, NextStage
<1>2. /\ task[w].ev \in Evidence
      /\ Flushed(w, at[w]).raw = row[task[w].ev].raw \cup session[w].raw
  BY <1>1, FlushedFacts
<1>3. session'[w].raw = {} /\ session'[w].canon = {}
  BY DEF EnterStage, Cleared, TypeInv, TypeOK, Session
<1>4. \A x \in Workers : x # w =>
          /\ session'[x] = session[x]
          /\ task'[x] = task[x] /\ pc'[x] = pc[x] /\ at'[x] = at[x]
  BY DEF EnterStage, TypeInv, TypeOK
<1>5. /\ row'[task[w].ev].raw = row[task[w].ev].raw \cup session[w].raw
      /\ \A e \in Evidence : e # task[w].ev => row'[e] = row[e]
  BY <1>2 DEF EnterStage, TypeInv, TypeOK
<1>6. Committed(w)
  BY <1>3, <1>4, <1>5 DEF Committed, EnterStage
<1>7. QED
  BY <1>1, <1>6, CommittedTimeline

LEMMA FinalizeTimeline ==
    ASSUME TypeInv, TimelineInv, NEW w \in Workers, Finalize(w)
    PROVE  TimelineInv'
<1>1. pc[w] # "idle" /\ "COMPLETED" \in Status
  BY DEF Finalize, Status, Stage
<1>2. /\ task[w].ev \in Evidence
      /\ Flushed(w, "COMPLETED") \in Row
      /\ Flushed(w, "COMPLETED").raw = row[task[w].ev].raw \cup session[w].raw
  BY <1>1, FlushedFacts
<1>3. session'[w].raw = {} /\ session'[w].canon = {}
  BY DEF Finalize, Idle, NewSession, TypeInv, TypeOK
<1>4. \A x \in Workers : x # w =>
          /\ session'[x] = session[x]
          /\ task'[x] = task[x] /\ pc'[x] = pc[x] /\ at'[x] = at[x]
  BY DEF Finalize, Idle, TypeInv, TypeOK
<1>5. [Flushed(w, "COMPLETED") EXCEPT !.completedAt = TRUE].raw = Flushed(w, "COMPLETED").raw
  BY <1>2 DEF Row
<1>6. /\ row'[task[w].ev].raw = row[task[w].ev].raw \cup session[w].raw
      /\ \A e \in Evidence : e # task[w].ev => row'[e] = row[e]
  BY <1>2, <1>5 DEF Finalize, TypeInv, TypeOK
<1>7. Committed(w)
  BY <1>3, <1>4, <1>6 DEF Committed, Finalize
<1>8. QED
  BY <1>1, <1>7, CommittedTimeline

LEMMA BodyTimeline ==
    ASSUME TypeInv, TimelineInv, NEW w \in Workers,
           RunOcr(w) \/ RunAI(w) \/ RunIndexing(w) \/ MatchRead(w)
    PROVE  TimelineInv'
<1>1. pc[w] \in {"run", "match"} /\ UNCHANGED <<row, timeline, fresh, ingest>>
  BY DEF RunOcr, RunAI, RunIndexing, MatchRead, dataVars
<1>2. \A x \in Workers : x # w => task'[x] = task[x] /\ pc'[x] = pc[x] /\ at'[x] = at[x]
  BY StageDoneOthers DEF TypeInv, TypeOK, RunOcr, RunAI, RunIndexing, MatchRead
<1>3. /\ \A x \in Workers : x # w => session'[x] = session[x]
      /\ session'[w].raw = session[w].raw /\ session'[w].canon = session[w].canon
  <2>1. CASE RunOcr(w)
    <3>1. PICK b \in BOOLEAN :
             session' = [session EXCEPT ![w].hasText = task[w].ev \in Textual /\ ~b,
                                        ![w].text = task[w].ev \in Textual /\ ~b]
      BY <2>1 DEF RunOcr
    <3>2. QED
      BY <3>1 DEF TypeInv, TypeOK, Session
  <2>2. CASE RunAI(w)
    <3>1. \/ UNCHANGED session
          \/ \E b \in BOOLEAN : session' = [session EXCEPT ![w].ents = b]
      <4>1. CASE ~session[w].hasText
        BY <2>2, <4>1 DEF RunAI
      <4>2. CASE session[w].hasText
        <5>1. \/ \E f \in BOOLEAN : session' = [session EXCEPT ![w].ents = ~f]
              \/ session' = [session EXCEPT ![w].ents = TRUE]
          BY <2>2, <4>2, Zenon DEF RunAI
        <5>2. \A f \in BOOLEAN : (~f) \in BOOLEAN
          OBVIOUS
        <5>3. QED
          BY <5>1, <5>2
      <4>3. QED
        BY <4>1, <4>2
    <3>2. QED
      BY <3>1 DEF TypeInv, TypeOK, Session
  <2>3. CASE RunIndexing(w)
    BY <2>3 DEF TypeInv, TypeOK, Session, RunIndexing, Poison
  <2>4. CASE MatchRead(w)
    BY <2>4 DEF TypeInv, TypeOK, Session, MatchRead
  <2>5. QED
    BY <2>1, <2>2, <2>3, <2>4
<1>4. logged \subseteq logged'
  BY DEF RunOcr, RunAI, RunIndexing, Poison, MatchRead, Caught, dataVars
<1>5. Calm
  BY <1>1, <1>2, <1>3, <1>4, BodyCalm
<1>6. QED
  BY <1>5, CalmTimeline

LEMMA RedeliverTimeline ==
    ASSUME TypeInv, TimelineInv, NEW w \in Workers, Redeliver(w)
    PROVE  TimelineInv'
<1>1. Calm
  BY DEF Redeliver, Calm, dataVars
<1>2. QED
  BY <1>1, CalmTimeline

LEMMA CrashTimeline ==
    ASSUME TypeInv, TimelineInv, Crash
    PROVE  TimelineInv'
<1>1. Calm
  BY DEF Crash, Calm, NewSession, dataVars
<1>2. QED
  BY <1>1, CalmTimeline

(* What a timeline stage that extracted raw mirrors into the timeline. *)
StageRows(e, raw) == IngestRows(Batches(e, row[e].raw \cup raw), fresh)

LEMMA StageMirrors ==
    ASSUME TimelineInv, NEW e \in Evidence, NEW raw
    PROVE  /\ \A c \in StageRows(e, raw) :
                /\ c.ev = e
                /\ c.origin \in row[e].raw \cup raw
                /\ e \notin logged => c.origin \in raw
           /\ \A c, d \in StageRows(e, raw) : c.origin = d.origin => c = d
           /\ \A o \in raw : (\A t \in timeline : t.origin # o)
                => \E c \in StageRows(e, raw) : c.origin = o
<1>1. ASSUME NEW c \in StageRows(e, raw)
      PROVE  /\ c = [id |-> fresh, origin |-> c.origin, ev |-> e]
             /\ c.ev = e
             /\ c.origin \in row[e].raw \cup raw
             /\ \A t \in timeline : t.origin # c.origin
  <2>1. PICK b \in Batches(e, row[e].raw \cup raw) :
          /\ c = [id |-> fresh, origin |-> b.origin, ev |-> b.ev]
          /\ \A t \in timeline : t.origin # b.origin
    BY <1>1 DEF IngestRows, StageRows
  <2>2. b.ev = e /\ b.origin \in row[e].raw \cup raw
    BY <2>1 DEF Batches
  <2>3. QED
    BY <2>1, <2>2
<1>2. ASSUME NEW o \in raw, \A t \in timeline : t.origin # o
      PROVE  \E c \in StageRows(e, raw) : c.origin = o
  <2>1. [id |-> fresh, origin |-> o, ev |-> e] \in StageRows(e, raw)
    <3>1. [ev |-> e, origin |-> o] \in Batches(e, row[e].raw \cup raw)
      BY DEF Batches
    <3>2. QED
      BY <1>2, <3>1 DEF IngestRows, StageRows
  <2>2. QED
    BY <2>1
<1>3. e \notin logged => \A c \in StageRows(e, raw) : c.origin \in raw
  BY <1>1 DEF TimelineInv, Mirrored
<1>4. \A c, d \in StageRows(e, raw) : c.origin = d.origin => c = d
  BY <1>1
<1>5. QED
  BY <1>1, <1>2, <1>3, <1>4

LEMMA RunTimelineTimeline ==
    ASSUME TypeInv, TimelineInv, NEW w \in Workers, RunTimeline(w)
    PROVE  TimelineInv'
<1> DEFINE e == task[w].ev
<1>1. /\ pc[w] = "run" /\ e \in Evidence /\ UNCHANGED <<row, timeline, ingest, task>>
      /\ pc'[w] = "enter" /\ at'[w] = "GRAPH_QUEUE"
      /\ session[w].raw = {} /\ session[w].canon = {}
  BY MessageParts DEF TypeInv, TypeOK, SlotsOK, RunTimeline, StageDone, NextStage,
     TimelineInv, PendingMirrors
<1>2. /\ \A x \in Workers : x # w =>
            /\ session'[x] = session[x]
            /\ task'[x] = task[x] /\ pc'[x] = pc[x] /\ at'[x] = at[x]
      /\ logged \subseteq logged'
  BY DEF TypeInv, TypeOK, RunTimeline, StageDone, Poison, Caught
<1>3. CASE ~session[w].hasText \/ (Poison(w) /\ UNCHANGED fresh)
  <2>1. session'[w].raw = session[w].raw /\ session'[w].canon = session[w].canon /\ fresh' = fresh
    BY <1>3 DEF TypeInv, TypeOK, Session, RunTimeline, Poison
  <2>2. Calm
    BY <1>1, <1>2, <2>1, BodyCalm
  <2>3. QED
    BY <2>2, CalmTimeline
<1>4. CASE session[w].hasText /\ ~(Poison(w) /\ UNCHANGED fresh)
  <2>1. PICK extracted \in BOOLEAN, mirrored \in BOOLEAN :
          /\ Caught(w, ~extracted \/ ~mirrored)
          /\ session' = [session EXCEPT
                ![w].raw = IF extracted THEN {fresh} ELSE {},
                ![w].canon =
                    IF mirrored
                    THEN IngestRows(Batches(e, row[e].raw \cup
                                               (IF extracted THEN {fresh} ELSE {})), fresh)
                    ELSE {}]
          /\ fresh' = fresh + 1
    BY <1>4 DEF RunTimeline
  <2> DEFINE raw == IF extracted THEN {fresh} ELSE {}
             rows == StageRows(e, raw)
  <2>2. raw \in SUBSET Nat /\ fresh \in Nat
    BY DEF TypeInv, TypeOK
  <2>3. session'[w].raw = raw /\ session'[w].canon = IF mirrored THEN rows ELSE {}
    BY <2>1 DEF TypeInv, TypeOK, Session, StageRows
  <2>4. e \notin logged' => extracted /\ mirrored
    BY <2>1 DEF Caught
  <2>5. \A t \in timeline : t.ev \in Evidence /\ t.origin \in Nat /\ t.origin < fresh
    BY DEF TypeInv, TypeOK, TimelineRow, TimelineInv, TimelineHasOrigin, FreshIds
  <2>6. /\ \A c \in rows :
              /\ c.ev = e
              /\ c.origin \in row[e].raw \cup raw
              /\ e \notin logged => c.origin \in raw
        /\ \A c, d \in rows : c.origin = d.origin => c = d
        /\ \A o \in raw : (\A t \in timeline : t.origin # o)
                => \E c \in rows : c.origin = o
    <3>1. e \in Evidence
      BY <1>1
    <3> HIDE DEF raw, e
    <3>2. QED
      BY ONLY <3>1, StageMirrors, TimelineInv
  <2>7. \A o \in raw :
          /\ o = fresh
          /\ \A f \in Evidence : o \notin row[f].raw
          /\ \A x \in Workers : o \notin session[x].raw
          /\ \A t \in timeline : t.origin # o
    BY <2>2, <2>5 DEF TypeInv, TypeOK, Row, Session, TimelineInv, FreshIds
  <2> HIDE DEF rows, raw
  <2>8. FreshIds'
    <3>1. \A f \in Evidence : \A o \in row'[f].raw : o < fresh'
      BY <1>1, <2>1, <2>2 DEF TypeInv, TypeOK, Row, TimelineInv, FreshIds
    <3>2. \A x \in Workers : \A o \in session'[x].raw :
              o < fresh' /\ \A f \in Evidence : o \notin row'[f].raw
      BY <1>1, <1>2, <2>1, <2>2, <2>3, <2>7 DEF TypeInv, TypeOK, Session, TimelineInv, FreshIds
    <3>3. \A x, y \in Workers : x # y => session'[x].raw \cap session'[y].raw = {}
      BY <1>2, <2>3, <2>7 DEF TimelineInv, FreshIds
    <3>4. QED
      BY <1>1, <3>1, <3>2, <3>3 DEF TimelineInv, FreshIds
  <2>9. PendingMirrors'
    <3>1. \A x \in Workers : session'[x].raw # {} \/ session'[x].canon # {} =>
              pc'[x] = "enter" /\ at'[x] = "GRAPH_QUEUE"
      BY <1>1, <1>2 DEF TimelineInv, PendingMirrors
    <3>2. ASSUME NEW x \in Workers, NEW c \in session'[x].canon
          PROVE  /\ c.ev = task'[x].ev
                 /\ c.origin \in row'[c.ev].raw \cup session'[x].raw
                 /\ c.ev \notin logged' => c.origin \in session'[x].raw
      <4>1. CASE x = w
        BY <1>1, <1>2, <2>3, <2>6, <3>2, <4>1
      <4>2. CASE x # w
        BY <1>1, <1>2, <3>2, <4>2 DEF TimelineInv, PendingMirrors
      <4>3. QED
        BY <4>1, <4>2
    <3>3. \A x \in Workers : \A c, d \in session'[x].canon : c.origin = d.origin => c = d
      BY <1>2, <2>3, <2>6 DEF TimelineInv, PendingMirrors
    <3>4. ASSUME NEW x \in Workers, NEW o \in session'[x].raw
          PROVE  task'[x].ev \in logged' \/ \E c \in session'[x].canon : c.origin = o
      <4>1. CASE x = w
        BY <1>1, <2>3, <2>4, <2>6, <2>7, <3>4, <4>1
      <4>2. CASE x # w
        BY <1>1, <1>2, <3>4, <4>2 DEF TimelineInv, PendingMirrors
      <4>3. QED
        BY <4>1, <4>2
    <3>5. \A i \in ingest'.rows : i.origin \in row'[i.ev].raw /\ i.ev \in logged'
      BY <1>1, <1>2 DEF TimelineInv, PendingMirrors
    <3>6. QED
      BY <3>1, <3>2, <3>3, <3>4, <3>5 DEF PendingMirrors
  <2>10. TimelineHasOrigin' /\ Mirrored' /\ OriginMirroredOnce'
    BY <1>1, <1>2 DEF TimelineInv, TimelineHasOrigin, Mirrored, OriginMirroredOnce
  <2>11. QED
    BY <2>8, <2>9, <2>10 DEF TimelineInv
<1>5. QED
  BY <1>3, <1>4

LEMMA NextTimeline ==
    ASSUME TypeInv, TimelineInv, [Next]_vars
    PROVE  TimelineInv'
<1>1. ASSUME NEW e \in Evidence, Upload(e) \/ Dispatch(e) PROVE TimelineInv'
  BY <1>1, UploadTimeline, DispatchTimeline
<1>2. CASE IngestRead \/ IngestCommit
  BY <1>2, IngestReadTimeline, IngestCommitTimeline
<1>3. ASSUME NEW w \in Workers, NEW m \in Message, Deliver(w, m) PROVE TimelineInv'
  BY <1>3, DeliverTimeline
<1>4. ASSUME NEW w \in Workers, Step(w) PROVE TimelineInv'
  BY <1>4, EnterStageTimeline, FinalizeTimeline, FailRunTimeline, RunTimelineTimeline,
     BodyTimeline, EndTimeline DEF Step
<1>5. ASSUME NEW w \in Workers, DbFailure(w) \/ ChildLoss(w) \/ Redeliver(w) PROVE TimelineInv'
  BY <1>5, EndTimeline, RedeliverTimeline
<1>6. CASE Crash
  BY <1>6, CrashTimeline
<1>7. CASE UNCHANGED vars
  <2>1. Calm
    BY <1>7 DEF vars, Calm
  <2>2. QED
    BY <2>1, CalmTimeline
<1>8. QED
  BY <1>1, <1>2, <1>3, <1>4, <1>5, <1>6, <1>7 DEF Next

-----------------------------------------------------------------------------
(* No step loses committed results, and every task keeps its row.          *)

LEMMA RunRow ==
    ASSUME TypeInv, NEW w \in Workers, EnterStage(w) \/ Finalize(w) \/ FailRun(w)
    PROVE  /\ task[w].ev \in Evidence /\ pc[w] # "idle"
           /\ \A e \in Evidence : e # task[w].ev => row'[e] = row[e]
           /\ row'[task[w].ev].raw = row[task[w].ev].raw \cup session[w].raw
           /\ row[task[w].ev].text \/ session[w].text => row'[task[w].ev].text
           /\ row'[task[w].ev].ents \in Nat
           /\ row[task[w].ev].ents <= row'[task[w].ev].ents
           /\ session[w].ents => row'[task[w].ev].ents > 0
           /\ row'[task[w].ev].ents > 0 => row[task[w].ev].ents > 0 \/ session[w].ents
           /\ \E s \in Status \ {"ABSENT"} :
                 /\ row'[task[w].ev].status \in {row[task[w].ev].status, s}
                 /\ s = "COMPLETED" => Finalize(w)
                 /\ s # session[w].mem => row'[task[w].ev].status = s
                 /\ s \in Terminal \/ EnterStage(w)
<1>1. CASE EnterStage(w)
  <2>1. /\ pc[w] # "idle" /\ at[w] \in Status /\ at[w] # "ABSENT" /\ at[w] # "COMPLETED"
        /\ row' = [row EXCEPT ![task[w].ev] = Flushed(w, at[w])]
    BY <1>1, StageIsStatus DEF EnterStage, TypeInv, TypeOK, Stage, NextStage
  <2>2. QED
    BY <1>1, <2>1, FlushedFacts DEF TypeInv, TypeOK
<1>2. CASE Finalize(w)
  <2>1. /\ pc[w] # "idle" /\ "COMPLETED" \in Status
        /\ row' = [row EXCEPT ![task[w].ev] =
                      [Flushed(w, "COMPLETED") EXCEPT !.completedAt = TRUE]]
    BY <1>2 DEF Finalize, Status, Stage
  <2>2. ASSUME NEW r \in Row, NEW q, q = [r EXCEPT !.completedAt = TRUE]
        PROVE  q.raw = r.raw /\ q.text = r.text /\ q.ents = r.ents /\ q.status = r.status
    BY <2>2 DEF Row
  <2>3. QED
    BY <1>2, <2>1, <2>2, FlushedFacts DEF TypeInv, TypeOK, Terminal
<1>3. CASE FailRun(w)
  <2>1. pc[w] # "idle" /\ "FAILED" \in Status
    BY <1>3 DEF FailRun, Status
  <2>2. PICK found \in BOOLEAN :
          row' = [row EXCEPT ![task[w].ev] =
                     [Flushed(w, "FAILED") EXCEPT !.completedAt = TRUE, !.error = TRUE,
                                                  !.text = @ \/ found]]
    BY <1>3 DEF FailRun
  <2>3. /\ task[w].ev \in Evidence
        /\ Flushed(w, "FAILED") \in Row
        /\ Flushed(w, "FAILED").raw = row[task[w].ev].raw \cup session[w].raw
        /\ row[task[w].ev].text \/ session[w].text => Flushed(w, "FAILED").text
        /\ Flushed(w, "FAILED").ents \in Nat
        /\ row[task[w].ev].ents <= Flushed(w, "FAILED").ents
        /\ session[w].ents => Flushed(w, "FAILED").ents > 0
        /\ Flushed(w, "FAILED").ents > 0 => row[task[w].ev].ents > 0 \/ session[w].ents
        /\ Flushed(w, "FAILED").status \in {row[task[w].ev].status, "FAILED"}
        /\ "FAILED" # session[w].mem => Flushed(w, "FAILED").status = "FAILED"
    BY <2>1, FlushedFacts
  <2>4. /\ row'[task[w].ev] =
               [Flushed(w, "FAILED") EXCEPT !.completedAt = TRUE, !.error = TRUE,
                                            !.text = Flushed(w, "FAILED").text \/ found]
        /\ \A e \in Evidence : e # task[w].ev => row'[e] = row[e]
    BY <2>2, <2>3 DEF TypeInv, TypeOK
  <2>5. (Flushed(w, "FAILED").text \/ found) \in BOOLEAN
    OBVIOUS
  <2>6. /\ row'[task[w].ev].raw = Flushed(w, "FAILED").raw
        /\ row'[task[w].ev].ents = Flushed(w, "FAILED").ents
        /\ row'[task[w].ev].status = Flushed(w, "FAILED").status
        /\ row'[task[w].ev].text = (Flushed(w, "FAILED").text \/ found)
    <3> DEFINE f == Flushed(w, "FAILED")
               t == f.text \/ found
               q == row'[task[w].ev]
    <3>1. f \in Row /\ t \in BOOLEAN
      BY <2>3, <2>5
    <3>2. q = [f EXCEPT !.completedAt = TRUE, !.error = TRUE, !.text = t]
      BY <2>4
    <3> HIDE DEF f, t, q
    <3>3. q.raw = f.raw /\ q.ents = f.ents /\ q.status = f.status /\ q.text = t
      BY <3>1, <3>2 DEF Row
    <3>4. QED
      BY <3>3, Zenon DEF f, t, q
  <2>7. QED
    BY <2>1, <2>3, <2>4, <2>6 DEF Terminal
<1>4. QED
  BY <1>1, <1>2, <1>3

LEMMA NextRows ==
    ASSUME TypeInv, [Next]_vars
    PROVE  RowsKept /\ logged \subseteq logged'
<1>1. ASSUME UNCHANGED row PROVE RowsKept
  <2>1. \A e \in Evidence : row[e].ents <= row[e].ents
    BY DEF TypeInv, TypeOK, Row
  <2>2. ASSUME NEW e \in Evidence
        PROVE  /\ row[e].raw \subseteq row'[e].raw
               /\ row[e].text => row'[e].text
               /\ row[e].ents <= row'[e].ents
               /\ row[e].status # "ABSENT" => row'[e].status # "ABSENT"
    <3>1. row'[e] = row[e]
      BY <1>1
    <3>2. row[e].text => row'[e].text
      BY <3>1, Zenon
    <3>3. QED
      BY <2>1, <3>1, <3>2
  <2>3. QED
    BY <2>2 DEF RowsKept
<1>2. ASSUME NEW e \in Evidence, Upload(e) PROVE RowsKept
  BY <1>2 DEF TypeInv, TypeOK, Row, Upload, RowsKept
<1>3. ASSUME NEW w \in Workers, EnterStage(w) \/ Finalize(w) \/ FailRun(w) PROVE RowsKept
  <2>1. \A e \in Evidence : row[e].ents \in Nat
    BY DEF TypeInv, TypeOK, Row
  <2>2. QED
    BY <1>3, <2>1, RunRow DEF RowsKept
<1>4. UNCHANGED row \/ (\E e \in Evidence : Upload(e))
      \/ \E w \in Workers : EnterStage(w) \/ Finalize(w) \/ FailRun(w)
  BY DEF Next, vars, Step, Dispatch, IngestRead, IngestCommit, Deliver, AbortRun, RunOcr, RunAI,
     RunTimeline, RunIndexing, MatchRead, MatchCommit, DbFailure, ChildLoss, Redeliver, Crash,
     Propagate, dataVars
<1>5. logged \subseteq logged'
  <2>1. ASSUME NEW e \in Evidence, Upload(e) \/ Dispatch(e) PROVE logged' = logged
    BY <2>1 DEF Upload, Dispatch, dataVars
  <2>2. ASSUME NEW w \in Workers, NEW m \in Message, Deliver(w, m) PROVE logged' = logged
    BY <2>2 DEF Deliver, dataVars
  <2>3. ASSUME NEW w \in Workers, EnterStage(w) \/ Finalize(w) \/ FailRun(w) \/ AbortRun(w)
        PROVE  logged \subseteq logged'
    BY <2>3 DEF EnterStage, Finalize, FailRun, AbortRun, Propagate, dataVars
  <2>4. ASSUME NEW w \in Workers, RunOcr(w) \/ RunAI(w) \/ RunTimeline(w) \/ RunIndexing(w)
        PROVE  logged \subseteq logged'
    <3>1. ASSUME NEW failed, Caught(w, failed) PROVE logged \subseteq logged'
      BY <3>1 DEF Caught
    <3>2. ASSUME Poison(w) PROVE logged \subseteq logged'
      BY <3>2 DEF Poison
    <3>3. CASE RunOcr(w)
      BY <3>1, <3>3, Zenon DEF RunOcr
    <3>4. CASE RunAI(w)
      BY <3>1, <3>4, Zenon DEF RunAI
    <3>5. CASE RunTimeline(w)
      BY <3>1, <3>2, <3>5, Zenon DEF RunTimeline
    <3>6. CASE RunIndexing(w)
      BY <3>1, <3>2, <3>6, Zenon DEF RunIndexing
    <3>7. QED
      BY <2>4, <3>3, <3>4, <3>5, <3>6
  <2>5. ASSUME NEW w \in Workers, MatchRead(w) \/ MatchCommit(w) PROVE logged \subseteq logged'
    BY <2>5 DEF MatchRead, MatchCommit, dataVars
  <2>6. ASSUME NEW w \in Workers, DbFailure(w) \/ ChildLoss(w) \/ Redeliver(w)
        PROVE  logged \subseteq logged'
    BY <2>6 DEF DbFailure, ChildLoss, Redeliver, Propagate, dataVars
  <2>7. CASE IngestRead \/ IngestCommit \/ Crash \/ UNCHANGED vars
    BY <2>7 DEF IngestRead, IngestCommit, Crash, vars, dataVars
  <2>8. QED
    BY <2>1, <2>2, <2>3, <2>4, <2>5, <2>6, <2>7, Zenon DEF Next, Step
<1>6. QED
  BY <1>1, <1>2, <1>3, <1>4, <1>5

LEMMA SentCount ==
    ASSUME NEW q \in [Message -> Nat], NEW n \in Message, NEW m \in Message, Sent(q, n)[m] > 0
    PROVE  m = n \/ q[m] > 0
  BY DEF Sent

LEMMA NextRowsForTasks ==
    ASSUME TypeInv, RowsForTasks, [Next]_vars
    PROVE  RowsForTasks'
<1>1. \A e \in Evidence : row[e].status # "ABSENT" => row'[e].status # "ABSENT"
  BY NextRows DEF RowsKept
<1>2. \A m \in Message : m.ev \in Evidence
  BY MessageParts
<1>3. \A m \in Message : queue[m] > 0 => row'[m.ev].status # "ABSENT"
  BY <1>1, <1>2 DEF RowsForTasks, TasksHaveRows
<1>4. \A w \in Workers : task[w] # NoTask => row'[task[w].ev].status # "ABSENT"
  BY <1>1, <1>2 DEF RowsForTasks, TasksHaveRows, TypeInv, TypeOK
<1>5. \A e \in undispatched : row'[e].status # "ABSENT"
  BY <1>1 DEF RowsForTasks, TypeInv, TypeOK
<1>6. \A w \in Workers : pc[w] # "idle" =>
          task[w] \in Message /\ row'[task[w].ev].status # "ABSENT"
  BY <1>4, NoTaskAssumption DEF TypeInv, SlotsOK
<1>7. queue \in [Message -> Nat]
  BY DEF TypeInv, TypeOK
<1>8. ASSUME NEW w \in Workers, Idle(w)
      PROVE  \A x \in Workers : task'[x] # NoTask => row'[task'[x].ev].status # "ABSENT"
  BY <1>4, <1>8 DEF TypeInv, TypeOK, Idle
<1>9. ASSUME NEW w \in Workers, pc[w] # "idle", Propagate(w)
      PROVE  RowsForTasks'
  <2>1. ASSUME task[w].tries < MaxRetries[task[w].kind]
        PROVE  /\ [task[w] EXCEPT !.tries = @ + 1] \in Message
               /\ [task[w] EXCEPT !.tries = @ + 1].ev = task[w].ev
    BY <1>6, <1>9, <2>1, RetryIsMessage, MessageParts
  <2>2. \A m \in Message : queue'[m] > 0 => row'[m.ev].status # "ABSENT"
    BY <1>3, <1>6, <1>7, <1>9, <2>1, SentCount DEF Propagate
  <2>3. QED
    BY <1>5, <1>8, <1>9, <2>2 DEF RowsForTasks, TasksHaveRows, Propagate
<1>10. ASSUME NEW e \in Evidence, Upload(e) PROVE RowsForTasks'
  BY <1>3, <1>4, <1>5, <1>10
  DEF RowsForTasks, TasksHaveRows, Upload, workerVars, TypeInv, TypeOK, Row
<1>11. ASSUME NEW e \in Evidence, Dispatch(e) PROVE RowsForTasks'
  <2>1. New("process", e) \in Message /\ New("process", e).ev = e
    BY NewIsMessage DEF New, Kinds
  <2>2. \A m \in Message : queue'[m] > 0 => row'[m.ev].status # "ABSENT"
    BY <1>3, <1>5, <1>7, <1>11, <2>1, SentCount DEF Dispatch
  <2>3. QED
    BY <1>4, <1>5, <1>11, <2>2 DEF RowsForTasks, TasksHaveRows, Dispatch, workerVars
<1>12. ASSUME NEW w \in Workers, NEW m \in Message, Deliver(w, m) PROVE RowsForTasks'
  <2>1. \A n \in Message : queue'[n] > 0 => row'[n.ev].status # "ABSENT"
    BY <1>3, <1>7, <1>12 DEF Deliver
  <2>2. \A x \in Workers : task'[x] # NoTask => row'[task'[x].ev].status # "ABSENT"
    BY <1>3, <1>4, <1>12 DEF Deliver, workerVars, TypeInv, TypeOK
  <2>3. QED
    BY <1>5, <1>12, <2>1, <2>2 DEF RowsForTasks, TasksHaveRows, Deliver
<1>13. ASSUME NEW w \in Workers, RunAI(w) PROVE RowsForTasks'
  <2>1. New("match", task[w].ev) \in Message /\ New("match", task[w].ev).ev = task[w].ev
    BY <1>2, <1>6, <1>13, NewIsMessage DEF New, Kinds, RunAI
  <2>2. \A m \in Message : queue'[m] > 0 => row'[m.ev].status # "ABSENT"
    BY <1>3, <1>6, <1>7, <1>13, <2>1, SentCount DEF RunAI
  <2>3. QED
    BY <1>4, <1>5, <1>13, <2>2 DEF RowsForTasks, TasksHaveRows, RunAI
<1>14. ASSUME NEW w \in Workers, Redeliver(w) PROVE RowsForTasks'
  <2>1. \A m \in Message : queue'[m] > 0 => row'[m.ev].status # "ABSENT"
    BY <1>3, <1>6, <1>7, <1>14, SentCount DEF Redeliver, TypeInv, SlotsOK
  <2>2. QED
    BY <1>4, <1>5, <1>14, <2>1 DEF RowsForTasks, TasksHaveRows, Redeliver
<1>15. CASE Crash
  <2>1. ASSUME NEW m \in Message, queue'[m] > 0 PROVE row'[m.ev].status # "ABSENT"
    <3>1. CASE queue[m] > 0
      BY <1>3, <3>1
    <3>2. CASE \E w \in owned : task[w] = m
      BY <1>6, <3>2 DEF TypeInv, TypeOK, SlotsOK
    <3>3. CASE ~(queue[m] > 0) /\ ~(\E w \in owned : task[w] = m)
      <4>1. queue[m] = 0 /\ {w \in owned : task[w] = m} = {}
        BY <1>7, <3>3
      <4>2. queue'[m] = 0
        BY <1>15, <4>1, FS_EmptySet DEF Crash
      <4>3. QED
        BY <2>1, <4>2
    <3>4. QED
      BY <3>1, <3>2, <3>3
  <2>2. QED
    BY <1>5, <1>15, <2>1 DEF RowsForTasks, TasksHaveRows, Crash
<1>16. ASSUME UNCHANGED <<queue, undispatched>>,
              UNCHANGED task \/ \E w \in Workers : Idle(w)
       PROVE  RowsForTasks'
  BY <1>3, <1>4, <1>5, <1>8, <1>16 DEF RowsForTasks, TasksHaveRows
<1>17. ASSUME NEW w \in Workers, Step(w) PROVE RowsForTasks'
  <2>1. CASE AbortRun(w)
    BY <1>9, <2>1 DEF AbortRun
  <2>2. CASE EnterStage(w) \/ RunOcr(w) \/ RunTimeline(w) \/ RunIndexing(w) \/ MatchRead(w)
    BY <1>16, <2>2 DEF EnterStage, RunOcr, RunTimeline, RunIndexing, MatchRead
  <2>3. CASE Finalize(w) \/ FailRun(w) \/ MatchCommit(w)
    BY <1>16, <2>3 DEF Finalize, FailRun, MatchCommit
  <2>4. QED
    BY <1>13, <1>17, <2>1, <2>2, <2>3 DEF Step
<1>18. ASSUME NEW w \in Workers, DbFailure(w) \/ ChildLoss(w) PROVE RowsForTasks'
  BY <1>9, <1>16, <1>18 DEF DbFailure, ChildLoss
<1>19. CASE IngestRead \/ IngestCommit \/ UNCHANGED vars
  BY <1>16, <1>19 DEF IngestRead, IngestCommit, vars, workerVars
<1>20. QED
  BY <1>10, <1>11, <1>12, <1>14, <1>15, <1>17, <1>18, <1>19 DEF Next

-----------------------------------------------------------------------------
(* A run has done what the stage it has reached asks for.                  *)

LEMMA SlotKept ==
    ASSUME TypeInv, TypeInv', Progress, RowsKept, logged \subseteq logged', NEW x \in Workers,
           pc'[x] = pc[x], task'[x] = task[x], at'[x] = at[x],
           session'[x].hasText = session[x].hasText, session'[x].text = session[x].text,
           session'[x].ents = session[x].ents, session'[x].raw = session[x].raw
    PROVE  StageResults(x)'
<1> SUFFICES ASSUME pc[x] \in {"enter", "run"}, task[x].ev \in Textual \ logged
             PROVE  /\ at[x] \in AfterOcr =>
                          session[x].hasText /\ (session[x].text \/ row'[task[x].ev].text)
                    /\ at[x] \in AfterAI => session[x].ents \/ row'[task[x].ev].ents > 0
                    /\ at[x] \in AfterTimeline => session[x].raw # {} \/ row'[task[x].ev].raw # {}
  BY DEF StageResults
<1>1. task[x].ev \in Evidence /\ row[task[x].ev].ents \in Nat
  BY MessageParts DEF TypeInv, TypeOK, SlotsOK, Row
<1>2. /\ row[task[x].ev].raw \subseteq row'[task[x].ev].raw
      /\ row[task[x].ev].text => row'[task[x].ev].text
      /\ row[task[x].ev].ents <= row'[task[x].ev].ents
  BY <1>1 DEF RowsKept
<1>3. row'[task[x].ev].ents \in Nat
  BY <1>1 DEF TypeInv, TypeOK, Row
<1>4. /\ at[x] \in AfterOcr =>
            session[x].hasText /\ (session[x].text \/ row[task[x].ev].text)
      /\ at[x] \in AfterAI => session[x].ents \/ row[task[x].ev].ents > 0
      /\ at[x] \in AfterTimeline => session[x].raw # {} \/ row[task[x].ev].raw # {}
  BY DEF Progress, StageResults
<1>5. at[x] \in AfterOcr => session[x].hasText /\ (session[x].text \/ row'[task[x].ev].text)
  BY <1>2, <1>4, Zenon
<1>6. at[x] \in AfterAI => session[x].ents \/ row'[task[x].ev].ents > 0
  BY <1>1, <1>2, <1>3, <1>4
<1>7. at[x] \in AfterTimeline => session[x].raw # {} \/ row'[task[x].ev].raw # {}
  BY <1>2, <1>4
<1>8. QED
  BY <1>5, <1>6, <1>7

LEMMA SlotFree ==
    ASSUME NEW x \in Workers, pc'[x] \notin {"enter", "run"} \/ at'[x] \notin AfterOcr
    PROVE  StageResults(x)'
  BY DEF StageResults, AfterOcr, AfterAI, AfterTimeline

(* One slot moves; the others stand still. *)
LEMMA OneSlot ==
    ASSUME TypeInv, TypeInv', Progress, RowsKept, logged \subseteq logged', NEW w \in Workers,
           StageResults(w)',
           \A x \in Workers : x # w =>
              /\ session'[x] = session[x]
              /\ task'[x] = task[x] /\ pc'[x] = pc[x] /\ at'[x] = at[x]
    PROVE  Progress'
<1>1. ASSUME NEW x \in Workers, x # w PROVE StageResults(x)'
  BY <1>1, SlotKept
<1>2. QED
  BY <1>1 DEF Progress

LEMMA StandStill ==
    ASSUME TypeInv, TypeInv', Progress, RowsKept, logged \subseteq logged',
           UNCHANGED <<pc, task, at, session>>
    PROVE  Progress'
<1>1. ASSUME NEW x \in Workers PROVE StageResults(x)'
  BY SlotKept
<1>2. QED
  BY <1>1 DEF Progress

LEMMA IdleProgress ==
    ASSUME TypeInv, TypeInv', Progress, RowsKept, logged \subseteq logged', NEW w \in Workers, Idle(w)
    PROVE  Progress'
<1>1. StageResults(w)'
  BY SlotFree DEF TypeInv, TypeOK, Idle
<1>2. \A x \in Workers : x # w =>
          /\ session'[x] = session[x]
          /\ task'[x] = task[x] /\ pc'[x] = pc[x] /\ at'[x] = at[x]
  BY DEF TypeInv, TypeOK, Idle
<1>3. QED
  BY <1>1, <1>2, OneSlot

LEMMA EnterStageProgress ==
    ASSUME TypeInv, TypeInv', Progress, RowsKept, logged \subseteq logged', NEW w \in Workers,
           EnterStage(w)
    PROVE  Progress'
<1> DEFINE e == task[w].ev
<1>1. /\ e \in Evidence
      /\ row'[e].raw = row[e].raw \cup session[w].raw
      /\ row[e].text \/ session[w].text => row'[e].text
      /\ row'[e].ents \in Nat /\ row[e].ents <= row'[e].ents
      /\ session[w].ents => row'[e].ents > 0
  BY RunRow
<1>2. /\ pc[w] = "enter" /\ pc'[w] \in {"enter", "run"} /\ task' = task /\ logged' = logged
      /\ session'[w].hasText = session[w].hasText
  BY DEF EnterStage, Cleared, TypeInv, TypeOK, Session
<1>3. at'[w] = at[w] \/ at'[w] = "OCR_QUEUE" \/ (at[w] = "GRAPH_QUEUE" /\ at'[w] = "INDEXED")
  BY DEF EnterStage, Silent, NextStage, TypeInv, TypeOK
<1>4. /\ at'[w] \in AfterOcr => at[w] \in AfterOcr
      /\ at'[w] \in AfterAI => at[w] \in AfterAI
      /\ at'[w] \in AfterTimeline => at[w] \in AfterTimeline
  BY <1>3 DEF AfterOcr, AfterAI, AfterTimeline
<1>5. StageResults(w)'
  <2> SUFFICES ASSUME e \in Textual \ logged
               PROVE  /\ at'[w] \in AfterOcr => session'[w].hasText /\ row'[e].text
                      /\ at'[w] \in AfterAI => row'[e].ents > 0
                      /\ at'[w] \in AfterTimeline => row'[e].raw # {}
    BY <1>2 DEF StageResults
  <2>1. /\ at[w] \in AfterOcr => session[w].hasText /\ (session[w].text \/ row[e].text)
        /\ at[w] \in AfterAI => session[w].ents \/ row[e].ents > 0
        /\ at[w] \in AfterTimeline => session[w].raw # {} \/ row[e].raw # {}
    BY <1>2 DEF Progress, StageResults
  <2>2. at'[w] \in AfterOcr => session'[w].hasText /\ row'[e].text
    BY <1>1, <1>2, <1>4, <2>1, Zenon
  <2>3. at'[w] \in AfterAI => row'[e].ents > 0
    <3>1. row[e].ents \in Nat
      BY <1>1 DEF TypeInv, TypeOK, Row
    <3>2. QED
      BY <1>1, <1>4, <2>1, <3>1
  <2>4. at'[w] \in AfterTimeline => row'[e].raw # {}
    BY <1>1, <1>4, <2>1
  <2>5. QED
    BY <2>2, <2>3, <2>4
<1>6. \A x \in Workers : x # w =>
          /\ session'[x] = session[x]
          /\ task'[x] = task[x] /\ pc'[x] = pc[x] /\ at'[x] = at[x]
  BY DEF EnterStage, TypeInv, TypeOK
<1>7. QED
  BY <1>5, <1>6, OneSlot

LEMMA RunOcrProgress ==
    ASSUME TypeInv, NEW w \in Workers, RunOcr(w)
    PROVE  StageResults(w)'
<1>1. at'[w] = "AI_QUEUE" /\ task'[w] = task[w]
  BY DEF RunOcr, StageDone, NextStage, TypeInv, TypeOK
<1>2. PICK failed \in BOOLEAN :
        /\ Caught(w, failed)
        /\ session' = [session EXCEPT ![w].hasText = task[w].ev \in Textual /\ ~failed,
                                      ![w].text = task[w].ev \in Textual /\ ~failed]
  BY DEF RunOcr
<1>3. task[w].ev \notin logged' => ~failed
  BY <1>2 DEF Caught
<1>4. /\ session'[w].hasText = (task[w].ev \in Textual /\ ~failed)
      /\ session'[w].text = (task[w].ev \in Textual /\ ~failed)
  BY <1>2 DEF TypeInv, TypeOK, Session
<1>5. QED
  BY <1>1, <1>3, <1>4 DEF StageResults, AfterAI, AfterTimeline

LEMMA RunAIProgress ==
    ASSUME TypeInv, Progress, logged \subseteq logged', NEW w \in Workers, RunAI(w)
    PROVE  StageResults(w)'
<1>1. /\ at[w] = "AI_QUEUE" /\ pc[w] = "run" /\ at'[w] = "TIMELINE_QUEUE"
      /\ task' = task /\ row' = row
  BY DEF RunAI, StageDone, NextStage, TypeInv, TypeOK
<1> SUFFICES ASSUME task[w].ev \in Textual \ logged'
             PROVE  session'[w].hasText /\ (session'[w].text \/ row[task[w].ev].text)
                    /\ session'[w].ents
  BY <1>1 DEF StageResults, AfterTimeline
<1>2. session[w].hasText /\ (session[w].text \/ row[task[w].ev].text)
  BY <1>1 DEF Progress, StageResults, AfterOcr
<1>3. session' = [session EXCEPT ![w].ents = TRUE]
  <2>1. \/ \E f \in BOOLEAN : Caught(w, f) /\ session' = [session EXCEPT ![w].ents = ~f]
        \/ session' = [session EXCEPT ![w].ents = TRUE]
    BY <1>2, Zenon DEF RunAI
  <2>2. ASSUME NEW f \in BOOLEAN, Caught(w, f) PROVE f = FALSE
    BY <2>2 DEF Caught
  <2>3. (~FALSE) = TRUE
    OBVIOUS
  <2>4. QED
    BY <2>1, <2>2, <2>3
<1>4. /\ session'[w].hasText = session[w].hasText
      /\ session'[w].text = session[w].text
      /\ session'[w].ents = TRUE
  BY <1>3 DEF TypeInv, TypeOK, Session
<1>5. QED
  BY <1>2, <1>4

LEMMA RunTimelineProgress ==
    ASSUME TypeInv, Progress, logged \subseteq logged', NEW w \in Workers, RunTimeline(w)
    PROVE  StageResults(w)'
<1>1. /\ at[w] = "TIMELINE_QUEUE" /\ pc[w] = "run" /\ at'[w] = "GRAPH_QUEUE"
      /\ task' = task /\ row' = row
  BY DEF RunTimeline, StageDone, NextStage, TypeInv, TypeOK
<1> SUFFICES ASSUME task[w].ev \in Textual \ logged'
             PROVE  /\ session'[w].hasText /\ (session'[w].text \/ row[task[w].ev].text)
                    /\ session'[w].ents \/ row[task[w].ev].ents > 0
                    /\ session'[w].raw # {}
  BY <1>1 DEF StageResults
<1>2. /\ session[w].hasText /\ (session[w].text \/ row[task[w].ev].text)
      /\ session[w].ents \/ row[task[w].ev].ents > 0
  BY <1>1 DEF Progress, StageResults, AfterOcr, AfterAI
<1>3. PICK extracted \in BOOLEAN, mirrored \in BOOLEAN :
        /\ Caught(w, ~extracted \/ ~mirrored)
        /\ \E canon : session' = [session EXCEPT
              ![w].raw = IF extracted THEN {fresh} ELSE {}, ![w].canon = canon]
  BY <1>2 DEF RunTimeline, Poison
<1>4. extracted
  BY <1>3 DEF Caught
<1>5. /\ session'[w].hasText = session[w].hasText
      /\ session'[w].text = session[w].text
      /\ session'[w].ents = session[w].ents
      /\ session'[w].raw = {fresh}
  BY <1>3, <1>4 DEF TypeInv, TypeOK, Session
<1>6. QED
  BY <1>2, <1>5

LEMMA RunIndexingProgress ==
    ASSUME TypeInv, Progress, logged \subseteq logged', NEW w \in Workers, RunIndexing(w)
    PROVE  StageResults(w)'
<1>1. /\ at[w] = "INDEXED" /\ pc[w] = "run" /\ at'[w] = "COMPLETED"
      /\ task' = task /\ row' = row
  BY DEF RunIndexing, StageDone, NextStage, TypeInv, TypeOK
<1>2. /\ session'[w].hasText = session[w].hasText
      /\ session'[w].text = session[w].text
      /\ session'[w].ents = session[w].ents
      /\ session'[w].raw = session[w].raw
  BY DEF RunIndexing, Poison, TypeInv, TypeOK, Session
<1>3. task[w].ev \in Textual \ logged' =>
        /\ session[w].hasText /\ (session[w].text \/ row[task[w].ev].text)
        /\ session[w].ents \/ row[task[w].ev].ents > 0
        /\ session[w].raw # {} \/ row[task[w].ev].raw # {}
  BY <1>1 DEF Progress, StageResults, AfterOcr, AfterAI, AfterTimeline
<1>4. QED
  BY <1>1, <1>2, <1>3 DEF StageResults

LEMMA BodyOthers ==
    ASSUME TypeInv, NEW w \in Workers, RunOcr(w) \/ RunAI(w) \/ RunTimeline(w) \/ RunIndexing(w)
    PROVE  \A x \in Workers : x # w =>
              /\ session'[x] = session[x]
              /\ task'[x] = task[x] /\ pc'[x] = pc[x] /\ at'[x] = at[x]
<1>1. \A x \in Workers : x # w => task'[x] = task[x] /\ pc'[x] = pc[x] /\ at'[x] = at[x]
  BY StageDoneOthers DEF RunOcr, RunAI, RunTimeline, RunIndexing
<1>2. \A x \in Workers : x # w => session'[x] = session[x]
  BY DEF TypeInv, TypeOK, RunOcr, RunAI, RunTimeline, RunIndexing, Poison
<1>3. QED
  BY <1>1, <1>2


LEMMA NextProgress ==
    ASSUME TypeInv, TypeInv', Progress, [Next]_vars
    PROVE  Progress'
<1>0. RowsKept /\ logged \subseteq logged'
  BY NextRows
<1>1. ASSUME NEW e \in Evidence, Upload(e) \/ Dispatch(e) PROVE Progress'
  BY <1>0, <1>1, StandStill DEF Upload, Dispatch, workerVars
<1>2. CASE IngestRead \/ IngestCommit \/ UNCHANGED vars
  BY <1>0, <1>2, StandStill DEF IngestRead, IngestCommit, vars, workerVars
<1>3. ASSUME NEW w \in Workers, NEW m \in Message, Deliver(w, m) PROVE Progress'
  <2>1. CASE row[m.ev].status = "ABSENT"
    BY <1>0, <1>3, <2>1, StandStill DEF Deliver, workerVars
  <2>2. CASE row[m.ev].status # "ABSENT"
    <3>1. StageResults(w)'
      BY <1>3, <2>2, SlotFree DEF Deliver, AfterOcr, TypeInv, TypeOK
    <3>2. \A x \in Workers : x # w =>
              /\ session'[x] = session[x]
              /\ task'[x] = task[x] /\ pc'[x] = pc[x] /\ at'[x] = at[x]
      BY <1>3, <2>2 DEF Deliver, TypeInv, TypeOK
    <3>3. QED
      BY <1>0, <3>1, <3>2, OneSlot
  <2>3. QED
    BY <2>1, <2>2
<1>4. ASSUME NEW w \in Workers, Step(w) PROVE Progress'
  <2>1. CASE EnterStage(w)
    BY <1>0, <2>1, EnterStageProgress
  <2>2. CASE Finalize(w) \/ AbortRun(w) \/ FailRun(w) \/ MatchCommit(w)
    BY <1>0, <2>2, IdleProgress DEF Finalize, AbortRun, FailRun, MatchCommit, Propagate
  <2>3. CASE RunOcr(w) \/ RunAI(w) \/ RunTimeline(w) \/ RunIndexing(w)
    <3>1. StageResults(w)'
      BY <1>0, <2>3, RunOcrProgress, RunAIProgress, RunTimelineProgress, RunIndexingProgress
    <3>2. QED
      BY <1>0, <2>3, <3>1, BodyOthers, OneSlot
  <2>4. CASE MatchRead(w)
    <3>1. StageResults(w)'
      BY <2>4, SlotFree DEF MatchRead, TypeInv, TypeOK
    <3>2. \A x \in Workers : x # w =>
              /\ session'[x] = session[x]
              /\ task'[x] = task[x] /\ pc'[x] = pc[x] /\ at'[x] = at[x]
      BY <2>4 DEF MatchRead, TypeInv, TypeOK
    <3>3. QED
      BY <1>0, <3>1, <3>2, OneSlot
  <2>5. QED
    BY <1>4, <2>1, <2>2, <2>3, <2>4 DEF Step
<1>5. ASSUME NEW w \in Workers, DbFailure(w) \/ ChildLoss(w) PROVE Progress'
  BY <1>0, <1>5, IdleProgress DEF DbFailure, ChildLoss, Propagate
<1>6. ASSUME NEW w \in Workers, Redeliver(w) PROVE Progress'
  BY <1>0, <1>6, StandStill DEF Redeliver
<1>7. CASE Crash
  <2>1. ASSUME NEW x \in Workers PROVE StageResults(x)'
    BY <1>7, SlotFree DEF Crash
  <2>2. QED
    BY <2>1 DEF Progress
<1>8. QED
  BY <1>1, <1>2, <1>3, <1>4, <1>5, <1>6, <1>7 DEF Next

-----------------------------------------------------------------------------
(* Only a run that has passed every stage sets COMPLETED.                  *)

LEMMA FinalizeResults ==
    ASSUME TypeInv, Progress, NEW w \in Workers, Finalize(w), task[w].ev \in Textual \ logged
    PROVE  LET r == row'[task[w].ev] IN r.text /\ r.ents > 0 /\ r.raw # {}
<1>1. /\ pc[w] = "enter" /\ at[w] = "COMPLETED" /\ task[w].ev \in Evidence
      /\ row[task[w].ev].ents \in Nat
  BY MessageParts DEF Finalize, TypeInv, TypeOK, SlotsOK, Row
<1>2. /\ session[w].text \/ row[task[w].ev].text
      /\ session[w].ents \/ row[task[w].ev].ents > 0
      /\ session[w].raw # {} \/ row[task[w].ev].raw # {}
  BY <1>1 DEF Progress, StageResults, AfterOcr, AfterAI, AfterTimeline
<1>3. /\ row'[task[w].ev].raw = row[task[w].ev].raw \cup session[w].raw
      /\ row[task[w].ev].text \/ session[w].text => row'[task[w].ev].text
      /\ row'[task[w].ev].ents \in Nat
      /\ row[task[w].ev].ents <= row'[task[w].ev].ents
      /\ session[w].ents => row'[task[w].ev].ents > 0
  BY RunRow
<1>4. row'[task[w].ev].text
  BY <1>2, <1>3, Zenon
<1>5. row'[task[w].ev].ents > 0
  BY <1>1, <1>2, <1>3
<1>6. row'[task[w].ev].raw # {}
  BY <1>2, <1>3
<1>7. QED
  BY <1>4, <1>5, <1>6

LEMMA NextCompleted ==
    ASSUME TypeInv, TypeInv', Progress, CompletedHasResults, [Next]_vars
    PROVE  CompletedHasResults'
<1>0. RowsKept /\ logged \subseteq logged'
  BY NextRows
<1>1. ASSUME NEW e \in Textual \ logged', row'[e].status = "COMPLETED",
             row[e].status = "COMPLETED"
      PROVE  row'[e].text /\ row'[e].ents > 0 /\ row'[e].raw # {}
  <2>1. e \in Evidence /\ row[e].ents \in Nat /\ row'[e].ents \in Nat
    BY PipelineAssumption DEF TypeInv, TypeOK, Row
  <2>2. row[e].text /\ row[e].ents > 0 /\ row[e].raw # {}
    BY <1>0, <1>1 DEF CompletedHasResults
  <2>3. /\ row[e].raw \subseteq row'[e].raw
        /\ row[e].text => row'[e].text
        /\ row[e].ents <= row'[e].ents
    BY <1>0, <2>1 DEF RowsKept
  <2>4. row'[e].text
    BY <2>2, <2>3, Zenon
  <2>5. QED
    BY <2>1, <2>2, <2>3, <2>4
<1>2. ASSUME NEW e \in Evidence, row'[e].status = "COMPLETED", row[e].status # "COMPLETED"
      PROVE  \E w \in Workers : Finalize(w) /\ task[w].ev = e
  <2>1. \/ UNCHANGED row \/ (\E f \in Evidence : Upload(f))
        \/ \E w \in Workers : EnterStage(w) \/ Finalize(w) \/ FailRun(w)
    BY DEF Next, vars, Step, Dispatch, IngestRead, IngestCommit, Deliver, AbortRun, RunOcr, RunAI,
       RunTimeline, RunIndexing, MatchRead, MatchCommit, DbFailure, ChildLoss, Redeliver, Crash,
       Propagate, dataVars
  <2>2. ASSUME NEW f \in Evidence, Upload(f) PROVE FALSE
    BY <1>2, <2>2 DEF Upload, TypeInv, TypeOK, Row
  <2>3. ASSUME NEW w \in Workers, EnterStage(w) \/ Finalize(w) \/ FailRun(w)
        PROVE  Finalize(w) /\ task[w].ev = e
    BY <1>2, <2>3, RunRow
  <2>4. ~UNCHANGED row
    BY <1>2
  <2>5. QED
    BY <2>1, <2>2, <2>3, <2>4, SMTT(30)
<1>3. ASSUME NEW e \in Textual \ logged', row'[e].status = "COMPLETED",
             row[e].status # "COMPLETED"
      PROVE  row'[e].text /\ row'[e].ents > 0 /\ row'[e].raw # {}
  <2>1. e \in Evidence /\ e \in Textual \ logged
    BY <1>0, PipelineAssumption
  <2>2. PICK w \in Workers : Finalize(w) /\ task[w].ev = e
    BY <1>2, <1>3, <2>1
  <2>3. QED
    BY <2>1, <2>2, FinalizeResults
<1>4. QED
  BY <1>1, <1>3 DEF CompletedHasResults

-----------------------------------------------------------------------------

LEMMA InitSafetyInv == Init => SafetyInv
<1> SUFFICES ASSUME Init PROVE SafetyInv
  OBVIOUS
<1>1. TypeInv
  BY InitTypeInv
<1>2. RowsForTasks
  BY DEF Init, RowsForTasks, TasksHaveRows
<1>3. TimelineInv
  BY DEF Init, TimelineInv, FreshIds, TimelineHasOrigin, PendingMirrors, Mirrored,
     OriginMirroredOnce, NoRow, NewSession, NoIngest
<1>4. Progress
  BY DEF Init, Progress, StageResults
<1>5. CompletedHasResults
  BY PipelineAssumption DEF Init, CompletedHasResults, NoRow
<1>6. QED
  BY <1>1, <1>2, <1>3, <1>4, <1>5 DEF SafetyInv

LEMMA NextSafetyInv == SafetyInv /\ [Next]_vars => SafetyInv'
<1> SUFFICES ASSUME SafetyInv, [Next]_vars PROVE SafetyInv'
  OBVIOUS
<1>1. TypeInv'
  BY NextTypeInv DEF SafetyInv
<1>2. QED
  BY <1>1, NextRowsForTasks, NextTimeline, NextProgress, NextCompleted DEF SafetyInv

LEMMA SafetyInvHolds == Spec => []SafetyInv
  BY InitSafetyInv, NextSafetyInv, PTL DEF Spec

(* No worker ever meets a task without its committed evidence row.         *)
THEOREM TasksAlwaysHaveRows == Spec => []TasksHaveRows
<1>1. SafetyInv => TasksHaveRows
  BY DEF SafetyInv, RowsForTasks
<1>2. QED
  BY <1>1, SafetyInvHolds, PTL

(* Every canonical event points back at a committed extraction row.        *)
THEOREM TimelineAlwaysHasOrigin == Spec => []TimelineHasOrigin
<1>1. SafetyInv => TimelineHasOrigin
  BY DEF SafetyInv, TimelineInv
<1>2. QED
  BY <1>1, SafetyInvHolds, PTL

(* However many runs overlap, an extraction row of evidence without a      *)
(* logged stage failure is mirrored at most once.                          *)
THEOREM OriginAlwaysMirroredOnce == Spec => []OriginMirroredOnce
<1>1. SafetyInv => OriginMirroredOnce
  BY DEF SafetyInv, TimelineInv
<1>2. QED
  BY <1>1, SafetyInvHolds, PTL

(* COMPLETED is only ever seen with the results of every stage committed.  *)
THEOREM CompletedAlwaysEnriched == Spec => []CompletedIsEnriched
<1>1. SafetyInv => CompletedIsEnriched
  <2> SUFFICES ASSUME SafetyInv, NEW e \in Textual \ logged, row[e].status = "COMPLETED"
               PROVE  /\ row[e].text
                      /\ row[e].ents > 0
                      /\ row[e].raw # {}
                      /\ \A o \in row[e].raw : \E t \in timeline : t.ev = e /\ t.origin = o
    BY DEF CompletedIsEnriched
  <2>1. row[e].text /\ row[e].ents > 0 /\ row[e].raw # {}
    BY DEF SafetyInv, CompletedHasResults
  <2>2. \A o \in row[e].raw : \E t \in timeline : t.ev = e /\ t.origin = o
    BY PipelineAssumption DEF SafetyInv, TimelineInv, Mirrored
  <2>3. QED
    BY <2>1, <2>2
<1>2. QED
  BY <1>1, SafetyInvHolds, PTL

-----------------------------------------------------------------------------
(***************************************************************************)
(* Nothing is forgotten: while an item is not settled something will go on *)
(* with it, and committed entities wait for a match that will see them.    *)
(***************************************************************************)

Queued(kind, e) == \E m \in Message : m.kind = kind /\ m.ev = e /\ queue[m] > 0

(* A run that will write a terminal status when it ends normally: what it  *)
(* remembers is not terminal already.                                      *)
Processes(w, e) ==
    pc[w] \in {"enter", "run"} /\ task[w].ev = e /\ session[w].mem \notin Terminal

InProgress(e) ==
    e \in undispatched \/ Queued("process", e) \/ \E w \in Workers : Processes(w, e)

Unsettled(e) == row[e].status \notin Terminal \cup {"ABSENT"}

NoneForgotten ==
    \A e \in Evidence : Unsettled(e) /\ <<"process", e>> \notin lost => InProgress(e)

(* A match that has yet to read, or has read entities.                     *)
Answers(w, e) ==
    /\ pc[w] = "match" \/ (pc[w] = "alert" /\ session[w].seen > 0)
    /\ task[w].ev = e

MatchComing(e) ==
    Queued("match", e) \/ (\E w \in Workers : Answers(w, e)) \/ \E n \in matched[e] : n > 0

EntitiesFound(e) == row[e].ents > 0 \/ EntitiesPending(e)

EntitiesTold ==
    \A e \in Evidence \ early :
        EntitiesFound(e) /\ <<"match", e>> \notin lost => MatchComing(e)

(* Slots do what their message says, and past the first stage a session    *)
(* remembers the status it has set.                                        *)
SlotWork(w) ==
    /\ pc[w] \in {"enter", "run"} => task[w].kind = "process"
    /\ pc[w] \in {"match", "alert"} => task[w].kind = "match"
    /\ pc[w] \in {"enter", "run"} /\ at[w] # "METADATA_EXTRACTION" => session[w].mem \notin Terminal
    /\ pc[w] = "run" => at[w] # "METADATA_EXTRACTION"

WorkInv == (\A w \in Workers : SlotWork(w)) /\ NoneForgotten /\ EntitiesTold

(* Slots outside S stand still, and what was on its way still is.          *)
StillGoing(S) ==
    /\ \A x \in Workers \ S :
          /\ session'[x] = session[x]
          /\ task'[x] = task[x] /\ pc'[x] = pc[x] /\ at'[x] = at[x]
    /\ \A m \in Message : queue[m] > 0 => queue'[m] > 0
    /\ \A e \in Evidence : matched[e] \subseteq matched'[e]

LEMMA OthersGoOn ==
    ASSUME NEW S \in SUBSET Workers, StillGoing(S), NEW e \in Evidence
    PROVE  /\ InProgress(e) =>
                InProgress(e)' \/ e \in undispatched \ undispatched'
                               \/ \E w \in S : Processes(w, e)
           /\ MatchComing(e) => MatchComing(e)' \/ \E w \in S : Answers(w, e)
           /\ EntitiesPending(e)' =>
                EntitiesPending(e) \/ \E w \in S : session'[w].ents /\ task'[w].ev = e
<1>1. ASSUME NEW k, Queued(k, e) PROVE Queued(k, e)'
  BY <1>1 DEF Queued, StillGoing
<1>2. ASSUME NEW x \in Workers \ S
      PROVE  /\ Processes(x, e) => Processes(x, e)'
             /\ Answers(x, e) => Answers(x, e)'
             /\ session'[x].ents /\ task'[x].ev = e => session[x].ents /\ task[x].ev = e
  BY DEF StillGoing, Processes, Answers
<1>3. ASSUME InProgress(e)
      PROVE  InProgress(e)' \/ e \in undispatched \ undispatched'
                            \/ \E w \in S : Processes(w, e)
  BY <1>1, <1>2, <1>3 DEF InProgress
<1>4. ASSUME MatchComing(e)
      PROVE  MatchComing(e)' \/ \E w \in S : Answers(w, e)
  <2>1. (\E n \in matched[e] : n > 0) => \E n \in matched'[e] : n > 0
    BY DEF StillGoing
  <2>2. QED
    BY <1>1, <1>2, <1>4, <2>1 DEF MatchComing
<1>5. ASSUME EntitiesPending(e)'
      PROVE  EntitiesPending(e) \/ \E w \in S : session'[w].ents /\ task'[w].ev = e
  BY <1>2, <1>5 DEF EntitiesPending
<1>6. QED
  BY <1>3, <1>4, <1>5

(* What a step owes to WorkInv.                                            *)
LEMMA WorkStep ==
    ASSUME WorkInv, lost \subseteq lost', early \subseteq early',
           \A w \in Workers : SlotWork(w)',
           \A e \in Evidence :
              /\ Unsettled(e)' => \/ Unsettled(e) \/ InProgress(e)'
                                  \/ <<"process", e>> \in lost'
              /\ InProgress(e) /\ Unsettled(e)' =>
                    InProgress(e)' \/ <<"process", e>> \in lost',
           \A e \in Evidence :
              /\ EntitiesFound(e)' => \/ EntitiesFound(e) \/ MatchComing(e)'
                                      \/ <<"match", e>> \in lost'
              /\ MatchComing(e) /\ EntitiesFound(e)' =>
                    MatchComing(e)' \/ <<"match", e>> \in lost' \/ e \in early'
    PROVE  WorkInv'
<1>1. ASSUME NEW e \in Evidence, Unsettled(e)', <<"process", e>> \notin lost'
      PROVE  InProgress(e)'
  BY <1>1 DEF WorkInv, NoneForgotten
<1>2. ASSUME NEW e \in Evidence, e \notin early', EntitiesFound(e)', <<"match", e>> \notin lost'
      PROVE  MatchComing(e)'
  BY <1>2 DEF WorkInv, EntitiesTold
<1>3. QED
  BY <1>1, <1>2 DEF WorkInv, NoneForgotten, EntitiesTold

LEMMA SentQueued ==
    ASSUME NEW q \in [Message -> Nat], NEW n \in Message
    PROVE  Sent(q, n)[n] > 0 /\ \A m \in Message : q[m] > 0 => Sent(q, n)[m] > 0
  BY DEF Sent

LEMMA SlotFacts ==
    ASSUME TypeInv, NEW w \in Workers, pc[w] # "idle"
    PROVE  task[w] \in Message /\ task[w].ev \in Evidence /\ task[w].kind \in Kinds
  BY MessageParts DEF TypeInv, SlotsOK

(* Steps that move no slot: the API side and a message delivered again.    *)
LEMMA UploadWork ==
    ASSUME TypeInv, WorkInv, NEW e \in Evidence, Upload(e)
    PROVE  WorkInv'
<1>1. StillGoing({})
  BY DEF Upload, StillGoing, workerVars
<1>2. \A w \in Workers : SlotWork(w)'
  BY DEF WorkInv, SlotWork, Upload, workerVars
<1>3. \A f \in Evidence : row'[f].ents = row[f].ents /\ (f # e => row'[f] = row[f])
  BY DEF TypeInv, TypeOK, Row, Upload
<1>4. lost' = lost /\ early' = early /\ undispatched' = undispatched \cup {e}
  BY DEF Upload
<1>5. ASSUME NEW f \in Evidence
      PROVE  /\ Unsettled(f)' => Unsettled(f) \/ InProgress(f)'
             /\ InProgress(f) => InProgress(f)'
             /\ EntitiesFound(f)' => EntitiesFound(f)
             /\ MatchComing(f) => MatchComing(f)'
  <2>1. Unsettled(f)' => Unsettled(f) \/ InProgress(f)'
    BY <1>3, <1>4 DEF Unsettled, InProgress
  <2>2. InProgress(f) => InProgress(f)'
    BY <1>1, <1>4, OthersGoOn
  <2>3. EntitiesFound(f)' => EntitiesFound(f)
    BY <1>1, <1>3, OthersGoOn DEF EntitiesFound
  <2>4. MatchComing(f) => MatchComing(f)'
    BY <1>1, OthersGoOn
  <2>5. QED
    BY <2>1, <2>2, <2>3, <2>4
<1>6. QED
  BY <1>2, <1>4, <1>5, WorkStep

(* The same for steps that leave the evidence rows alone.                  *)
LEMMA RowsStandWork ==
    ASSUME WorkInv, UNCHANGED row, lost \subseteq lost', early \subseteq early',
           NEW S \in SUBSET Workers, StillGoing(S), \A w \in S : SlotWork(w)',
           \A e \in undispatched \ undispatched' :
              InProgress(e)' \/ <<"process", e>> \in lost',
           \A w \in S : \A e \in Evidence :
              /\ Processes(w, e) /\ Unsettled(e) =>
                    InProgress(e)' \/ <<"process", e>> \in lost'
              /\ Answers(w, e) /\ EntitiesFound(e)' =>
                    MatchComing(e)' \/ <<"match", e>> \in lost' \/ e \in early'
              /\ session'[w].ents /\ task'[w].ev = e =>
                    EntitiesPending(e) \/ MatchComing(e)' \/ <<"match", e>> \in lost'
    PROVE  WorkInv'
<1>1. ASSUME NEW w \in Workers PROVE SlotWork(w)'
  <2>1. CASE w \in S
    BY <2>1
  <2>2. CASE w \notin S
    BY <2>2 DEF StillGoing, WorkInv, SlotWork
  <2>3. QED
    BY <2>1, <2>2
<1>2. ASSUME NEW e \in Evidence
      PROVE  /\ Unsettled(e)' => Unsettled(e)
             /\ InProgress(e) /\ Unsettled(e)' =>
                    InProgress(e)' \/ <<"process", e>> \in lost'
  <2>1. Unsettled(e)' => Unsettled(e)
    BY DEF Unsettled
  <2>2. QED
    BY <2>1, OthersGoOn
<1>3. ASSUME NEW e \in Evidence
      PROVE  /\ EntitiesFound(e)' => \/ EntitiesFound(e) \/ MatchComing(e)'
                                     \/ <<"match", e>> \in lost'
             /\ MatchComing(e) /\ EntitiesFound(e)' =>
                    MatchComing(e)' \/ <<"match", e>> \in lost' \/ e \in early'
  <2>1. EntitiesFound(e)' => \/ EntitiesFound(e) \/ MatchComing(e)'
                             \/ <<"match", e>> \in lost'
    <3>1. EntitiesFound(e)' => row[e].ents > 0 \/ EntitiesPending(e)'
      BY DEF EntitiesFound
    <3>2. EntitiesPending(e)' =>
              EntitiesPending(e) \/ \E w \in S : session'[w].ents /\ task'[w].ev = e
      BY OthersGoOn
    <3>3. QED
      BY <3>1, <3>2 DEF EntitiesFound
  <2>2. MatchComing(e) => MatchComing(e)' \/ \E w \in S : Answers(w, e)
    BY OthersGoOn
  <2>3. QED
    BY <2>1, <2>2
<1>4. QED
  BY <1>1, <1>2, <1>3, WorkStep

LEMMA DispatchWork ==
    ASSUME TypeInv, WorkInv, NEW e \in Evidence, Dispatch(e)
    PROVE  WorkInv'
<1>1. New("process", e) \in Message /\ New("process", e).ev = e
      /\ New("process", e).kind = "process"
  BY NewIsMessage DEF New, Kinds
<1>2. queue \in [Message -> Nat]
  BY DEF TypeInv, TypeOK
<1>3. \/ queue' = Sent(queue, New("process", e)) /\ lost' = lost
      \/ queue' = queue /\ lost' = lost \cup {<<"process", e>>}
  BY DEF Dispatch
<1>4. StillGoing({})
  BY <1>1, <1>2, <1>3, SentQueued DEF StillGoing, Dispatch, workerVars, dataVars
<1>5. Queued("process", e)' \/ <<"process", e>> \in lost'
  BY <1>1, <1>2, <1>3, SentQueued DEF Queued
<1>6. \A f \in undispatched \ undispatched' : InProgress(f)' \/ <<"process", f>> \in lost'
  BY <1>5 DEF Dispatch, InProgress
<1>7. row' = row /\ early' = early
  BY DEF Dispatch, dataVars
<1>8. QED
  BY <1>3, <1>4, <1>6, <1>7, RowsStandWork

LEMMA RedeliverWork ==
    ASSUME TypeInv, WorkInv, NEW w \in Workers, Redeliver(w)
    PROVE  WorkInv'
<1>1. task[w] \in Message /\ queue \in [Message -> Nat]
  BY DEF TypeInv, TypeOK, SlotsOK, Redeliver
<1>2. StillGoing({})
  BY <1>1, SentQueued DEF StillGoing, Redeliver, dataVars
<1>3. UNCHANGED <<row, lost, early, undispatched>>
  BY DEF Redeliver, dataVars
<1>4. QED
  BY <1>2, <1>3, RowsStandWork

LEMMA OutsideWork ==
    ASSUME WorkInv, IngestRead \/ IngestCommit \/ UNCHANGED vars
    PROVE  WorkInv'
<1>1. UNCHANGED <<row, lost, early, undispatched>>
  BY DEF IngestRead, IngestCommit, vars, dataVars
<1>2. StillGoing({})
  BY DEF StillGoing, IngestRead, IngestCommit, vars, dataVars, workerVars
<1>3. QED
  BY <1>1, <1>2, RowsStandWork

(* A slot takes a message: what was queued is now being worked on.         *)
LEMMA DeliverWork ==
    ASSUME TypeInv, RowsForTasks, WorkInv, NEW w \in Workers, NEW m \in Message, Deliver(w, m)
    PROVE  WorkInv'
<1> DEFINE e == m.ev
<1>1. /\ e \in Evidence /\ m.kind \in Kinds
      /\ row[e].status # "ABSENT" /\ queue \in [Message -> Nat]
  BY MessageParts DEF RowsForTasks, TasksHaveRows, Deliver, TypeInv, TypeOK
<1>2. /\ pc'[w] = IF m.kind = "process" THEN "enter" ELSE "match"
      /\ task'[w] = m
      /\ at'[w] = "METADATA_EXTRACTION"
      /\ session'[w] = [NewSession EXCEPT !.mem = row[e].status]
      /\ \A x \in Workers : x # w =>
            /\ session'[x] = session[x]
            /\ task'[x] = task[x] /\ pc'[x] = pc[x] /\ at'[x] = at[x]
  BY <1>1 DEF Deliver, TypeInv, TypeOK
<1>3. session'[w].mem = row[e].status /\ ~session'[w].ents
  BY <1>2 DEF NewSession
<1>4. UNCHANGED <<row, matched, lost, early, undispatched>>
  BY DEF Deliver, dataVars
<1>5. \A n \in Message : n # m => queue'[n] = queue[n]
  BY <1>1 DEF Deliver
<1>6. SlotWork(w)'
  BY <1>1, <1>2 DEF SlotWork, Kinds
<1>7. \A x \in Workers : SlotWork(x)'
  <2>1. ASSUME NEW x \in Workers, x # w PROVE SlotWork(x)'
    BY <1>2, <2>1 DEF WorkInv, SlotWork
  <2>2. QED
    BY <1>6, <2>1
<1>8. \A x \in Workers : \A f \in Evidence :
          /\ Processes(x, f) => Processes(x, f)'
          /\ Answers(x, f) => Answers(x, f)'
  BY <1>2 DEF Processes, Answers, Deliver
<1>9. ASSUME NEW k, NEW f \in Evidence, Queued(k, f)
      PROVE  Queued(k, f)' \/ (k = m.kind /\ f = e)
  BY <1>5, <1>9 DEF Queued
<1>10. m.kind = "process" /\ Unsettled(e) => Processes(w, e)'
  BY <1>2, <1>3 DEF Processes, Unsettled
<1>11. m.kind = "match" => Answers(w, e)'
  BY <1>2 DEF Answers
<1>12. ASSUME NEW f \in Evidence, InProgress(f), Unsettled(f)
       PROVE  InProgress(f)'
  BY <1>4, <1>8, <1>9, <1>10, <1>12 DEF InProgress
<1>13. ASSUME NEW f \in Evidence, MatchComing(f)
       PROVE  MatchComing(f)'
  BY <1>4, <1>8, <1>9, <1>11, <1>13 DEF MatchComing
<1>14. ASSUME NEW f \in Evidence, EntitiesFound(f)' PROVE EntitiesFound(f)
  BY <1>2, <1>3, <1>4, <1>14 DEF EntitiesFound, EntitiesPending
<1>15. \A f \in Evidence : Unsettled(f)' <=> Unsettled(f)
  BY <1>4 DEF Unsettled
<1>16. QED
  BY <1>4, <1>7, <1>12, <1>13, <1>14, <1>15, WorkStep

(* The body of a stage: the run goes on, and what it may add is entities.  *)
LEMMA BodySession ==
    ASSUME TypeInv, NEW w \in Workers,
           RunOcr(w) \/ RunAI(w) \/ RunTimeline(w) \/ RunIndexing(w)
    PROVE  /\ \A x \in Workers : x # w => session'[x] = session[x]
           /\ session'[w].mem = session[w].mem
           /\ RunAI(w) \/ session'[w].ents = session[w].ents
<1>1. CASE RunOcr(w)
  <2>1. PICK b \in BOOLEAN :
           session' = [session EXCEPT ![w].hasText = task[w].ev \in Textual /\ ~b,
                                      ![w].text = task[w].ev \in Textual /\ ~b]
    BY <1>1 DEF RunOcr
  <2>2. QED
    BY <2>1 DEF TypeInv, TypeOK, Session
<1>2. CASE RunAI(w)
  <2>1. \/ \E b \in BOOLEAN : session' = [session EXCEPT ![w].ents = ~b]
        \/ session' = [session EXCEPT ![w].ents = TRUE]
        \/ session' = session
    BY <1>2, Zenon DEF RunAI
  <2>2. QED
    BY <1>2, <2>1 DEF TypeInv, TypeOK, Session
<1>3. CASE RunTimeline(w)
  <2>1. CASE ~session[w].hasText
    BY <1>3, <2>1 DEF RunTimeline
  <2>2. CASE Poison(w)
    BY <2>2 DEF Poison, TypeInv, TypeOK, Session
  <2>3. CASE session[w].hasText /\ ~Poison(w)
    <3>1. PICK extracted \in BOOLEAN, mirrored \in BOOLEAN :
            session' = [session EXCEPT
                ![w].raw = IF extracted THEN {fresh} ELSE {},
                ![w].canon =
                    IF mirrored
                    THEN IngestRows(Batches(task[w].ev, row[task[w].ev].raw \cup
                                               (IF extracted THEN {fresh} ELSE {})), fresh)
                    ELSE {}]
      BY <1>3, <2>3 DEF RunTimeline
    <3>2. QED
      BY <3>1 DEF TypeInv, TypeOK, Session
  <2>4. QED
    BY <2>1, <2>2, <2>3
<1>4. CASE RunIndexing(w)
  <2>1. \/ \E b : session' = [session EXCEPT ![w].summary = b]
        \/ session' = [session EXCEPT ![w].poisoned = TRUE]
    BY <1>4, Zenon DEF RunIndexing, Poison
  <2>2. QED
    BY <2>1 DEF TypeInv, TypeOK, Session
<1>5. QED
  BY <1>1, <1>2, <1>3, <1>4

LEMMA BodyWork ==
    ASSUME TypeInv, WorkInv, NEW w \in Workers,
           RunOcr(w) \/ RunAI(w) \/ RunTimeline(w) \/ RunIndexing(w)
    PROVE  WorkInv'
<1>1. pc[w] = "run" /\ StageDone(w) /\ UNCHANGED <<row, matched, early, undispatched, task>>
  BY DEF RunOcr, RunAI, RunTimeline, RunIndexing
<1>2. task[w] \in Message /\ task[w].ev \in Evidence /\ queue \in [Message -> Nat]
  BY <1>1, SlotFacts DEF TypeInv, TypeOK
<1> PICK f \in Evidence : f = task[w].ev
  BY <1>2
<1>3. New("match", f) \in Message /\ New("match", f).ev = f /\ New("match", f).kind = "match"
  BY <1>2, NewIsMessage DEF New, Kinds
<1>4. /\ \A x \in Workers : x # w => session'[x] = session[x]
      /\ session'[w].mem = session[w].mem
      /\ RunAI(w) \/ session'[w].ents = session[w].ents
  BY BodySession
<1>5. /\ queue' = queue \/ queue' = Sent(queue, New("match", f))
      /\ lost \subseteq lost'
      /\ session'[w].ents => session[w].ents \/ Queued("match", f)' \/ <<"match", f>> \in lost'
  <2>1. CASE RunOcr(w) \/ RunTimeline(w) \/ RunIndexing(w)
    <3>1. queue' = queue /\ lost' = lost
      BY <2>1 DEF RunOcr, RunTimeline, RunIndexing
    <3>2. ~RunAI(w)
      BY <2>1 DEF RunOcr, RunTimeline, RunIndexing, RunAI
    <3>3. QED
      BY <1>4, <3>1, <3>2
  <2>2. CASE RunAI(w)
    <3>1. \/ queue' = Sent(queue, New("match", f)) /\ lost' = lost
          \/ queue' = queue /\ lost' = lost \cup {<<"match", f>>}
          \/ queue' = queue /\ lost' = lost /\ session' = session
      BY <2>2, Zenon DEF RunAI
    <3>2. queue' = Sent(queue, New("match", f)) => Queued("match", f)'
      BY <1>2, <1>3, SentQueued DEF Queued
    <3>3. QED
      BY <3>1, <3>2
  <2>3. QED
    BY <2>1, <2>2
<1>6. /\ pc'[w] = "enter"
      /\ \A x \in Workers : x # w =>
            task'[x] = task[x] /\ pc'[x] = pc[x] /\ at'[x] = at[x]
  BY <1>1, StageDoneOthers DEF StageDone, TypeInv, TypeOK
<1>7. StillGoing({w})
  <2>1. \A m \in Message : queue[m] > 0 => queue'[m] > 0
    BY <1>2, <1>3, <1>5, SentQueued
  <2>2. QED
    BY <1>1, <1>4, <1>6, <2>1 DEF StillGoing
<1>8. SlotWork(w)'
  BY <1>1, <1>4, <1>6 DEF WorkInv, SlotWork
<1>9. ASSUME NEW e \in Evidence
      PROVE  /\ Processes(w, e) /\ Unsettled(e) =>
                    InProgress(e)' \/ <<"process", e>> \in lost'
             /\ Answers(w, e) /\ EntitiesFound(e)' =>
                    MatchComing(e)' \/ <<"match", e>> \in lost' \/ e \in early'
             /\ session'[w].ents /\ task'[w].ev = e =>
                    EntitiesPending(e) \/ MatchComing(e)' \/ <<"match", e>> \in lost'
  <2>1. Processes(w, e) => Processes(w, e)'
    BY <1>1, <1>4, <1>6 DEF Processes
  <2>2. ~Answers(w, e)
    BY <1>1 DEF Answers
  <2>3. session'[w].ents /\ task'[w].ev = e =>
            EntitiesPending(e) \/ MatchComing(e)' \/ <<"match", e>> \in lost'
    BY <1>1, <1>5 DEF EntitiesPending, MatchComing
  <2>4. QED
    BY <2>1, <2>2, <2>3 DEF InProgress
<1>10. QED
  BY <1>1, <1>5, <1>7, <1>8, <1>9, RowsStandWork

(* A match that reads no entities although some are there is early.        *)
LEMMA MatchReadWork ==
    ASSUME TypeInv, WorkInv, NEW w \in Workers, MatchRead(w)
    PROVE  WorkInv'
<1> DEFINE f == task[w].ev
<1>1. pc[w] = "match" /\ UNCHANGED <<row, matched, lost, queue, undispatched, task, at>>
  BY DEF MatchRead, dataVars
<1>2. task[w] \in Message /\ f \in Evidence /\ row[f].ents \in Nat
  BY <1>1, SlotFacts DEF TypeInv, TypeOK, Row
<1>3. /\ pc'[w] = "alert"
      /\ session'[w].seen = row[f].ents
      /\ session'[w].ents = session[w].ents
      /\ \A x \in Workers : x # w => pc'[x] = pc[x] /\ session'[x] = session[x]
  BY DEF MatchRead, TypeInv, TypeOK, Session
<1>4. StillGoing({w})
  BY <1>1, <1>3 DEF StillGoing
<1>5. SlotWork(w)'
  BY <1>1, <1>3 DEF WorkInv, SlotWork
<1>6. early \subseteq early' /\ (row[f].ents = 0 /\ EntitiesPending(f) => f \in early')
  BY DEF MatchRead
<1>7. ASSUME NEW e \in Evidence
      PROVE  /\ ~Processes(w, e)
             /\ Answers(w, e) /\ EntitiesFound(e)' => MatchComing(e)' \/ e \in early'
             /\ session'[w].ents /\ task'[w].ev = e => EntitiesPending(e)
  <2>1. ~Processes(w, e)
    BY <1>1 DEF Processes
  <2>2. ASSUME e = f, EntitiesFound(e)' PROVE MatchComing(e)' \/ e \in early'
    <3>1. CASE row[f].ents > 0
      BY <1>1, <1>3, <2>2, <3>1 DEF MatchComing, Answers
    <3>2. CASE row[f].ents = 0
      <4>1. EntitiesPending(f)
        BY <1>1, <1>3, <2>2, <3>2 DEF EntitiesFound, EntitiesPending
      <4>2. QED
        BY <1>6, <2>2, <3>2, <4>1
    <3>3. QED
      BY <1>2, <3>1, <3>2
  <2>3. session'[w].ents /\ task'[w].ev = e => EntitiesPending(e)
    BY <1>1, <1>3 DEF EntitiesPending
  <2>4. QED
    BY <2>1, <2>2, <2>3 DEF Answers
<1>8. QED
  BY <1>1, <1>4, <1>5, <1>6, <1>7, RowsStandWork

(* A slot that becomes free holds nothing. *)
LEMMA IdleWork ==
    ASSUME TypeInv, NEW w \in Workers, Idle(w)
    PROVE  /\ SlotWork(w)' /\ ~session'[w].ents
           /\ \A x \in Workers : x # w =>
                 /\ session'[x] = session[x]
                 /\ task'[x] = task[x] /\ pc'[x] = pc[x] /\ at'[x] = at[x]
  BY DEF Idle, SlotWork, NewSession, TypeInv, TypeOK

LEMMA MatchCommitWork ==
    ASSUME TypeInv, WorkInv, NEW w \in Workers, MatchCommit(w)
    PROVE  WorkInv'
<1>1. pc[w] = "alert" /\ Idle(w) /\ UNCHANGED <<row, lost, early, queue, undispatched>>
  BY DEF MatchCommit
<1>2. task[w].ev \in Evidence
  BY <1>1, SlotFacts
<1>3. /\ \A e \in Evidence : matched[e] \subseteq matched'[e]
      /\ session[w].seen \in matched'[task[w].ev]
  BY <1>2 DEF MatchCommit, TypeInv, TypeOK
<1>4. StillGoing({w})
  BY <1>1, <1>3, IdleWork DEF StillGoing
<1>5. ASSUME NEW e \in Evidence
      PROVE  ~Processes(w, e) /\ (Answers(w, e) => MatchComing(e)')
  <2>1. ~Processes(w, e)
    BY <1>1 DEF Processes
  <2>2. Answers(w, e) => MatchComing(e)'
    BY <1>1, <1>3 DEF Answers, MatchComing
  <2>3. QED
    BY <2>1, <2>2
<1>6. QED
  BY <1>1, <1>4, <1>5, IdleWork, RowsStandWork

(* What a task leaves behind when an error ends it: its message again, or  *)
(* a note that it is lost.                                                 *)
LEMMA EndedWork ==
    ASSUME TypeInv, WorkInv, NEW w \in Workers, pc[w] # "idle", Propagate(w) \/ ChildLoss(w)
    PROVE  WorkInv'
<1> DEFINE m == task[w]
           r == [m EXCEPT !.tries = @ + 1]
<1>1. m \in Message /\ m.ev \in Evidence /\ m.kind \in Kinds /\ queue \in [Message -> Nat]
  BY SlotFacts DEF TypeInv, TypeOK
<1>2. Idle(w) /\ UNCHANGED <<row, matched, early, undispatched>>
  BY DEF Propagate, ChildLoss, dataVars
<1>3. \/ m.tries < MaxRetries[m.kind] /\ queue' = Sent(queue, r) /\ lost' = lost
      \/ queue' = queue /\ lost' = lost \cup {Of(m)}
  BY DEF Propagate, ChildLoss
<1>4. ASSUME m.tries < MaxRetries[m.kind]
      PROVE  r \in Message /\ r.ev = m.ev /\ r.kind = m.kind
  BY <1>1, <1>4, RetryIsMessage, MessageParts
<1>5. \A n \in Message : queue[n] > 0 => queue'[n] > 0
  BY <1>1, <1>3, <1>4, SentQueued
<1>6. ASSUME NEW k, NEW e, k = m.kind, e = m.ev
      PROVE  Queued(k, e)' \/ <<k, e>> \in lost'
  BY <1>1, <1>3, <1>4, <1>6, SentQueued DEF Queued, Of
<1>7. StillGoing({w})
  BY <1>2, <1>5, IdleWork DEF StillGoing
<1>8. ASSUME NEW e \in Evidence
      PROVE  /\ Processes(w, e) => InProgress(e)' \/ <<"process", e>> \in lost'
             /\ Answers(w, e) => MatchComing(e)' \/ <<"match", e>> \in lost'
  <2>1. SlotWork(w)
    BY DEF WorkInv
  <2>2. Processes(w, e) => InProgress(e)' \/ <<"process", e>> \in lost'
    BY <1>6, <2>1 DEF Processes, SlotWork, InProgress
  <2>3. Answers(w, e) => MatchComing(e)' \/ <<"match", e>> \in lost'
    BY <1>6, <2>1 DEF Answers, SlotWork, MatchComing
  <2>4. QED
    BY <2>2, <2>3
<1>9. lost \subseteq lost'
  BY <1>3
<1>10. QED
  BY <1>2, <1>7, <1>8, <1>9, IdleWork, RowsStandWork

(* A run that sets the next status will go on; one that ends leaves a      *)
(* terminal status unless it remembers one.                                *)
LEMMA CommitWork ==
    ASSUME TypeInv, WorkInv, NEW w \in Workers, EnterStage(w) \/ Finalize(w) \/ FailRun(w)
    PROVE  WorkInv'
<1>1. task[w].ev \in Evidence /\ pc[w] \in {"enter", "run"}
  BY RunRow DEF EnterStage, Finalize, FailRun
<1> PICK f \in Evidence : f = task[w].ev
  BY <1>1
<1>2. /\ \A e \in Evidence : e # f => row'[e] = row[e]
      /\ row'[f].ents > 0 => row[f].ents > 0 \/ session[w].ents
  BY RunRow
<1>3. UNCHANGED <<matched, lost, early, queue, undispatched>>
  BY DEF EnterStage, Finalize, FailRun
<1>4. /\ ~session'[w].ents
      /\ \A x \in Workers : x # w =>
            /\ session'[x] = session[x]
            /\ task'[x] = task[x] /\ pc'[x] = pc[x] /\ at'[x] = at[x]
  <2>1. CASE EnterStage(w)
    BY <2>1 DEF EnterStage, Cleared, TypeInv, TypeOK, Session
  <2>2. CASE Finalize(w) \/ FailRun(w)
    BY <2>2, IdleWork DEF Finalize, FailRun
  <2>3. QED
    BY <2>1, <2>2
<1>5. StillGoing({w})
  BY <1>3, <1>4 DEF StillGoing
<1>6. ASSUME EnterStage(w) PROVE SlotWork(w)' /\ InProgress(f)'
  <2>1. /\ at[w] \in Stage \ {"COMPLETED"}
        /\ pc'[w] \in {"enter", "run"} /\ task'[w] = task[w]
        /\ session'[w].mem = at[w]
        /\ pc'[w] = "run" => at'[w] = at[w] /\ at[w] \notin Silent
    BY <1>6 DEF EnterStage, Cleared, TypeInv, TypeOK, Session
  <2>2. session'[w].mem \notin Terminal
    BY <2>1 DEF Stage, NextStage, Terminal
  <2>3. SlotWork(w)'
    BY <1>1, <2>1, <2>2 DEF WorkInv, SlotWork, Silent
  <2>4. Processes(w, f)'
    BY <2>1, <2>2 DEF Processes
  <2>5. QED
    BY <2>3, <2>4 DEF InProgress
<1>7. ASSUME Finalize(w) \/ FailRun(w)
      PROVE  SlotWork(w)' /\ (Unsettled(f)' => Unsettled(f) /\ ~Processes(w, f))
  <2>1. SlotWork(w)'
    BY <1>7, IdleWork DEF Finalize, FailRun
  <2>2. ~EnterStage(w)
    <3>1. pc'[w] = "idle"
      BY <1>7 DEF Finalize, FailRun, Idle, TypeInv, TypeOK
    <3>2. EnterStage(w) => pc'[w] \in {"enter", "run"}
      BY DEF EnterStage, TypeInv, TypeOK
    <3>3. QED
      BY <3>1, <3>2
  <2>3. PICK s \in Terminal :
           /\ row'[f].status \in {row[f].status, s}
           /\ s # session[w].mem => row'[f].status = s
    BY <2>2, RunRow
  <2>4. Unsettled(f)' => Unsettled(f) /\ ~Processes(w, f)
    BY <2>3 DEF Unsettled, Processes
  <2>5. QED
    BY <2>1, <2>4
<1>8. /\ SlotWork(w)'
      /\ Unsettled(f)' => InProgress(f)' \/ (Unsettled(f) /\ ~Processes(w, f))
  BY <1>6, <1>7
<1>9. \A x \in Workers : SlotWork(x)'
  <2>1. ASSUME NEW x \in Workers, x # w PROVE SlotWork(x)'
    BY <1>4, <2>1 DEF WorkInv, SlotWork
  <2>2. QED
    BY <1>8, <2>1
<1>10. ASSUME NEW e \in Evidence
       PROVE  /\ Unsettled(e)' => Unsettled(e) \/ InProgress(e)'
              /\ InProgress(e) /\ Unsettled(e)' => InProgress(e)'
  <2>1. InProgress(e) => InProgress(e)' \/ Processes(w, e)
    BY <1>3, <1>5, OthersGoOn
  <2>2. e # f => ~Processes(w, e)
    BY DEF Processes
  <2>3. e # f => (Unsettled(e)' <=> Unsettled(e))
    BY <1>2 DEF Unsettled
  <2>4. QED
    BY <1>8, <2>1, <2>2, <2>3
<1>11. ASSUME NEW e \in Evidence
       PROVE  /\ EntitiesFound(e)' => EntitiesFound(e)
              /\ MatchComing(e) => MatchComing(e)'
  <2>1. EntitiesPending(e)' => EntitiesPending(e)
    BY <1>4, <1>5, OthersGoOn
  <2>2. row'[e].ents > 0 => row[e].ents > 0 \/ EntitiesPending(e)
    BY <1>2 DEF EntitiesPending
  <2>3. ~Answers(w, e)
    BY <1>1 DEF Answers
  <2>4. MatchComing(e) => MatchComing(e)'
    BY <1>5, <2>3, OthersGoOn
  <2>5. QED
    BY <2>1, <2>2, <2>4 DEF EntitiesFound
<1>12. QED
  BY <1>3, <1>9, <1>10, <1>11, WorkStep

(* What the broker still held comes back; what it had given out again      *)
(* before is noted as lost.                                                *)
LEMMA CrashWork ==
    ASSUME TypeInv, WorkInv, Crash
    PROVE  WorkInv'
<1>1. queue \in [Message -> Nat] /\ owned \subseteq Workers
  BY DEF TypeInv, TypeOK
<1>2. ASSUME NEW m \in Message
      PROVE  /\ queue[m] > 0 => queue'[m] > 0
             /\ (\E w \in owned : task[w] = m) => queue'[m] > 0
  <2> DEFINE H == {w \in owned : task[w] = m}
  <2>1. IsFiniteSet(H)
    BY <1>1, PipelineAssumption, FS_Subset
  <2>2. Cardinality(H) \in Nat /\ (Cardinality(H) = 0 <=> H = {})
    BY <2>1, FS_CardinalityType, FS_EmptySet
  <2>3. queue'[m] = queue[m] + Cardinality(H)
    BY DEF Crash
  <2>4. (\E w \in owned : task[w] = m) => H # {}
    OBVIOUS
  <2> HIDE DEF H
  <2>5. QED
    BY <1>1, <2>2, <2>3, <2>4
<1>3. UNCHANGED <<row, matched, early, undispatched>> /\ lost \subseteq lost'
  BY DEF Crash, dataVars
<1>4. \A w \in Workers : pc'[w] = "idle" /\ ~session'[w].ents
  BY DEF Crash, NewSession
<1>5. \A w \in Workers : SlotWork(w)'
  BY <1>4 DEF SlotWork
<1>6. StillGoing(Workers)
  BY <1>2, <1>3 DEF StillGoing
<1>7. ASSUME NEW w \in Workers, pc[w] # "idle", NEW k, NEW e, k = task[w].kind, e = task[w].ev
      PROVE  Queued(k, e)' \/ <<k, e>> \in lost'
  <2>1. task[w] \in Message
    BY <1>7, SlotFacts
  <2>2. CASE w \in owned
    BY <1>2, <1>7, <2>1, <2>2 DEF Queued
  <2>3. CASE w \notin owned
    BY <1>7, <2>3 DEF Crash, Of
  <2>4. QED
    BY <2>2, <2>3
<1>8. ASSUME NEW w \in Workers, NEW e \in Evidence
      PROVE  /\ Processes(w, e) => InProgress(e)' \/ <<"process", e>> \in lost'
             /\ Answers(w, e) => MatchComing(e)' \/ <<"match", e>> \in lost'
  <2>1. SlotWork(w)
    BY DEF WorkInv
  <2>2. Processes(w, e) => InProgress(e)' \/ <<"process", e>> \in lost'
    BY <1>7, <2>1 DEF Processes, SlotWork, InProgress
  <2>3. Answers(w, e) => MatchComing(e)' \/ <<"match", e>> \in lost'
    BY <1>7, <2>1 DEF Answers, SlotWork, MatchComing
  <2>4. QED
    BY <2>2, <2>3
<1>9. QED
  BY <1>3, <1>4, <1>5, <1>6, <1>8, RowsStandWork

LEMMA NextWork ==
    ASSUME TypeInv, RowsForTasks, WorkInv, [Next]_vars
    PROVE  WorkInv'
<1>1. ASSUME NEW e \in Evidence, Upload(e) \/ Dispatch(e) PROVE WorkInv'
  BY <1>1, UploadWork, DispatchWork
<1>2. CASE IngestRead \/ IngestCommit \/ UNCHANGED vars
  BY <1>2, OutsideWork
<1>3. ASSUME NEW w \in Workers, NEW m \in Message, Deliver(w, m) PROVE WorkInv'
  BY <1>3, DeliverWork
<1>4. ASSUME NEW w \in Workers, DbFailure(w) \/ ChildLoss(w) \/ AbortRun(w) PROVE WorkInv'
  <2>1. pc[w] # "idle" /\ (Propagate(w) \/ ChildLoss(w))
    BY <1>4 DEF DbFailure, ChildLoss, AbortRun
  <2>2. QED
    BY <2>1, EndedWork
<1>5. ASSUME NEW w \in Workers, Step(w) PROVE WorkInv'
  BY <1>4, <1>5, CommitWork, BodyWork, MatchReadWork, MatchCommitWork DEF Step
<1>6. ASSUME NEW w \in Workers, Redeliver(w) PROVE WorkInv'
  BY <1>6, RedeliverWork
<1>7. CASE Crash
  BY <1>7, CrashWork
<1>8. QED
  BY <1>1, <1>2, <1>3, <1>4, <1>5, <1>6, <1>7 DEF Next

LEMMA InitWork == Init => WorkInv
<1> SUFFICES ASSUME Init PROVE WorkInv
  OBVIOUS
<1>1. \A w \in Workers : SlotWork(w)
  BY DEF Init, SlotWork
<1>2. NoneForgotten
  BY DEF Init, NoneForgotten, Unsettled, NoRow
<1>3. EntitiesTold
  BY DEF Init, EntitiesTold, EntitiesFound, EntitiesPending, NoRow, NewSession
<1>4. QED
  BY <1>1, <1>2, <1>3 DEF WorkInv

LEMMA WorkInvHolds == Spec => [](SafetyInv /\ WorkInv)
<1>1. SafetyInv /\ WorkInv /\ [Next]_vars => SafetyInv' /\ WorkInv'
  BY NextSafetyInv, NextWork DEF SafetyInv
<1>2. QED
  BY InitSafetyInv, InitWork, <1>1, PTL DEF Spec

(* When nothing is under way for an item, no part of InProgress and only   *)
(* the last of MatchComing can hold.                                       *)
LEMMA QuietEnds ==
    ASSUME TypeInv, WorkInv, NEW e \in Evidence, Quiet(e)
    PROVE  /\ ~InProgress(e)
           /\ MatchComing(e) => \E n \in matched[e] : n > 0
<1>1. \A k \in Kinds : ~Queued(k, e)
  BY MessageParts DEF Quiet, Queued
<1>2. \A w \in Workers : ~Processes(w, e) /\ ~Answers(w, e)
  BY SlotFacts DEF Quiet, Executing, Processes, Answers
<1>3. QED
  BY <1>1, <1>2 DEF InProgress, MatchComing, Quiet, Kinds

(* Whatever fails, comes back or overlaps, an item that nobody works on    *)
(* has a terminal status unless a processing task of it was lost.          *)
THEOREM NeverStranded == Spec => []NoneStranded
<1>1. SafetyInv /\ WorkInv => NoneStranded
  BY QuietEnds DEF SafetyInv, WorkInv, NoneForgotten, NoneStranded, Unsettled
<1>2. QED
  BY <1>1, WorkInvHolds, PTL

(* Committed entities have been seen by a finished match once nothing is   *)
(* under way, unless a match task was lost or read before the commit.      *)
THEOREM AlwaysMatchedUnlessEarly == Spec => []MatchedUnlessEarly
<1>1. SafetyInv /\ WorkInv => MatchedUnlessEarly
  BY QuietEnds DEF SafetyInv, WorkInv, EntitiesTold, EntitiesFound, MatchedUnlessEarly
<1>2. QED
  BY <1>1, WorkInvHolds, PTL

=============================================================================
