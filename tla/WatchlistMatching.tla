-------------------------- MODULE WatchlistMatching --------------------------
(***************************************************************************)
(* From extracted entities to alerts: the watchlist.match_evidence task,   *)
(* WatchlistMatchingEngine, the watchlist, alert and notification services.*)
(* A worker slot runs one task at a time: a pipeline run (EvidencePipeline *)
(* has the rest of it), which sends the match message before it commits    *)
(* the entities, or a match, which reads, and later commits its alerts,    *)
(* hit counts and notifications in one transaction.                        *)
(***************************************************************************)
EXTENDS Naturals, FiniteSets

CONSTANTS
    Items,      \* evidence items
    CaseOf,     \* the case of each item
    Texts,      \* what may be found in an item: [type, core, form]
    Entries,    \* watchlist entries, each with its watchlist's type and scope
    Terms,      \* what an entry may watch: [list, text, regex, scope]
    Members,    \* owner and assignees of each case
    Threshold,  \* _REPEATED_APPEARANCE_THRESHOLD, 3 in the code
    Slots,      \* worker slots
    MaxRetries, \* max_retries of the task, 2 in the code
    Budget,     \* how often each request and each fault may come
    MostCauses, \* how many kinds of them in one behaviour
    NoRow, Removed, NoEntry

Cases == {CaseOf[i] : i \in Items}
Users == UNION {Members[k] : k \in Cases}

EntityTypes == {"email", "phone", "domain"}
ListTypes == {"email", "phone", "domain", "imei", "keyword"}
Forms == {"plain", "uppercase", "spaced"}
Causes == {"add", "edit", "remove", "dbError", "crash", "childLoss", "sendFailure", "redelivery"}

Global == "all cases"

Entry == [term : Terms, active : BOOLEAN, hits : Nat]
Normalised == [type : EntityTypes, core : {x.core : x \in Texts}, form : Forms]

ASSUME WatchlistAssumption ==
    /\ Threshold \in Nat \ {0}
    /\ MaxRetries \in Nat
    /\ Texts \subseteq Normalised
    /\ \A t \in Terms : t.list \in ListTypes /\ t.text.form \in Forms /\ t.regex \in BOOLEAN
    /\ Budget \in [Causes -> Nat] /\ MostCauses \in Nat
    /\ NoRow \notin Entry /\ Removed \notin Entry /\ NoEntry \notin Entries

(* An item has finitely many texts, a watchlist finitely many entries. *)
ASSUME FiniteAssumption ==
    IsFiniteSet(Items) /\ IsFiniteSet(Texts) /\ IsFiniteSet(Entries) /\ IsFiniteSet(Slots)

VARIABLES
    entity,    \* committed entities of each item
    entry,     \* watchlist entries
    alert,     \* committed alerts: which match of the item made them, what was found,
               \* the entry they refer to and the users notified
    queue,     \* match messages waiting, by item and retries so far
    slot,      \* what each worker slot does
    run,       \* matches of each item committed so far
    left,      \* requests and faults still to come
    overlaid,  \* entries whose hit count a match wrote over that of another
    missed     \* items a match of which read while they were being extracted,
               \* or whose match was given up or lost

vars == <<entity, entry, alert, queue, slot, run, left, overlaid, missed>>

Tries == 0..MaxRetries
Idle == [task |-> "none"]
Found == [kind : {"watchlist", "repeated", "crossCase"}, item : Items, what : Normalised,
          by : Entries \cup {NoEntry}]
Alert == [run : Nat, found : Found, entry : Entries \cup {NoEntry}, told : SUBSET Users]
Extraction == [task : {"extract"}, item : Items, texts : SUBSET Texts]
Matching(job) ==
    /\ DOMAIN job = {"task", "item", "tries", "found", "loaded", "held"}
    /\ job.task = "match" /\ job.item \in Items /\ job.tries \in Tries /\ job.held \in BOOLEAN
    /\ job.found \subseteq Found
    /\ job.loaded \in [{f.by : f \in job.found} \ {NoEntry} -> Nat]

Exists(e) == entry[e] \notin {NoRow, Removed}

(* Type invariant, with the foreign key of alerts. *)
TypeOK ==
    /\ entity \in [Items -> SUBSET Texts]
    /\ entry \in [Entries -> Entry \cup {NoRow, Removed}]
    /\ alert \subseteq Alert
    /\ \A a \in alert : a.entry # NoEntry => Exists(a.entry)
    /\ queue \in [Items \X Tries -> Nat]
    /\ \A s \in Slots : slot[s] \in {Idle} \cup Extraction \/ Matching(slot[s])
    /\ run \in [Items -> Nat]
    /\ left \in [Causes -> Nat]
    /\ overlaid \subseteq Entries /\ missed \subseteq Items

(* Entries may have been added before the first item comes. *)
Init ==
    /\ entity = [i \in Items |-> {}]
    /\ entry \in [Entries -> [term : Terms, active : {TRUE}, hits : {0}] \cup {NoRow}]
    /\ alert = {}
    /\ queue = [m \in Items \X Tries |-> 0]
    /\ slot = [s \in Slots |-> Idle]
    /\ run = [i \in Items |-> 0]
    /\ left = Budget
    /\ overlaid = {} /\ missed = {}

Take(cause) ==
    /\ left[cause] > 0
    /\ left' = [left EXCEPT ![cause] = @ - 1]
    /\ Cardinality({c \in Causes : left'[c] # Budget[c]}) <= MostCauses

-----------------------------------------------------------------------------
(* What matches what. *)

(* extract_entities normalises to lower case, and drops all punctuation    *)
(* from a phone number.                                                    *)
Normal(x) ==
    IF x.form = "uppercase" \/ x.type = "phone" THEN [x EXCEPT !.form = "plain"] ELSE x

(* _normalize of the watchlist service: strip and lower only.              *)
EntryNormal(x) == IF x.form = "uppercase" THEN [x EXCEPT !.form = "plain"] ELSE x

(* _WATCHLIST_TO_ENTITY_TYPES; None means every type.                      *)
TargetTypes(list) ==
    CASE list = "email"   -> {"email"}
      [] list = "phone"   -> {"phone"}
      [] list = "domain"  -> {"domain"}
      [] list = "imei"    -> {}
      [] list = "keyword" -> EntityTypes

(* A regular expression stands for a pattern that finds the core in any    *)
(* form; plain entries compare normal forms.                               *)
Matches(term, x) ==
    /\ x.type \in TargetTypes(term.list)
    /\ IF term.regex THEN x.core = term.text.core
       ELSE LET t == EntryNormal(term.text)  n == Normal(x) IN
            t.core = n.core /\ t.form = n.form

(* Active entries of the item's case and of all cases. *)
Applicable(i) ==
    {e \in Entries : /\ Exists(e)
                     /\ entry[e].active
                     /\ entry[e].term.scope \in {Global, CaseOf[i]}}

Normals(i) == {Normal(x) : x \in entity[i]}

Others(i, n) == {j \in Items \ {i} : CaseOf[j] = CaseOf[i] /\ n \in Normals(j)}

(* Slip: other items are compared with the full threshold. *)
RepeatedOffByOne(i) == {n \in Normals(i) : Cardinality(Others(i, n)) >= Threshold}

Repeated(i) == {n \in Normals(i) : Cardinality(Others(i, n)) >= Threshold - 1}

CrossCase(i) ==
    {n \in Normals(i) : \E j \in Items : CaseOf[j] # CaseOf[i] /\ n \in Normals(j)}

Hit(kind, i, n, e) == [kind |-> kind, item |-> i, what |-> n, by |-> e]

(* WatchlistMatchingEngine.run: the three passes. *)
Matched(i) ==
    LET pairs == {p \in entity[i] \X Applicable(i) : Matches(entry[p[2]].term, p[1])} IN
    {Hit("watchlist", i, Normal(p[1]), p[2]) : p \in pairs}
      \cup {Hit("repeated", i, n, NoEntry) : n \in Repeated(i)}
      \cup {Hit("crossCase", i, n, NoEntry) : n \in CrossCase(i)}

-----------------------------------------------------------------------------
(* The worker. *)

Busy(s, what) == slot' = [slot EXCEPT ![s] = what]

(* Extraction keeps one text per type and normal form. *)
Extracts == {X \in SUBSET Texts : X # {} /\ \A x, y \in X : Normal(x) = Normal(y) => x = y}

Queue(i, n) == queue' = [queue EXCEPT ![<<i, n>>] = @ + 1] /\ UNCHANGED missed

(* No message comes for this match any more. *)
Lose(i) == missed' = missed \cup {i} /\ UNCHANGED queue

UnderExtraction(i) == \E t \in Slots : slot[t].task = "extract" /\ slot[t].item = i

(* A pipeline run sends the match message; that it could not be sent is    *)
(* only logged... *)
Extract(s, i) ==
    /\ slot[s] = Idle
    /\ entity[i] = {}
    /\ ~UnderExtraction(i)
    /\ \E X \in Extracts : Busy(s, [task |-> "extract", item |-> i, texts |-> X])
    /\ \/ Queue(i, 0) /\ UNCHANGED left
       \/ Take("sendFailure") /\ Lose(i)
    /\ UNCHANGED <<entity, entry, alert, run, overlaid>>

(* ... and commits the entities afterwards. *)
ExtractCommit(s) ==
    /\ slot[s].task = "extract"
    /\ entity' = [entity EXCEPT ![slot[s].item] = slot[s].texts]
    /\ Busy(s, Idle)
    /\ UNCHANGED <<entry, alert, queue, run, left, overlaid, missed>>

(* A match reads entities and entries, with the hit counts it will raise;  *)
(* when nothing is found it is over.  Until then the broker holds its      *)
(* message.                                                                *)
Match(s, i, n) ==
    /\ slot[s] = Idle
    /\ queue[<<i, n>>] > 0
    /\ queue' = [queue EXCEPT ![<<i, n>>] = @ - 1]
    /\ LET found == Matched(i) IN
       IF found = {} THEN UNCHANGED slot
       ELSE Busy(s, [task |-> "match", item |-> i, tries |-> n, found |-> found, held |-> TRUE,
                     loaded |-> [e \in {f.by : f \in found} \ {NoEntry} |-> entry[e].hits]])
    /\ missed' = missed \cup (IF UnderExtraction(i) THEN {i} ELSE {})
    /\ UNCHANGED <<entity, entry, alert, run, left, overlaid>>

(* Slip: an entry is counted once per run. *)
RaisedOncePerRun(s, e) == slot[s].loaded[e] + 1

Raised(s, e) == slot[s].loaded[e] + Cardinality({f \in slot[s].found : f.by = e})

(* _get_case_members. *)
Recipients(k) == Members[k]

LoadedExist(s) == \A e \in DOMAIN slot[s].loaded : Exists(e)

(* Alerts, hit counts and notifications commit together. *)
MatchCommit(s) ==
    /\ slot[s].task = "match"
    /\ LoadedExist(s)
    /\ alert' = alert \cup
          {[run |-> run[slot[s].item], found |-> f, entry |-> f.by,
            told |-> Recipients(CaseOf[slot[s].item])] : f \in slot[s].found}
    /\ entry' = [e \in Entries |-> IF e \in DOMAIN slot[s].loaded
                                   THEN [entry[e] EXCEPT !.hits = Raised(s, e)]
                                   ELSE entry[e]]
    /\ run' = [run EXCEPT ![slot[s].item] = @ + 1]
    /\ overlaid' = overlaid \cup {e \in DOMAIN slot[s].loaded : entry[e].hits # slot[s].loaded[e]}
    /\ Busy(s, Idle)
    /\ UNCHANGED <<entity, queue, left, missed>>

MayRetry(n) == n < MaxRetries

(* An entry was removed since the match read it, or the database raised:   *)
(* the transaction rolls back and the task is retried as a new message; it *)
(* is given up after the last retry, or when that message cannot be sent.  *)
MatchFails(s) ==
    /\ slot[s].task = "match"
    /\ \/ ~LoadedExist(s) /\ UNCHANGED left
       \/ Take("dbError")
    /\ \/ MayRetry(slot[s].tries) /\ Queue(slot[s].item, slot[s].tries + 1)
       \/ Lose(slot[s].item)
    /\ Busy(s, Idle)
    /\ UNCHANGED <<entity, entry, alert, run, overlaid>>

(* Slots whose message m comes back when the worker dies. *)
Holding(m) ==
    {s \in Slots : slot[s].task = "match" /\ slot[s].held /\ <<slot[s].item, slot[s].tries>> = m}

(* The worker dies with all its slots: the broker delivers again what it   *)
(* still holds, an extraction will be run again by the pipeline.           *)
Crash ==
    /\ Take("crash")
    /\ queue' = [m \in Items \X Tries |-> queue[m] + Cardinality(Holding(m))]
    /\ slot' = [s \in Slots |-> Idle]
    /\ UNCHANGED <<entity, entry, alert, run, overlaid, missed>>

(* A forked child dies: its message is acknowledged, because the tasks are *)
(* not configured to be rejected then (task_reject_on_worker_lost).        *)
ChildLoss(s) ==
    /\ slot[s] # Idle
    /\ Take("childLoss")
    /\ IF slot[s].task = "match" THEN Lose(slot[s].item) ELSE UNCHANGED <<queue, missed>>
    /\ Busy(s, Idle)
    /\ UNCHANGED <<entity, entry, alert, run, overlaid>>

(* The visibility timeout passes while the match runs: its message is      *)
(* delivered again, and no longer held for this run.                       *)
Redeliver(s) ==
    /\ slot[s].task = "match" /\ slot[s].held
    /\ Take("redelivery")
    /\ Queue(slot[s].item, slot[s].tries)
    /\ Busy(s, [slot[s] EXCEPT !.held = FALSE])
    /\ UNCHANGED <<entity, entry, alert, run, overlaid>>

(* The pipeline's own message comes a second time: it finds the same texts *)
(* and sends another match message.                                        *)
Rerun(i) ==
    /\ entity[i] # {}
    /\ Take("redelivery")
    /\ Queue(i, 0)
    /\ UNCHANGED <<entity, entry, alert, slot, run, overlaid>>

-----------------------------------------------------------------------------
(* The watchlist routes. *)

SetEntry(e, row) ==
    /\ entry' = [entry EXCEPT ![e] = row]
    /\ UNCHANGED <<entity, queue, slot, run, overlaid, missed>>

AddEntry(e) ==
    /\ entry[e] = NoRow
    /\ Take("add")
    /\ \E term \in Terms : SetEntry(e, [term |-> term, active |-> TRUE, hits |-> 0])
    /\ UNCHANGED alert

(* update_entry and update_watchlist leave the hit count alone. *)
EditEntry(e) ==
    /\ Exists(e)
    /\ Take("edit")
    /\ \E term \in Terms, active \in BOOLEAN :
          SetEntry(e, [term |-> term, active |-> active, hits |-> entry[e].hits])
    /\ UNCHANGED alert

(* Slip: alerts keep the identifier of an entry that is gone. *)
DetachedNot(e) == alert

(* Alerts stay, without their entry (ON DELETE SET NULL). *)
Detached(e) == {IF a.entry = e THEN [a EXCEPT !.entry = NoEntry] ELSE a : a \in alert}

RemoveEntry(e) ==
    /\ Exists(e)
    /\ Take("remove")
    /\ SetEntry(e, Removed)
    /\ alert' = Detached(e)

WorkerStep(s) ==
    \/ \E i \in Items : Extract(s, i)
    \/ \E i \in Items, n \in Tries : Match(s, i, n)
    \/ ExtractCommit(s)
    \/ MatchCommit(s)
    \/ MatchFails(s)
    \/ ChildLoss(s)
    \/ Redeliver(s)

Next ==
    \/ \E s \in Slots : WorkerStep(s)
    \/ \E i \in Items : Rerun(i)
    \/ Crash
    \/ \E e \in Entries : AddEntry(e) \/ EditEntry(e) \/ RemoveEntry(e)

Spec == Init /\ [][Next]_vars

-----------------------------------------------------------------------------

(* The hit count of an entry is the number of alerts that refer to it,     *)
(* whatever retries, repeated messages and edits there were, unless two    *)
(* matches that found it overlapped.                                       *)
HitsCounted ==
    \A e \in Entries \ overlaid : Exists(e) =>
        entry[e].hits = Cardinality({a \in alert : a.entry = e})

(* Nothing is waiting and nothing is under way. *)
Quiet == (\A s \in Slots : slot[s] = Idle) /\ \A m \in DOMAIN queue : queue[m] = 0

(* An alert about this was raised and every member of the case notified.   *)
Told(f) == \E a \in alert : a.found = f /\ Members[CaseOf[f.item]] \subseteq a.told

(* A text found in as many items of a case as the threshold says has been  *)
(* reported for one of these items, in whatever order they were processed. *)
RepeatTold ==
    Quiet => \A n \in {Normal(x) : x \in Texts}, k \in Cases :
        LET holders == {i \in Items : CaseOf[i] = k /\ n \in Normals(i)} IN
        Cardinality(holders) >= Threshold /\ holders \cap missed = {}
            => \E i \in holders : Told(Hit("repeated", i, n, NoEntry))

(* A text that two cases have in common has been reported to one of them.  *)
CrossCaseTold ==
    Quiet => \A i, j \in Items \ missed : CaseOf[i] # CaseOf[j] =>
        \A n \in Normals(i) \cap Normals(j) :
            \E h \in Items : Told(Hit("crossCase", h, n, NoEntry))

(* The watchlists are as they were before the first item. *)
Unedited == \A cause \in {"add", "edit"} : left[cause] = Budget[cause]

(* Plain entries that watch x in case k. *)
Watching(x, k) ==
    {e \in Entries : /\ Exists(e)
                     /\ entry[e].active
                     /\ entry[e].term.scope \in {Global, k}
                     /\ ~entry[e].term.regex
                     /\ entry[e].term.list = x.type
                     /\ entry[e].term.text = x}

(* An item that contains an address exactly as an entry writes it raises an*)
(* alert for that entry, if the entry was there first.                     *)
EmailTold ==
    Quiet /\ Unedited => \A i \in Items \ missed : \A x \in {y \in entity[i] : y.type = "email"} :
        \A e \in Watching(x, CaseOf[i]) : Told(Hit("watchlist", i, Normal(x), e))

(* Whatever is repeated, shared by two cases or watched for is told, in    *)
(* whatever order the items come, through crashes of the worker, retries   *)
(* and repeated messages, except about items of which a match came too     *)
(* early, was given up, or lost its message: it could not be sent, or the  *)
(* child that ran it was killed.                                           *)
MatchesTold == RepeatTold /\ CrossCaseTold /\ EmailTold
=============================================================================
