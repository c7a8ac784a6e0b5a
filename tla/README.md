# A TLA+ model of D-CIP

D-CIP is a digital-crime investigation platform: a FastAPI backend
(`src/apps/api/app`), a Celery worker running the same code base, PostgreSQL,
Redis as broker, files on disk, an optional OpenSearch index, and a React
front end (`src/apps/web`). The modules in this directory model the backend's
stateful parts; this file says what they model and what was checked and proved.

## 1. The system

### 1.1 Processes and what they share

| process | runs | concurrency |
|---|---|---|
| API | `uvicorn app.main:app`, one process (`apps/api/entrypoint.sh`) | `def` routes run in a thread pool and interleave freely; the one `async def` route (`upload_evidence`) holds the event loop between its awaits |
| worker | `celery ... --concurrency=2` (`apps/worker/Dockerfile`) | two forked slots, `task_acks_late`, prefetch 1 |
| PostgreSQL | all rows | READ COMMITTED; sessions are `autoflush=False, expire_on_commit=False`, closing without a commit rolls back |
| Redis | Celery messages | redelivers an unacknowledged message after a visibility timeout |
| storage | the uploaded files | written by the upload route, read by worker and downloads, never deleted by the code except a duplicate or an over-sized upload |

Source paths below are relative to `src/apps/api/app`.

### 1.2 Components

**Evidence vault and custody log** (`api/v1/routes/evidence.py`,
`services/evidence.py`, `repositories/evidence.py`, `storage/local.py`).
State: one file per upload under a fresh path, `Evidence` rows with soft
deletion, the append-only custody log. Operations: upload (stream, hash,
duplicate check, insert, dispatch of processing), update, star, verify,
download, remove. Upload is a coroutine, the others run in threads. Correct if
an original is never lost, a case holds a content once, answers name the right
item, and the custody log tells what happened.

**Evidence processing pipeline** (`services/processing_pipeline.py`,
`worker/tasks/evidence.py`, `worker/celery_app.py`). State: status and
processing fields of the row, extracted text, entities, keywords, extraction
events, summary, the search index; Celery messages. A run walks through the
statuses METADATA_EXTRACTION, OCR_QUEUE, AI_QUEUE, TIMELINE_QUEUE, GRAPH_QUEUE,
INDEXED, COMPLETED; every status change is a commit, which also commits the
work of the stage before it. Correct if it survives late acknowledgement,
retries, crashes and overlapping runs of one item: what is committed fits
together, COMPLETED is true, and an item settles.

**Canonical timeline** (`services/timeline.py`, `repositories/timeline.py`).
State: canonical events with their origin in the extraction, merge links, soft
deletes, tags, verdicts. Operations: create, update, delete, pin, verify,
merge, split, ingest. Requests run in parallel READ COMMITTED transactions
that write only the columns their session saw change. Correct if the default
view behaves (an event is folded away and brought back, a removed one stays
removed), investigators' decisions survive, ingest is idempotent.

**Watchlists and alerts** (`worker/tasks/watchlist.py`,
`services/watchlist_matching.py`, `services/watchlist_service.py`). State:
entries with hit counts, alerts, notifications, match messages. Correct if
nothing that should raise an alert goes unnoticed, in whatever order items and
retries come, and counts agree with alerts.

**Alert triage and inbox** (`services/alert_service.py`,
`services/notification_service.py`). State: the verdict and stamps of each
alert, one notification per member of the case. Operations: acknowledge,
resolve, dismiss; read, read all, archive, delete. Correct if a name under a
verdict is that of a user who gave it, not a stale one, and nothing is marked
as read that came in later.

**Investigation reports** (`services/report_service.py`). State: report rows
(status, version, parent, configuration, content, hash), export records.
Correct if hash and content agree, only generated and approved reports are
published, and "generating" ends.

**Cases, tasks, notes, team** (`services/case.py`, `repositories/case.py`).
State: case rows with status, flags and a yearly reference number, assignments,
tasks, notes, the activity feed. Correct if the next number is free, status and
`archived_at` agree, and a completion is stamped and told once.

**Authentication and sessions** (`services/auth.py`, `services/user.py`, the
account part of `services/admin_service.py`). State: users with failed
attempts and lock, refresh tokens, reset tokens, session rows. Correct if what
is given for one use serves once, guessing stops at the limit, and a lock is
lifted only by someone who saw it.

**AI assistant and summary** (`services/ai_intelligence.py`,
`services/ai_provider.py`). State: chat messages, one summary per case.
Requests span a slow call of an external model. Correct if conversations and
summaries are not mixed.

**Relationship graph** (`services/ai_intelligence.py`) and **timeline analysis**
(`services/timeline_analysis.py`): pure functions of the stored entities and
events, with limits, windows and thresholds at which they could go wrong.

**Search** (`services/search_service.py`, `services/opensearch_service.py`):
reads the tables and an external index that the pipeline fills, when it can,
and nobody empties. Correct if it shows nothing removed or closed.

**Lists** (every paged read) and **dashboards and statistics**
(`services/dashboard_service.py`, `services/admin_service.py`): several
statements per answer under READ COMMITTED. Correct if pages miss nothing and
figures agree.

Users and roles, configuration, exports, parsers, infrastructure: section 7.

### 1.3 How they interact

```
 upload route --commit--> Evidence row --delay()--> Redis --> worker slot
                                                              |  run(): stages, a commit each
       POST /timeline/ingest ----> canonical timeline <-------+  mirrors its extraction events
                                                              |
 watchlist.match_evidence <------- delay(), before the commit +  of entities
        |--> alerts, hit counts, notifications (one transaction)
                |--> verdicts and inboxes, next to changes of the case and its team
 reports, assistant, graph, analysis, search, lists and dashboards read all of
 this; the front end only calls the API
```

Hard behaviours: runs of one item overlap after the visibility timeout;
messages are repeated or dropped; a process dies between two commits; a
session that failed to flush stays unusable until it is rolled back; a
transaction acts on rows another one has changed since; none of the
"look first, then insert" steps has a unique constraint behind it.
`PROJECT.json` lists these hazards line by line.

## 2. Modules

| module | models | kind |
|---|---|---|
| `EvidencePipeline` | the processing task, the broker, two kinds of messages, on-demand ingest, every fault | state machine |
| `CanonicalTimeline` | curation of one case's timeline by overlapping transactions | state machine |
| `TimelineView` | what the default view of the timeline promises | abstract specification, implemented by `CanonicalTimeline` |
| `InvestigationReports` | the life of reports, two-commit generation | state machine |
| `EvidenceVault` | uploads on the event loop, the threaded requests, files, custody | state machine |
| `WatchlistMatching` | extraction order, matching, alerts, hit counts, retries | state machine |
| `AuthSessions` | login, lockout, refresh, reset, password change, account administration | state machine |
| `CaseRecords` | cases, team, tasks, notes, activity feed, reference numbers | state machine |
| `AlertInbox` | alerts, verdicts, notifications; extends `CaseRecords` | state machine, composed with the cases |
| `CaseAssistant` | chats and summaries around the call of the model | state machine |
| `EvidenceGraph` | the relationship graph of a list of entity rows | operators, over every list a state machine can build |
| `TimelineAnalysis` | detectors and statistics of a list of events | the same |
| `CaseSearch` | search with and without the index, next to what changes the evidence | state machine and operators |
| `Listings` | every paged list, read next to writers | state machine |
| `Tallies` | every dashboard, read statement by statement next to writers | state machine |
| `MC*` | small instances for TLC; `MCInsight` and `MCConsoles` join three modules each that share no state, and let one move while the others rest | budgets and symmetry |
| `EvidencePipelineProofs` | typing and safety of the pipeline; nothing forgotten | theorems |
| `EvidenceVaultProofs` | typing and safety of the vault | theorems |
| `AuthSessionsProofs` | typing of the accounts; guesses, locks and tokens | theorems |
| `InvestigationReportsProofs` | typing and safety of the reports | theorems |
| `CanonicalTimelineProofs` | typing and safety of the timeline; that it implements `TimelineView` | theorems |
| `WatchlistMatchingProofs` | typing of the matching, hit counts, what is told | theorems |
| `CaseDeskProofs` | typing and safety of `CaseRecords` and `AlertInbox` together | theorems |
| `StableSort` | `list.sort` of Python, as places | operators, for the search and the analysis |
| `ReadingProofs` | what those are shown who read while others write: `CaseAssistant`, `Listings`, `CaseSearch`, `EvidenceGraph`, `Tallies`, `TimelineAnalysis`; lemmas about sorting, first rows and counting | theorems |

Every step that commits is one action: what a transaction read beforehand is
kept in a session variable (`session`, `req`, `job`, `slot`, `call`, `turn`) from the step that
read it to the step that commits. `Budget`, `Allowed` and the constants
`Max...` and `Last...` are the only caps: how often each request and each fault
may come, how long a list may be, how far time goes. Operators whose comment begins with
"Slip:" are plausible mistakes at the definition below them. No action uses
them; they are what the properties were tested against.

### 2.1 EvidencePipeline

| state | code |
|---|---|
| `row` | the `Evidence` row and its committed text, entities (in batches), extraction events, summary |
| `timeline` | canonical events with `source_timeline_event_id` |
| `queue`, `undispatched` | Celery messages with their retry count; uploads between their commit and `delay()` |
| `pc`, `task`, `at`, `session` | per worker slot: where in `run` it is, its message, the stage, what its session holds uncommitted |
| `owned` | slots whose delivery the broker still holds as unacknowledged, so that a crash brings it back |
| `lost`, `early` | what the properties except: tasks whose message is gone before they finished, items matched while their entities were uncommitted |
| `ingest` | an on-demand ingest between reading and committing |

| action | code |
|---|---|
| `Upload`, `Dispatch` | `record_upload` commits, then `_dispatch_processing`; a broker failure is swallowed |
| `Deliver` | the task loads the row; a missing row is logged and dropped |
| `EnterStage` | `_set_status`: one commit of the previous stage's work and the new status |
| `RunOcr`, `RunAI`, `RunTimeline`, `RunIndexing` | the stage bodies with their own `except` clauses |
| `Finalize`, `FailRun`, `AbortRun` | COMPLETED; `run`'s handler; the handler whose own commit fails |
| `DbFailure`, `Propagate` | an error that reaches the task: `retry` until `max_retries` |
| `MatchRead`, `MatchCommit` | the match task, as far as the pipeline is concerned |
| `ChildLoss`, `Crash`, `Redeliver` | a killed fork (its message is acknowledged), a dead container, the visibility timeout |
| `IngestRead`, `IngestCommit` | `TimelineService.ingest` next to the pipeline |

That the broker refuses the message of a retry, too, is left to
`WatchlistMatching`. Text, entities and keywords are abstracted to "there is something"; which items
have text is the constant `Textual`.

### 2.2 CanonicalTimeline and TimelineView

`event` is the table, `raw` the extraction rows, `req[r]` what request `r` will
write. An operation reads and computes `changes`: only columns whose new value
differs from the loaded one, as SQLAlchemy's flush does. `Commit` applies these
to whatever is committed then. `View` maps each row to none, visible, hidden or
deleted, and `ImplementsView` states that `CanonicalTimeline` implements
`TimelineView` under that mapping. `MergeFlagsAgree` relates the two columns that
a merge writes; `MergeFoldsTags` is about what a merge does at its commit.
`contested` is history: the events that were written while another request was
on its way to write them too, and the extraction rows that were mirrored while
another request, or the pipeline, was about to mirror them.

### 2.3 InvestigationReports

`req[q]` holds the copy of the row as loaded (`old`) and as changed (`new`); a
commit writes the columns in which they differ (sessions keep their copy after
a commit). Generation is `BeginGeneration` (status "generating" committed),
then collecting, then `EndGeneration` (content and hash, or back to draft after
an error). Content is the configuration and the case data it was made from, or
`Empty` when every section is disabled (`Blank`); a hash stands for the content
it was computed from. `Empty` is also the content a report is created with, so a
generation without sections leaves it out of its `UPDATE`. The history variable
`blanked` names the reports that had another content by then (`Blanks`).

### 2.4 EvidenceVault

`file` is what lies at each upload's path, `upload` the phase of each upload,
`job` the request each thread serves. `LoopFree` is the event loop: from the
last chunk of a stream to the answer no other upload moves, because
`record_upload` is synchronous code called from the coroutine. Threads
interleave with everything. Tags, notes and metadata are left out of the row.

### 2.5 WatchlistMatching

A slot runs an extraction or a match. `Extract` sends the match message and
`ExtractCommit` commits the entities, in that order, as the code has it.
`Match` reads entities, entries and counts; `MatchCommit` commits alerts, hit
counts and notifications at once, or fails into a retry. `Redeliver` is the visibility timeout of
a match, `Rerun` that of the pipeline's own message. The broker keeps the
message of a match (`held`) until it ends or is delivered again: a crash of the worker
brings back what it holds (`Holding`), a killed child acknowledges it
(`ChildLoss`), and a send that fails is only logged (`Lose`). A text is a type, a
core and a form (plain, upper case, spaced); `Normal` and `EntryNormal` are the
two normalisations of the code, which differ. Slots overlap, so two items of
history say what became of it: `overlaid` holds the entries whose hit count one
match wrote over another's, `missed` the items that a match read before their
entities were committed, or whose match was given up after the last retry or lost its message.

### 2.6 AuthSessions

`req[q]` holds what a request read (`from`) and will write: changed columns of
the user, tokens to revoke, a token to issue. `revoke_all_for_user` is a
statement of its own: it sees the tokens committed at some moment between the
reading and the commit (`Revoked`). Time is lock, access token, refresh token
and reset token each expiring when they like. `guesses`, `spent` and `raced` are
history: wrong passwords since the last unlocking, uses of a reset token, and
accounts for which a request committed over a commit that it had not read.

### 2.7 CaseRecords and AlertInbox

Requests load and commit as everywhere else; assigning replaces the team, and a
reference number is counted when the creation commits and may belong to
another year than the row. Identifiers are UUIDs: `Fresh` says that a new row
takes none that a pending insert holds or that the feed has mentioned. `byHand`, `straddled` and `overlaid` are history, so
that properties can say which overlaps they exclude. `AlertInbox` adds the
match task as far as it raises alerts and tells the members of a case, and the
routes of alerts and notifications. A verdict carries the user and writes the
columns that differ from the loaded alert; its name replaces an earlier one
(`Answers` says whose request puts a name where). A request begins with the read
its effect depends on: authentication, which the code does first, reads nothing
of these tables. An `UPDATE` that matches fewer rows than
the session changed makes the request fail (`Misses`).

### 2.8 CaseAssistant, EvidenceGraph, TimelineAnalysis

A chat asks (messages flushed, prompt composed from what is committed), calls
the model, and commits question and reply together. A regeneration reads, calls
the model, and compares the columns of the row it then finds. For the graph and
the detectors the variable is the input itself: `Extract`, `Record` and `Drop`
build every list up to the bound, and the invariants compare what the code's
algorithm returns with what the list says, in terms that do not use the
algorithm. Whether two titles are similar is the given relation `Alike`, which
is not transitive. `Dated` is a sort, `Gather` one round of the outer loop of
`detect_duplicates`, and `Clusters` follows the scan of `detect_clusters` from
window to window. A sum of counts is written as the number of strokes that
tally them.

### 2.9 CaseSearch, Listings, Tallies

`CaseSearch` tells items by where the query occurs in them. A hit of the index
carries no case (`HitCase`), which is why the search over all cases never shows
one. `Listings` describes each list by its order, by whether rows leave it and
whether rows share a place, and reads it as the front end does. A row may be inserted at any
place, since instants are the begin of a transaction; rows of a list that is
ordered by change or by a rank move anywhere (`Touch`), as a timeline event does
when its date is edited. `Tallies` lists
each board's statements as sets of rows to count, and what its figures mean to
one another; between any two statements another request may commit any number of rows
(`CommitRows`). A result of a search
is sorted by `StableSort` and cut into pages; figures that make up a whole are
added by counting their strokes (`Strokes`).

## 3. Runs

| run | question | shows |
|---|---|---|
| `PipelineOverlap` | two slots run one item at once, a stage fails, an ingest comes in between | committed enrichment stays consistent, COMPLETED is true, the item settles for good |
| `PipelineFaults` | two slots, every fault, two of them in one behaviour | unless a task is lost nothing ends stranded, and only a match that read before the commit misses entities |
| `PipelineMatchRace` | can the match task miss entities with two slots? | violated: section 6, finding 1 |
| `TimelineCuration` | two overlapping requests of every kind on two events | the view is kept, verdicts stand |
| `TimelineFolding` | overlapping merges, splits, removals, ingests and pipeline runs on three events | merge flags agree, tags are folded, ingest twice mirrors once, wherever no two requests wrote the same row |
| `ReportOverlap` | two generations, of some or no sections, with publish, delete, new version, export, a fault | hash fits content unless a content was not emptied, only generated and approved reports are published, generation ends |
| `VaultRequests` | three uploads of two contents, two threads, every fault once | originals kept, one live item per content, answers hold, removals logged |
| `WatchlistRuns` | three items of two cases, two slots, an entry added, edited or removed, retries, a crash, a killed child, a failed send or a repeated message | repeated and shared texts and watched addresses are reported unless a match was lost or too early (`MatchesTold`), counts agree with alerts (`HitsCounted`) |
| `AuthSessions` | one account, two overlapping requests of every kind, every expiry | tokens and links serve once, guessing stops, a lock is lifted only by who saw it |
| `CaseDesk` | two cases, a task, a note, an alert, two overlapping requests of every kind, a new year | the next number is free, flags and feed agree, nothing is read that came later, names under verdicts are not taken back by stale ones |
| `Insight` | overlapping chats and summaries; every short list of entity rows; every short list of events | exchanges, prompts and summaries are whole; graph and detectors say what the rows say |
| `Consoles` | searching, paging, counting, each next to writers | nothing closed or removed is shown over all cases, no row is missed that nothing fell behind, figures agree up to the rows changed between them |

### 3.1 Bounds

* Pipeline: one item, because runs of different items share only the queue;
  two slots are the deployed number. Each fault comes at most once and a task is
  retried at most once (`MaxRetries`; 3 and 2 in the code), which includes a
  failure of the retry (database errors come twice). `PipelineFaults` combines any two faults
  (`MostTroubles = 2`); `NeverStranded` and `AlwaysMatchedUnlessEarly` have no such bound.
  `PipelineOverlap` has a failing stage, a redelivery and an ingest, but no crash,
  killed child or database error: for these the safety properties rest on the
  theorems, and `UploadsSettle`, which has none, says nothing.
* Timeline: an interleaving needs two requests. Two events show every race of
  one pair; the folding run has a third, as a second primary, and two origins so
  that an ingest may mirror one row that is taken and one that is free.
* Reports: two rows are an original and one new version; two generations and
  one of everything else; of two configurations one has every section disabled.
* Vault: three uploads, so that a duplicate can arrive while the first of its
  content is removed; two contents tell "another item" from "the same".
  `update` and `download` touch only the custody log and are not in the budget;
  the theorems cover them.
* Watchlists: two slots, as deployed (`--concurrency=2`). Three items in two cases and `Threshold = 2` (3 in the
  code) make each order of reaching the threshold happen. `MaxRetries = 1`
  with two failures lets an item be given up. `MostCauses = 1`
  means that one of the eight kinds of request and fault comes in one
  behaviour; the theorems have neither bound.
* Accounts: requests of different users touch different rows, except those
  that address an account from outside, which are actions on that account. Two
  requests at a time make every race of a pair; five requests with
  `MaxFailed = 2` (5 in the code) are a lockout, an unlocking and another race.
* Cases: two cases so that numbers are shared; one alert with two members. Three
  requests and one turn of the year: creation, a change, and one more overlap.
* Assistant: `HistoryLimit = 3` so that a prompt cuts an exchange; two answers of
  the model. Graph: five rows over three items and four keys exceed both
  `FetchLimit = 4` and `MaxNodes = 3`. Analysis: four events on four instants
  make ties, pauses equal to the threshold and groups of all sizes.
* Consoles: `PerType = 1` makes the limits bite; four rows are two full pages and
  more. Two rows in a table and `MaxChanges = 1` make a board torn by one
  commit, of one row or of both: `MaxChanges` stops the commits once so many
  rows were changed. `TallyStep` has the rows of one commit
  equal afterwards; the theorem has neither bound.

Symmetry is used for slots, contents, threads, uploads, requests, items, keys
and for the two items of the same case, in runs without liveness properties only.
Deadlock is not checked: with finite budgets every instance comes to rest.

### 3.2 Fairness

`PipelineOverlap` assumes weak fairness of `Dispatch`, `IngestCommit` and of
each slot's `Deliver` and `Step`: the API process finishes what it has
committed, the broker delivers, and the worker's two processes run. No
strong fairness is needed, and no fault is ever required to happen. It leaves
out crashes combined with redelivery, for which the property is false (section
6). `ReportOverlap` assumes weak fairness of `Proceed`: threads of the API
continue. `GenerationEnds` is stated for behaviours without a fault, because the
code has nothing that would reset "generating" after one.

## 4. Proofs

All are for any constants that satisfy the named assumptions
`PipelineAssumption`, `NoTaskAssumption`, `VaultAssumption`, `AuthAssumption`,
`ReportAssumption`, `TimelineAssumption`, `WatchlistAssumption`,
`FiniteAssumption`, `CaseAssumption`, `RowAssumption`, `AlertAssumption`,
`AssistantAssumption`, `ListingAssumption`, `SearchAssumption`,
`GraphAssumption`, `TallyAssumption` and `AnalysisAssumption`: any
set of slots (of the pipeline a finite one), any sets of items, uploads,
threads, accounts, events, reports, cases, alerts and overlapping requests, any
limits and thresholds, any budgets. What they ask beyond typing is that
identifiers of different tables differ, that markers such as `NoRow` are no
rows, and that what the code counts (cases; texts, items and entries of a
watchlist; rows of a list or a table, items of a search, types of events) is
finite.

**Pipeline.** `TypeCorrect` proves `TypeOK` from `TypeInv`, which adds what a
slot's message is while it is busy. The safety properties speak of committed rows, and none is
inductive: what a run commits next is in its session, and depends on the stage
it has reached. `SafetyInv` adds

* `RowsForTasks`: committed uploads that are not dispatched yet have a row too;
* `FreshIds`: no two sessions or items share an extraction row;
* `PendingMirrors`: what a session is about to mirror comes from its own
  uncommitted extraction, unless a stage of that item failed before, and an
  on-demand ingest only finds something to do for such items - which is why
  overlapping runs do not collide;
* `Mirrored`: committed extraction without a failure is mirrored;
* `Progress`: by stage, what a run has in its session or has committed.

From it follow `TasksAlwaysHaveRows`, `TimelineAlwaysHasOrigin`,
`OriginAlwaysMirroredOnce` and `CompletedAlwaysEnriched`. The proof that a step
preserves it has one lemma per part, and in each one step per action that can
disturb that part.

That nothing is forgotten needs a second invariant, `WorkInv`, because the
properties only speak of items nobody works on. `NoneForgotten`: an unsettled
item has an undispatched upload, a queued message or a run that does not
remember a terminal status - a run that does may end in its handler and write
nothing, since SQLAlchemy leaves out a status that equals the remembered one.
`EntitiesTold`: entities, committed or not, have a match message, a match that has yet to
read, or one that has read some. `WorkStep` says what a step owes to both,
`OthersGoOn` that slots that stand still keep them. From it follow
`NeverStranded` and `AlwaysMatchedUnlessEarly`. TLC checked `WorkInv` on `PipelineFaults`
and `PipelineOverlap`.

**Vault.** `VaultInv` adds to the properties that the event loop has one holder
(`OneHolder`), that the duplicate check still holds when its upload inserts
(`FreeToInsert` - the crucial part: without the event loop it fails, and with
it `OneLiveRowPerContent`), that only an answered upload has a row
(`UnstoredUntilAnswered`, so discarding a duplicate's file cannot hit an
original), what an answer refers to (`AnswersFound`), and which files match
(`FilesMatch`). One lemma per action, one step per part. The theorems are `VaultTypeCorrect`,
`OriginalsAlwaysKept`, `AlwaysOneLiveRowPerContent`, `AnswersAlwaysHold` and
`TombstonesAlwaysLogged`. TLC agrees that `VaultInv` is invariant (6.8 million
states without symmetry).

**Accounts.** What a commit does to a row was decided when its request read it,
so `AuthInv` speaks of the requests on their way. `RequestsRight` gives each one
of four effects on the lock: it guesses, it clears, it locks, or it writes none
of the three columns; and whatever it does, it unsets `locked` only if the row
it read was locked (`LiftsKnowingly`), because only changed columns are
written. `ReadsCurrent` says that, on an account without an overtaken commit, the row a
request read is still the row but for a lock that has expired. `GuessesCounted`
adds to `GuessesLimited` that, while no lock is running, either nothing has been
guessed since the last one or the guesses are at most the row's counter and that
is below the limit: with it, a guess that is let in cannot pass the limit. One lemma per request says which effect it
has, `CountedStep` what each effect does to the count, and one lemma per part
what a commit preserves. `SpentInv` does the same for tokens: what a request takes
or issues belongs to its account, a new password or a closing comes with the
revocation of everything, an issuer has found the account open (`Asks`), and
unless it was overtaken what it read is still so (`Current`). The theorems are
`TypeCorrect`, `GuessesAlwaysLimited`, `LocksAlwaysStand` and `TokensAlwaysSpent`;
`LocksAlwaysStand` has no exception for overlapping requests.

**Reports.** Content, hash and approval are written by requests that loaded the
row long before, so `ReportInv` says of the rows what `HashMatchesContent` and
`PublishedIsComplete` say (`RowsRight`), and of each request two things
(`JobsRight`): its changed copy is a legitimate step from the loaded one
(`Change`: a hash goes with its content, a hash and an approval are never taken
away, a status is only given to a copy that deserves it), and what the loaded
copy had, the row still has (`Kept`). `PatchMatched` is the core: writing the
columns in which the copies differ gives a row whose hash fits, because a generation
changes content and hash together or neither; the exception is the empty content over
an empty one, and then the row is excluded exactly if it has another content by
then (`BlankUpdate`, `blanked`). `PatchRight` says that a published row stays a
generated and approved one. The theorems are `TypeCorrect`, `HashAlwaysMatches`
and `PublishedAlwaysComplete`. `ReportAssumption` says only that no section at all
differs from what any collector returns.

**Timeline.** `TimelineInv` says of each request which columns it may write and
to what, whatever the row is by then (`IsRequest`), and what its commit would
make of rows that nobody else has claimed (`JobRight`): flags that agree, all tags
folded, no second mirror. A commit by another request keeps this or makes the
row contested. `TimelineImplementsView` is the refinement: every commit of the
code's kind is a step of `TimelineView` or a stutter. It needs
of the invariant which columns an operation may write (`IsRequest`) and that new
rows are visible and lie under new ids. `VerdictsAlwaysStand` follows from `IsRequest`,
`TagsAlwaysFold`, `FlagsAlwaysAgree` and `MirrorsAlwaysOne` from `JobRight`.

**Watchlists.** What is repeated, shared or watched for is told only when
nothing waits. `MatchInv` says it at every moment: it is told or
*on its way* (`OnItsWay`): a message about the item waits, or a match holds the
finding. `ExtractionsRight` is why this starts: the message is sent before
the entities are committed, so it still waits when they are, unless the item is
in `missed`. Each step that takes a message away puts it into a slot, ends with
nothing found, or puts its item into `missed`; a crash finds in `held` which
messages come back. `CountsRight` adds to `HitsCounted` that run numbers are new, so
that a match adds as many alerts to an entry as it adds to its count, and that the
alerts are finitely many. The theorems are `TypeCorrect`, `HitsAlwaysCounted` and
`MatchesAlwaysTold`.

**Case desk.** `DeskInv` speaks of the tables of both modules and of every
request and call still to commit.
`NumbersRight` is stronger than "the next number is free": outside a
straddled year every number of a year is at most the number of its cases, and a
number still to be inserted is at most one more; with uniqueness the count is exact.
`FlagsRight` says that requests write both archive columns or neither
(`FlagsMove`); `CompletionsRight` that a task's first completion is to be logged
only by a request that read the task as it is (`CompletionMoves`).
`InboxInv` says that a marking only holds notifications born before it began,
and that no two matches raise the same alert (`RaisesAlone`). That identifiers
are never used again (`Fresh`) was missing from the model until the proof asked
for it: with a re-used id, a second task inherits the first one's feed. The theorems
are `TypeCorrect`, `NumbersAlwaysFree`, `FlagsAlwaysAgree`,
`AlwaysReadKnowingly` and the action property `StampsAlwaysStay`. The latter rests
on `OwnName`: a name that a verdict is about to write is its own user's, under its
own kind of verdict, and what equals the loaded name is not written at all.

**Assistant.** `AssistantInv` says that every message bears the instant of its
chat and has its counterpart (`MessagesRight`), and that no two requests share an
instant nor has one on its way said anything (`InstantsDiffer`), so an
exchange fills its instant and nothing can stand inside it. What a prompt owes
(`PromptRight`) is settled when it is written: `OrdersList` shows that an order
lists every message by time - that a sequence which never falls from one place
to the next never falls at all (`NeverFalls`) is an induction, made with the
least element of a set (`Least`) - and `PromptIsEnd` that its last
`HistoryLimit` messages leave out nothing newer. `SaveKeeps` is why an update
of the changed columns alone gives the whole answer when nobody came between.
The theorem is `AssistantAlwaysCoherent`.

**Pages.** A page is cut by offset out of a list that has moved since the last
one. `ListInv` says of each steady row - listed from the start, alone in its place
- that it was shown or that more rows are ahead of it, itself counted, than the pages read
so far hold (`NoneMissed`). A row that is added or moves only takes from those ahead
of a steady row if it moves behind it, and then that row is no longer steady
(`WriterKeeps`), a page takes exactly those whose number of rows ahead lies
within it (`SteadyInFirst`), and as many pages as were told hold every row
(`PagesHold`, with the rounding of the division). The theorem is `PagesNeverMiss`.
The proof needs every hypothesis of the property: a row that drops
out or falls behind moves those that were behind it up, onto pages already read. TLC finds
the property violated without either exclusion.

**Search.** `SearchesAgree` needs no invariant: the operators keep its parts
whatever the index holds. `OnlyOpenCases` and `WordsFound` follow from what each
query returns. `ResultsComplete` needs three facts about the code's way of
putting a result together: a stable sort lists every entry once and by its key
(`PlacesDiffer`, `SortArranges`), lists of lists put together hold what the
lists hold (`FlattensTo`, `AllListed`), and as many pages as the result tells
reach its end and cut nothing twice (`PagesReach`, `PagesAreWhole`).

**Graph.** `GraphsSayWhatRowsSay` needs of the rows only that they are rows.
`NextRowBrings` says that the next row brings at most one new node, so the number of nodes
climbs one by one to the limit and the rows seen are the first ones up to the
row that reaches it (`ReachesLimit`, `SeenAre`): hence as many nodes as are
allowed, and no row left out that is surer than one taken (`NodesRankFirst`).
`WeightsCount` maps the pairs of places the code counts to the items that mention both
nodes, one to one, because an item's repeated mentions are dropped.

**Figures.** `TallyInv` says that there are sets of rows, one for each figure
(`Explains`): of a figure already asked for, the rows it counted; of one still to
come, the rows it would count now; and that the parts of a whole differ from it
by no more rows than were changed. A statement moves its figures from
the second kind to the first and changes no set (`StatementKeeps`); of the rows a
commit changes each is in at most one part (`Apart`), so it moves both
sides by at most as many as it changes (`RowsAdd`, `CommitMovesRows`). That the boards are such that this
works - parts apart, each covered by the whole, the whole asked for in one
statement (`Consistent`) - is one lemma for each of the eighteen boards, from the
conditions of its queries. The theorem is `FiguresAlwaysAgree`.

**Analysis.** `DetectorsAlwaysFind` needs as invariant that no event is listed
twice (`EventsInv`). `DatedIs` makes of the sort a list of distinct events by
time, and the rest is about that list. A silence ends at the first event that is not
before its end (`GapsAre`). What the rounds of `detect_duplicates` and the scan of
`detect_clusters` have found so far is characterised by `GatheredRight` and
`ScannedRight`: each group lies around its leader, each cluster is a window,
none of them meet, one of two twins is taken, and the start of every full window
is covered - if not as a start itself, then by the cluster that the scan jumped
over it with. `AllBursts` concludes for any set of events that are near one another, and
`AllDuplicates` that no group holds a conflict, because its window is shorter than
the distance of a conflict.

These algorithms are loops, and induction over data with an operator as
parameter is out of the prover's reach. The proofs therefore take the least
number at which a statement about the loop would fail (`Least`), also to show
that the recursive functions `gathered` and `scan` exist (`GatheringRuns`,
`ScanRuns`).

Only model-checked: liveness (`UploadsSettle`, `GenerationEnds`), which needs
fairness and ENABLED. Every other property of the passing runs is proved.

## 5. Where a property is conditional

* `OriginMirroredOnce` and `CompletedIsEnriched` exclude items for which a stage
  failure was logged: after one, a later run may catch up at the same time as an
  on-demand ingest.
* `NoneStranded`, `EveryEvidenceMatched` and `MatchedUnlessEarly` except items
  whose task was lost: the send failed, the retries were used up, the child was
  killed, or the container died under a run whose message had been delivered
  again. All four really end the task. `MatchedUnlessEarly` also excepts the race
  of finding 1.
* `OriginalsKept` supposes that nobody changes files behind the program's back.
* `OneMirrorPerOrigin`, `MergeFlagsAgree` and `MergeFoldsTags` exclude rows that two
  requests were writing at once (`contested`): section 6 says what then happens.
* `HitsCounted` excludes entries whose count one match wrote over another's
  (`overlaid`), `MatchesTold` items whose match came before their entities, was given up,
  could not be sent, or was lost with a killed child (`missed`). All four really can
  leave the item without an alert.
* `HashMatchesContent` excludes reports in which a generation with every section
  disabled did not empty the content of another (`blanked`): section 6.
* `StampsStay` lets a later verdict replace the name of an earlier one, as the
  code does; it speaks of names, not of times.
* `EmailTold`, a part of `MatchesTold`, supposes that the entry was there before
  the item.
* `TokensSpent` and `GuessesLimited` speak of accounts whose requests have not
  overlapped; `LockStands` of all.
* `NextNumberFree` excludes creations that were on their way at the turn of the
  year, `CaseFlagsAgree` cases whose status was set to or from ARCHIVED by an
  update, and tasks with overlapping updates.
* `SummaryWhole`, a part of `AssistantCoherent`, excludes overlapping
  regenerations from "one answer" (its columns still each come from an answer).
* `GraphFaithful` compares a node's evidence with its edges only while the graph
  is not full.
* `PagesMissNothing` speaks of rows that stayed where they were, alone in their
  place, behind no row that dropped out or fell behind them, when no commit fell between
  the last count and its page. It holds in spite of what is added, of what
  moves forward, and of what drops out or moves further back.
* `AnswersAddUp` allows a difference of as many rows as were changed while the board was read.

## 6. What the runs and the modelling found

1. **Match before commit** (`PipelineMatchRace`,
   `services/processing_pipeline.py:171`). The match message is sent between
   flush and commit. The other slot may match before the entities are visible,
   and nothing matches them again.

The next five are in the models as the code has them; no run is kept for them.

2. **A failed flush blocks the rest** (`services/processing_pipeline.py:201`).
   The timeline and summary stages catch the error without
   `session.rollback()`; the next commit raises, the handler's own commit too,
   and the run is abandoned, although the README of the repository says that a
   failure in a stage never blocks the rest.
3. **Merge flags disagree** (`services/timeline.py:237`). A merge of an event
   that is already folded elsewhere writes only `merged_into_id`; a split of the
   old primary in between clears `is_merged`.
4. **Published reports change** (`services/report_service.py:246`). Generation
   accepts any status, while the model's docstring promises a new row.
5. **IMEI patterns never match** (`services/watchlist_matching.py:138`). An
   empty list of entity types skips every entity; the comment says "matched via
   regex only". Passport and MAC address lists are the same.
6. **The index adds nothing to the search** (`services/search_service.py:503`).
   Its hits carry no case, so the merge that the comment announces drops them
   all.

Other behaviour met while modelling, true of the code and kept in the models
where they are concerned, though no text says what should happen:

* A redelivered or retried run extracts everything again: entities, keywords
  and extraction events twice, each mirrored under its own id.
* With redelivery and a crash together, an overlapping run that set a COMPLETED
  row back to a middle status can die and leave it there once the other run
  acknowledged the message. After the last retry the row keeps its middle
  status; `except MaxRetriesExceededError` in `worker/tasks/evidence.py` is never reached, as
  `retry(exc=exc)` raises the original error.
* An upload while the broker is down stays at OCR_QUEUE, and so does an item
  whose worker child was killed. Uploading the file again finds the duplicate
  and sends nothing; there is no route that re-runs processing.
* The pipeline never looks at `deleted_at`. `delete_evidence` of the search
  index and `record_evidence_event` of the timeline are never called.
* Two overlapping ingests mirror one extraction row twice; two merges in opposite directions
  hide both events; removing a primary leaves its children hidden; overlapping
  merges lose tags.
* Two overlapping generations may store one's configuration with the other's
  content. If every section is disabled in the first generation of a report and
  another stores its content meanwhile, the report keeps that content under
  the hash of none (`services/report_service.py:262`): `{}` is what the session had
  loaded, and SQLAlchemy writes only what changed.
* A second acknowledgement or resolution of an alert replaces the name of the
  first. Times are written always and names only when they differ, so that of overlapping
  verdicts the time of one user may stand beside the name of another.
* Starring leaves no custody entry. Two removals at the same time are both
  logged. Files of failed uploads other than over-sized ones stay.
* With two slots, two matches overwrite each other's hit count. A repeated
  match raises its alerts again. A telephone entry with spaces never equals the
  normalised number.
* Two overlapping refreshes of one token both succeed; a refresh next to a
  password change survives it; a login that computes the hash again may write
  the old password back; overlapping wrong passwords are counted once.
  "Revoke all other sessions" closes the own one too, no request ever looks at
  the session rows, and unlocking through `/users` also enables the account.
* Two overlapping creations of cases take one number, and the second fails;
  those that straddle a new year may take a number that is used.
* Question and reply share one `created_at`. A reply may name files that were not
  in its prompt. Overlapping regenerations mix the columns of two summaries.
* `evidence_count` of a full graph is too low. A rerun's duplicate entity rows
  take places among the rows fetched.
* Within a case, hits of the index include removed evidence; summaries, entities
  and events of removed evidence are found over all cases.
* Paging an unread list while reading it skips rows, and so does a removal, or the
  edit of an event's date that moves it behind others.
  Figures of one board may disagree by all the rows committed while it was read;
  "inactive users" may be negative.
* The administration looks for the Celery app in a package that does not exist
  and therefore always finds it down.

## 7. Not modelled

| part | why |
|---|---|
| users, roles, permissions | CRUD behind permission checks; what concerns sign-in is in `AuthSessions` |
| configuration, invitations, health, recommendations | a key-value store nothing reads, probes, thresholds on counts |
| extraction, OCR, what the AI model answers | parsers and external services; the pipeline and `CaseAssistant` take their outcome as a choice |
| report, PDF and timeline export, comments | layout, or rows nothing depends on |
| averages, charts and recent items of dashboards, filters of lists, snippets and suggestions | each one value of one statement, with no relation to another that could break |
| middleware, rate limit, migrations, infrastructure, front end | no shared domain state |

## 8. Plan

Done, in this order: `EvidencePipeline` and its proofs, `CanonicalTimeline` with
`TimelineView`, `InvestigationReports`, `EvidenceVault` and its proofs,
`WatchlistMatching`, `AuthSessions`, `CaseRecords` with `AlertInbox`,
`CaseAssistant`, `EvidenceGraph`, `TimelineAnalysis`, `CaseSearch`, `Listings`,
`Tallies`, and the proofs about `AuthSessions`, `InvestigationReports`,
`CanonicalTimeline` with its refinement, `WatchlistMatching`, `CaseRecords`
with `AlertInbox`, `CaseAssistant`, `Listings`, `CaseSearch`, `EvidenceGraph`,
`Tallies` and `TimelineAnalysis`.

Worth doing when the code changes there: liveness of the vault and of the
matching, an abstract specification of the case desk, and the parts of section 7
that gain state.

## 9. Running

`tlc -workers 2 -config PipelineOverlap.cfg MCEvidencePipeline` and likewise
for the other runs; `tlapm EvidencePipelineProofs.tla` and likewise for the
other proof modules. The largest runs explore about 1.4 million states and take
about two minutes; the proofs take about twenty minutes together, `ReadingProofs` eight
of them.
