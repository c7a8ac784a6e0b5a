------------------------- MODULE CanonicalTimeline -------------------------
(***************************************************************************)
(* The curated timeline of one case: TimelineService and the               *)
(* timeline_events table.  The routes are plain functions, so FastAPI runs *)
(* requests in parallel threads, each in a READ COMMITTED transaction of   *)
(* its own: a request first reads the rows it works on, and later commits  *)
(* the columns it changed.  Other requests may commit in between.          *)
(***************************************************************************)
EXTENDS Naturals, FiniteSets, Functions

CONSTANTS
    Ids,        \* primary keys of canonical events
    Origins,    \* extraction rows (EvidenceTimelineEvent) of the case
    Tags,       \* tags an investigator may set
    Verdicts,   \* verification statuses
    Requests,   \* requests in flight at a time
    Allowed,    \* how often each operation may be requested
    NoId, NoOrigin

Operations == {"create", "update", "delete", "pin", "verify", "merge", "split", "ingest"}

ASSUME TimelineAssumption ==
    /\ {"unverified", "verified"} \subseteq Verdicts
    /\ NoId \notin Ids
    /\ NoOrigin \notin Origins
    /\ Allowed \in [Operations -> Nat]

VARIABLES
    event,     \* committed rows, by id
    raw,       \* committed extraction rows
    req,       \* per request: the operation and what it will write
    left,      \* requests still to come, by operation
    contested  \* events and extraction rows that were written while another
               \* request was going to write them, too

vars == <<event, raw, req, left, contested>>

Row == [origin : Origins \cup {NoOrigin}, deleted : BOOLEAN, merged : BOOLEAN,
        into : Ids \cup {NoId}, tags : SUBSET Tags, verdict : Verdicts, pinned : BOOLEAN]

Columns == {"origin", "deleted", "merged", "into", "tags", "verdict", "pinned"}

NoChange == [i \in {} |-> {}]
Idle == [op |-> "none", target |-> NoId, changes |-> NoChange, inserts |-> NoChange]

Known == DOMAIN event
Reserved == UNION {DOMAIN req[r].inserts : r \in Requests}
Unused == Ids \ (Known \cup Reserved)

(* The extraction rows that new rows mirror. *)
OriginsOf(rows) == {rows[i].origin : i \in DOMAIN rows} \ {NoOrigin}

(* The events and the extraction rows that requests are going to write.    *)
Claims(requests) == UNION {DOMAIN req[r].changes \cup OriginsOf(req[r].inserts) : r \in requests}

Blank(origin, verdict, tags) ==
    [origin |-> origin, deleted |-> FALSE, merged |-> FALSE, into |-> NoId,
     tags |-> tags, verdict |-> verdict, pinned |-> FALSE]

(* Type invariant. *)
TypeOK ==
    /\ Known \subseteq Ids
    /\ \A i \in Known : event[i] \in Row
    /\ raw \subseteq Origins
    /\ \A r \in Requests :
          /\ req[r].op \in Operations \cup {"none"}
          /\ req[r].target \in Ids \cup {NoId}
          /\ DOMAIN req[r].changes \subseteq Known
          /\ \A i \in DOMAIN req[r].changes : DOMAIN req[r].changes[i] \subseteq Columns
          /\ DOMAIN req[r].inserts \subseteq Ids
          /\ \A i \in DOMAIN req[r].inserts : req[r].inserts[i] \in Row
    /\ left \in [Operations -> Nat]
    /\ contested \subseteq Ids \cup Origins

Init ==
    /\ event = NoChange
    /\ raw = {}
    /\ req = [r \in Requests |-> Idle]
    /\ left = Allowed
    /\ contested = {}

-----------------------------------------------------------------------------

(* Slip: every column is written back, changed or not. *)
ChangedWholeRow(old, new) == new

(* The columns a flush puts into UPDATE ... SET: those whose value differs *)
(* from the one the session loaded.                                        *)
Changed(old, new) == [c \in {d \in Columns : old[d] # new[d]} |-> new[c]]

(* The row after UPDATE ... SET of these columns. *)
Patched(row, columns) ==
    [c \in Columns |-> IF c \in DOMAIN columns THEN columns[c] ELSE row[c]]

(* TimelineEventRepository.get_for_case: merged events are found, deleted  *)
(* ones are not.                                                           *)
Live(i) == i \in Known /\ ~event[i].deleted

(* A request for op on target reads, and holds rows it will write: the new *)
(* values of existing rows, and new rows.                                  *)
Begin(r, op, target, updates, inserts) ==
    /\ req[r] = Idle
    /\ left[op] > 0
    /\ left' = [left EXCEPT ![op] = @ - 1]
    /\ req' = [req EXCEPT ![r] =
                  [op |-> op, target |-> target,
                   changes |-> [i \in DOMAIN updates |-> Changed(event[i], updates[i])],
                   inserts |-> inserts]]
    /\ UNCHANGED <<event, raw, contested>>

(* A request that ends in NotFoundError or ValidationError changes nothing *)
(* and is not modelled as a step.                                          *)

CreateEvent(r) ==
    \E i \in Unused, tags \in SUBSET Tags :
        Begin(r, "create", i, NoChange, [x \in {i} |-> Blank(NoOrigin, "verified", tags)])

UpdateEvent(r, i) ==
    /\ Live(i)
    /\ \E tags \in SUBSET Tags :
          Begin(r, "update", i, [x \in {i} |-> [event[i] EXCEPT !.tags = tags]], NoChange)

DeleteEvent(r, i) ==
    /\ Live(i)
    /\ Begin(r, "delete", i, [x \in {i} |-> [event[i] EXCEPT !.deleted = TRUE]], NoChange)

(* set_pinned and set_bookmarked. *)
SetPinned(r, i) ==
    /\ Live(i)
    /\ \E pinned \in BOOLEAN :
          Begin(r, "pin", i, [x \in {i} |-> [event[i] EXCEPT !.pinned = pinned]], NoChange)

SetVerification(r, i) ==
    /\ Live(i)
    /\ \E verdict \in Verdicts :
          Begin(r, "verify", i, [x \in {i} |-> [event[i] EXCEPT !.verdict = verdict]], NoChange)

(* The events of merge_ids that are merged: live ones, not the primary.    *)
Children(primary, ids) == {i \in ids \ {primary} : Live(i)}

(* Slip: the pointer to the primary lands in the flag's column. *)
FoldedSwapped(row, primary) == [row EXCEPT !.merged = primary, !.into = primary]

(* Slip: only the flag is set, the pointer to the primary is forgotten. *)
FoldedFlagOnly(row, primary) == [row EXCEPT !.merged = TRUE]

Folded(row, primary) == [row EXCEPT !.merged = TRUE, !.into = primary]

(* Slip: the children's tags replace the primary's. *)
TagsReplaced(primary, children) == UNION {event[c].tags : c \in children}

TagsWith(primary, children) ==
    event[primary].tags \cup UNION {event[c].tags : c \in children}

(* The children point at the primary, which takes over their tags.         *)
MergeEvents(r, primary, ids) ==
    LET children == Children(primary, ids)
        merged(i) == IF i \in children THEN Folded(event[i], primary) ELSE event[i]
    IN  /\ Live(primary)
        /\ children # {}
        /\ Begin(r, "merge", primary,
                 [i \in children \cup {primary} |->
                     IF i = primary
                     THEN [merged(i) EXCEPT !.tags = TagsWith(primary, children)]
                     ELSE merged(i)],
                 NoChange)

(* split_event does not look the event itself up. *)
SplitEvent(r, i) ==
    LET children == {c \in Known : ~event[c].deleted /\ event[c].into = i} IN
    Begin(r, "split", i,
          [c \in children |-> [event[c] EXCEPT !.merged = FALSE, !.into = NoId]], NoChange)

(* Slip: mirrors that were removed since no longer count as existing. *)
UnmirroredLive == {o \in raw : \A i \in Known : Live(i) => event[i].origin # o}

(* Extraction rows without a canonical event, removed or not               *)
(* (existing_origin_ids).                                                  *)
Unmirrored == {o \in raw : \A i \in Known : event[i].origin # o}

(* The ways to add one new event for each of these rows. *)
Mirrors(rows) ==
    UNION {{[i \in ids |-> Blank(origin[i], "unverified", {})] : origin \in Bijection(ids, rows)} :
              ids \in SUBSET Unused}

(* POST /timeline/ingest. *)
Ingest(r) == \E new \in Mirrors(Unmirrored) : Begin(r, "ingest", NoId, NoChange, new)

(* The transaction commits. *)
Commit(r) ==
    LET changes == req[r].changes
        inserts == req[r].inserts
    IN  /\ req[r] # Idle
        /\ event' = [i \in Known \cup DOMAIN inserts |->
                        IF i \in DOMAIN inserts THEN inserts[i]
                        ELSE IF i \in DOMAIN changes THEN Patched(event[i], changes[i])
                        ELSE event[i]]
        /\ req' = [req EXCEPT ![r] = Idle]
        /\ contested' = contested \cup (Claims({r}) \cap Claims(Requests \ {r}))
        /\ UNCHANGED <<raw, left>>

(* The request fails or its process dies before the commit. *)
Rollback(r) ==
    /\ req[r] # Idle
    /\ req' = [req EXCEPT ![r] = Idle]
    /\ UNCHANGED <<event, raw, left, contested>>

(* A pipeline run commits an extraction row and, unless the mirroring      *)
(* failed, mirrors it and the unmirrored rows its evidence already had     *)
(* (EvidencePipeline models the run itself).                               *)
Extract(o) ==
    /\ o \notin raw
    /\ raw' = raw \cup {o}
    /\ \/ UNCHANGED <<event, contested>>
       \/ \E earlier \in SUBSET Unmirrored : \E new \in Mirrors(earlier \cup {o}) :
             /\ event' = [i \in Known \cup DOMAIN new |->
                            IF i \in DOMAIN new THEN new[i] ELSE event[i]]
             /\ contested' = contested \cup (OriginsOf(new) \cap Claims(Requests))
    /\ UNCHANGED <<req, left>>

Curate(r) ==
    \/ CreateEvent(r)
    \/ \E i \in Ids : UpdateEvent(r, i) \/ DeleteEvent(r, i) \/ SetPinned(r, i)
    \/ \E i \in Ids : SetVerification(r, i) \/ SplitEvent(r, i)
    \/ \E i \in Ids, ids \in SUBSET Ids : MergeEvents(r, i, ids)
    \/ Ingest(r)

Next ==
    \/ \E r \in Requests : Curate(r) \/ Commit(r) \/ Rollback(r)
    \/ \E o \in Origins : Extract(o)

Spec == Init /\ [][Next]_vars

-----------------------------------------------------------------------------

(* The default view: list_for_case hides deleted and merged events. *)
Visible(i) == Live(i) /\ ~event[i].merged

View == [i \in Ids |-> IF i \notin Known THEN "none"
                       ELSE IF event[i].deleted THEN "deleted"
                       ELSE IF event[i].merged THEN "hidden" ELSE "visible"]

Abstract == INSTANCE TimelineView WITH view <- View

(* Whatever requests overlap, the timeline behaves as TimelineView says:   *)
(* in particular no merge, split or edit that raced with a removal brings  *)
(* the removed event back.                                                 *)
ImplementsView == Abstract!Spec

(* An investigator's verdict on an event only changes by a verification    *)
(* request for that event: merging, splitting and editing keep it, even    *)
(* when they read the event before the verdict was given.                  *)
VerdictsStand ==
    [][\A i \in Known : event'[i].verdict # event[i].verdict =>
          \E r \in Requests : req[r].op = "verify" /\ req[r].target = i /\ req'[r] = Idle]_vars

(* One canonical event per extracted event, removed ones included, so that *)
(* ingesting again neither duplicates nor resurrects an event: unless two  *)
(* ingests, or an ingest and a pipeline run, mirrored a row at once.       *)
OneMirrorPerOrigin ==
    \A i, j \in Known :
        /\ event[i].origin = event[j].origin
        /\ event[i].origin \notin contested \cup {NoOrigin}
        => i = j

(* The flag that hides an event and the pointer to its primary agree, of   *)
(* every event that no two requests were writing at once.                  *)
MergeFlagsAgree == \A i \in Known \ contested : event[i].merged <=> event[i].into # NoId

(* A merge folds: when it commits, the primary keeps the tags it had and   *)
(* gains those of the events that went into it, however many requests have *)
(* come and gone on other events since the merge read them.                *)
MergeFoldsTags ==
    [][\A r \in Requests :
          req[r].op = "merge" /\ event' # event /\ req'[r] = Idle =>
              \A i \in DOMAIN req[r].changes :
                  {i, req[r].target} \cap contested = {} =>
                      event[i].tags \subseteq event'[req[r].target].tags]_vars
=============================================================================
