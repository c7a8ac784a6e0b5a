----------------------- MODULE CanonicalTimelineProofs -----------------------
(* The curated timeline under any number of overlapping requests: it       *)
(* behaves as TimelineView promises, verdicts stand, and merge flags, tags *)
(* and mirrors are right wherever requests have not met on one row.        *)
EXTENDS CanonicalTimeline, TLAPS

(***************************************************************************)
(* The inductive invariant.  A commit patches rows with columns computed   *)
(* earlier, so it says of every request on its way which columns it may    *)
(* write and to what (IsRequest), and what its patch makes of the row as   *)
(* the row is now (JobRight), where nobody else has claimed the row.       *)
(***************************************************************************)

(* The columns an operation may write. *)
Writes(op) ==
    CASE op = "update" -> {"tags"}
      [] op = "delete" -> {"deleted"}
      [] op = "pin" -> {"pinned"}
      [] op = "verify" -> {"verdict"}
      [] op = "merge" -> {"merged", "into", "tags"}
      [] op = "split" -> {"merged", "into"}
      [] OTHER -> {}

(* A row stays one whatever it was when the columns are written. *)
Retypes(columns) == \A row \in Row : Patched(row, columns) \in Row

IsChange(op, target, i, columns) ==
    /\ DOMAIN columns \subseteq Writes(op)
    /\ Retypes(columns)
    /\ op \in {"delete", "verify"} => i = target
    /\ "deleted" \in DOMAIN columns => columns["deleted"] = TRUE
    /\ "merged" \in DOMAIN columns => columns["merged"] = (op = "merge")

New(row) == row \in Row /\ row["deleted"] = FALSE /\ row["merged"] = FALSE /\ row["into"] = NoId

Gone(row) == row["deleted"] = TRUE

Flags(row) == row["merged"] <=> row["into"] # NoId

Distinct(rows) ==
    \A i, k \in DOMAIN rows :
       rows[i]["origin"] = rows[k]["origin"] /\ rows[i]["origin"] # NoOrigin => i = k

IsRequest(j) ==
    /\ j["op"] \in Operations \cup {"none"}
    /\ j["target"] \in Ids \cup {NoId}
    /\ DOMAIN j["inserts"] \subseteq Ids
    /\ \A i \in DOMAIN j["inserts"] : New(j["inserts"][i])
    /\ Distinct(j["inserts"])
    /\ \A i \in DOMAIN j["changes"] : IsChange(j["op"], j["target"], i, j["changes"][i])
    /\ j["op"] \notin {"create", "ingest"} => DOMAIN j["inserts"] = {}
    /\ j["op"] \in {"create", "ingest", "none"} => DOMAIN j["changes"] = {}

(* What committing the request now would do to rows nobody else claimed:   *)
(* it mirrors nothing that is mirrored, leaves flags that agree, and folds *)
(* all tags. *)
JobRight(j, rows, extracted, claimed) ==
    /\ DOMAIN j["changes"] \subseteq DOMAIN rows
    /\ DOMAIN j["inserts"] \cap DOMAIN rows = {}
    /\ \A i \in DOMAIN j["inserts"] :
          LET origin == j["inserts"][i]["origin"] IN
          /\ origin \in extracted \cup {NoOrigin}
          /\ origin \notin claimed \cup {NoOrigin} =>
                \A k \in DOMAIN rows : rows[k]["origin"] # origin
    /\ \A i \in DOMAIN j["changes"] \ claimed : Flags(Patched(rows[i], j["changes"][i]))
    /\ j["op"] = "merge" =>
          /\ j["target"] \in DOMAIN j["changes"]
          /\ \A i \in DOMAIN j["changes"] :
                i \notin claimed /\ j["target"] \notin claimed =>
                    rows[i]["tags"] \subseteq
                        Patched(rows[j["target"]], j["changes"][j["target"]])["tags"]

RowsRight(rows, extracted, claimed) ==
    /\ \A i \in DOMAIN rows : rows[i]["origin"] \in extracted \cup {NoOrigin}
    /\ \A i \in DOMAIN rows \ claimed : Flags(rows[i])
    /\ \A i, k \in DOMAIN rows :
          /\ rows[i]["origin"] = rows[k]["origin"]
          /\ rows[i]["origin"] \notin claimed \cup {NoOrigin}
          => i = k

(* No two requests insert under one id. *)
Apart ==
    \A r, s \in Requests : r # s => DOMAIN req[r]["inserts"] \cap DOMAIN req[s]["inserts"] = {}

Tables ==
    /\ Known \subseteq Ids
    /\ \A i \in Known : event[i] \in Row
    /\ raw \subseteq Origins
    /\ contested \subseteq Ids \cup Origins
    /\ left \in [Operations -> Nat]
    /\ DOMAIN req = Requests

TimelineInv ==
    /\ Tables
    /\ RowsRight(event, raw, contested)
    /\ \A r \in Requests : IsRequest(req[r]) /\ JobRight(req[r], event, raw, contested)
    /\ Apart

-----------------------------------------------------------------------------
(* Rows and patches. *)

LEMMA RowIs ==
    ASSUME NEW row \in Row
    PROVE  /\ DOMAIN row = Columns
           /\ row = [c \in Columns |-> row[c]]
           /\ row["merged"] \in BOOLEAN /\ row["deleted"] \in BOOLEAN
           /\ row["tags"] \subseteq Tags
           /\ row["origin"] \in Origins \cup {NoOrigin} /\ row["into"] \in Ids \cup {NoId}
  BY DEF Row, Columns

(* A patch of the changed columns makes the wanted row of the loaded one, *)
(* and a row of any row. *)
LEMMA ChangedIs ==
    ASSUME NEW old \in Row, NEW new \in Row, NEW columns, columns = Changed(old, new)
    PROVE  /\ \A c \in DOMAIN columns : c \in Columns /\ old[c] # new[c] /\ columns[c] = new[c]
           /\ Patched(old, columns) = new
           /\ Retypes(columns)
  <1>1. /\ \A c \in Columns : c \in DOMAIN columns <=> old[c] # new[c]
        /\ \A c \in DOMAIN columns : c \in Columns /\ columns[c] = new[c]
    BY DEF Changed
  <1>2. Patched(old, columns) = new
    <2>1. \A c \in Columns : (IF c \in DOMAIN columns THEN columns[c] ELSE old[c]) = new[c]
      BY <1>1
    <2>2. Patched(old, columns) = [c \in Columns |-> new[c]]
      BY <2>1 DEF Patched
    <2> QED
      BY <2>2, RowIs
  <1>3. ASSUME NEW row \in Row
        PROVE  Patched(row, columns) \in Row
    <2> DEFINE p == Patched(row, columns)
    <2>1. p = [c \in Columns |-> p[c]] /\ \A c \in Columns : p[c] \in {new[c], row[c]}
      BY <1>1 DEF Patched
    <2> HIDE DEF p
    <2>2. p \in Row
      BY <2>1 DEF Row, Columns
    <2> QED
      BY <2>2 DEF p
  <1> QED
    BY <1>1, <1>2, <1>3 DEF Retypes

LEMMA PatchedIs ==
    ASSUME NEW row, NEW columns
    PROVE  \A c \in Columns :
              Patched(row, columns)[c] = IF c \in DOMAIN columns THEN columns[c] ELSE row[c]
  BY DEF Patched

LEMMA BlankIs ==
    ASSUME NEW origin \in Origins \cup {NoOrigin}, NEW verdict \in Verdicts,
           NEW tags \in SUBSET Tags
    PROVE  New(Blank(origin, verdict, tags)) /\ Blank(origin, verdict, tags)["origin"] = origin
  BY DEF New, Blank, Row

-----------------------------------------------------------------------------
(* Requests read, and roll back. *)

LEMMA IdleIs ==
    IsRequest(Idle) /\ DOMAIN Idle["inserts"] = {} /\ DOMAIN Idle["changes"] = {}
  BY DEF IsRequest, Idle, NoChange, Distinct, Operations

LEMMA IdleRight ==
    ASSUME NEW rows, NEW extracted, NEW claimed
    PROVE  JobRight(Idle, rows, extracted, claimed)
  BY IdleIs DEF JobRight, Idle

(* A request replaced by another one. *)
LEMMA Replaced ==
    ASSUME TimelineInv, NEW r \in Requests, NEW j,
           IsRequest(j), JobRight(j, event, raw, contested),
           DOMAIN j["inserts"] \cap Reserved = {},
           req' = [req EXCEPT ![r] = j],
           left' \in [Operations -> Nat],
           UNCHANGED <<event, raw, contested>>
    PROVE  TimelineInv'
  <1>1. /\ DOMAIN req' = Requests /\ req'[r] = j
        /\ \A s \in Requests \ {r} : req'[s] = req[s]
    BY DEF TimelineInv, Tables
  <1>2. Tables'
    BY <1>1 DEF TimelineInv, Tables, Known
  <1>3. RowsRight(event', raw', contested')
    BY DEF TimelineInv
  <1>4. \A s \in Requests : IsRequest(req'[s]) /\ JobRight(req'[s], event', raw', contested')
    BY <1>1 DEF TimelineInv
  <1>5. ASSUME NEW s \in Requests, NEW t \in Requests, s # t
        PROVE  DOMAIN req'[s]["inserts"] \cap DOMAIN req'[t]["inserts"] = {}
    <2>1. \A u \in Requests : DOMAIN req[u]["inserts"] \cap DOMAIN j["inserts"] = {}
      BY DEF Reserved
    <2>2. DOMAIN req[s]["inserts"] \cap DOMAIN req[t]["inserts"] = {}
      BY <1>5 DEF TimelineInv, Apart
    <2> QED
      BY <1>1, <1>5, <2>1, <2>2
  <1> QED
    BY <1>2, <1>3, <1>4, <1>5 DEF TimelineInv, Apart

LEMMA RollbackRight ==
    ASSUME TimelineInv, NEW r \in Requests, Rollback(r)
    PROVE  TimelineInv'
  <1>1. IsRequest(Idle) /\ JobRight(Idle, event, raw, contested)
    BY IdleIs, IdleRight
  <1>2. DOMAIN Idle["inserts"] \cap Reserved = {}
    BY IdleIs
  <1>3. left' \in [Operations -> Nat]
    BY DEF Rollback, TimelineInv, Tables
  <1> QED
    BY <1>1, <1>2, <1>3, Replaced DEF Rollback

LEMMA BeginRight ==
    ASSUME TimelineInv, NEW r \in Requests, NEW op \in Operations, NEW target,
           NEW updates, NEW inserts, NEW j,
           Begin(r, op, target, updates, inserts),
           j = [op |-> op, target |-> target,
                changes |-> [i \in DOMAIN updates |-> Changed(event[i], updates[i])],
                inserts |-> inserts],
           IsRequest(j), JobRight(j, event, raw, contested),
           DOMAIN inserts \cap Reserved = {}
    PROVE  TimelineInv'
  <1>1. req' = [req EXCEPT ![r] = j] /\ UNCHANGED <<event, raw, contested>>
    BY DEF Begin
  <1>2. left' \in [Operations -> Nat]
    <2>1. left[op] \in Nat /\ left[op] > 0
      BY DEF Begin, TimelineInv, Tables
    <2>2. left[op] - 1 \in Nat
      BY <2>1
    <2> QED
      BY <2>2 DEF Begin, TimelineInv, Tables
  <1>3. DOMAIN j["inserts"] \cap Reserved = {}
    OBVIOUS
  <1> QED
    BY <1>1, <1>2, <1>3, Replaced

(* A request that edits rows of its columns, as it read them. *)
LEMMA UpdatesRight ==
    ASSUME TimelineInv, NEW r \in Requests, NEW op \in Operations \ {"create", "ingest"},
           NEW target \in Ids, NEW updates,
           Begin(r, op, target, updates, NoChange),
           \A i \in DOMAIN updates :
              /\ i \in Known /\ updates[i] \in Row
              /\ \A c \in Columns \ Writes(op) : updates[i][c] = event[i][c]
              /\ op \in {"delete", "verify"} => i = target
              /\ op = "delete" => updates[i]["deleted"] = TRUE
              /\ op \in {"merge", "split"} =>
                    updates[i]["merged"] \in {op = "merge", event[i]["merged"]}
              /\ i \notin contested => Flags(updates[i]),
           op = "merge" =>
              /\ target \in DOMAIN updates
              /\ \A i \in DOMAIN updates : event[i]["tags"] \subseteq updates[target]["tags"]
    PROVE  TimelineInv'
  <1> DEFINE changes == [i \in DOMAIN updates |-> Changed(event[i], updates[i])]
             j == [op |-> op, target |-> target, changes |-> changes, inserts |-> NoChange]
  <1>1. ASSUME NEW i \in DOMAIN updates
        PROVE  /\ IsChange(op, target, i, changes[i])
               /\ Patched(event[i], changes[i]) = updates[i]
    <2> DEFINE columns == changes[i]
               old == event[i]
               new == updates[i]
    <2>1. columns = Changed(old, new) /\ old \in Row /\ new \in Row
      BY DEF TimelineInv, Tables
    <2> HIDE DEF columns, changes, old, new
    <2>2. /\ \A c \in DOMAIN columns : c \in Columns /\ old[c] # new[c] /\ columns[c] = new[c]
          /\ Patched(old, columns) = new
          /\ Retypes(columns)
      BY <2>1, ChangedIs
    <2> USE DEF old, new
    <2>3. DOMAIN columns \subseteq Writes(op)
      BY <2>2
    <2>4. "deleted" \in DOMAIN columns => columns["deleted"] = TRUE
      <3>1. CASE op = "delete"
        BY <3>1, <2>2
      <3>2. CASE op # "delete"
        BY <3>2, <2>3 DEF Writes, Operations
      <3> QED
        BY <3>1, <3>2
    <2>5. "merged" \in DOMAIN columns => columns["merged"] = (op = "merge")
      <3>1. CASE op \in {"merge", "split"}
        BY <3>1, <2>2
      <3>2. CASE op \notin {"merge", "split"}
        BY <3>2, <2>3 DEF Writes, Operations
      <3> QED
        BY <3>1, <3>2
    <2>6. IsChange(op, target, i, columns)
      BY <2>2, <2>3, <2>4, <2>5 DEF IsChange
    <2> QED
      BY <2>2, <2>6 DEF columns
  <1>2. /\ j["op"] = op /\ j["target"] = target /\ j["changes"] = changes
        /\ DOMAIN j["inserts"] = {} /\ DOMAIN changes = DOMAIN updates
    BY DEF NoChange
  <1>3. j = [op |-> op, target |-> target,
             changes |-> [i \in DOMAIN updates |-> Changed(event[i], updates[i])],
             inserts |-> NoChange]
    OBVIOUS
  <1> HIDE DEF j, changes
  <1>4. IsRequest(j)
    BY <1>1, <1>2 DEF IsRequest, Distinct, Operations
  <1>5. JobRight(j, event, raw, contested)
    <2>1. \A i \in DOMAIN changes \ contested : Flags(Patched(event[i], changes[i]))
      BY <1>1, <1>2
    <2>2. DOMAIN changes \subseteq DOMAIN event
      BY <1>2 DEF Known
    <2> QED
      BY <1>1, <1>2, <2>1, <2>2 DEF JobRight
  <1>6. DOMAIN NoChange \cap Reserved = {}
    BY DEF NoChange
  <1> QED
    BY <1>3, <1>4, <1>5, <1>6, BeginRight

(* An edit of one row by an operation that only writes its own columns. *)
Edits(op, old, new) ==
    /\ new \in Row
    /\ \A c \in Columns \ Writes(op) : new[c] = old[c]
    /\ op = "delete" => Gone(new)

LEMMA EditRight ==
    ASSUME TimelineInv, NEW r \in Requests, NEW op \in {"update", "delete", "pin", "verify"},
           NEW i \in Ids, Live(i), NEW new, Edits(op, event[i], new),
           Begin(r, op, i, [x \in {i} |-> new], NoChange)
    PROVE  TimelineInv'
  <1> DEFINE updates == [x \in {i} |-> new]
  <1>1. DOMAIN updates = {i} /\ updates[i] = new
    OBVIOUS
  <1> HIDE DEF updates
  <1>2. i \in Known
    BY DEF Live
  <1>3. i \notin contested => Flags(new)
    <2>1. new["merged"] = event[i]["merged"] /\ new["into"] = event[i]["into"]
      BY DEF Edits, Writes, Columns
    <2> QED
      BY <1>2, <2>1 DEF TimelineInv, RowsRight, Flags, Known
  <1>4. op \in Operations \ {"create", "ingest"} /\ op \notin {"merge", "split"}
    BY DEF Operations
  <1>5. Begin(r, op, i, updates, NoChange)
    BY DEF updates
  <1>6. \A x \in DOMAIN updates :
           /\ x \in Known /\ updates[x] \in Row
           /\ \A c \in Columns \ Writes(op) : updates[x][c] = event[x][c]
           /\ op \in {"delete", "verify"} => x = i
           /\ op = "delete" => updates[x]["deleted"] = TRUE
           /\ op \in {"merge", "split"} =>
                 updates[x]["merged"] \in {op = "merge", event[x]["merged"]}
           /\ x \notin contested => Flags(updates[x])
    BY <1>1, <1>2, <1>3, <1>4 DEF Edits, Gone
  <1> QED
    BY <1>4, <1>5, <1>6, UpdatesRight

LEMMA UpdateRight ==
    ASSUME TimelineInv, NEW r \in Requests, NEW i \in Ids,
           UpdateEvent(r, i) \/ DeleteEvent(r, i) \/ SetPinned(r, i) \/ SetVerification(r, i)
    PROVE  TimelineInv'
  <1>1. Live(i) /\ event[i] \in Row
    BY DEF UpdateEvent, DeleteEvent, SetPinned, SetVerification, Live, TimelineInv, Tables
  <1>2. CASE UpdateEvent(r, i)
    <2>1. PICK tags \in SUBSET Tags :
             Begin(r, "update", i, [x \in {i} |-> [event[i] EXCEPT !.tags = tags]], NoChange)
      BY <1>2 DEF UpdateEvent
    <2> DEFINE new == [event[i] EXCEPT !.tags = tags]
    <2>2. Edits("update", event[i], new)
      BY <1>1 DEF Edits, Row, Columns, Writes
    <2>3. Begin(r, "update", i, [x \in {i} |-> new], NoChange)
      BY <2>1
    <2> HIDE DEF new
    <2> QED
      BY <1>1, <2>2, <2>3, EditRight
  <1>3. CASE DeleteEvent(r, i)
    <2> DEFINE new == [event[i] EXCEPT !.deleted = TRUE]
    <2>1. Edits("delete", event[i], new)
      BY <1>1 DEF Edits, Gone, Row, Columns, Writes
    <2>2. Begin(r, "delete", i, [x \in {i} |-> new], NoChange)
      BY <1>3 DEF DeleteEvent
    <2> HIDE DEF new
    <2> QED
      BY <1>1, <2>1, <2>2, EditRight
  <1>4. CASE SetPinned(r, i)
    <2>1. PICK pinned \in BOOLEAN :
             Begin(r, "pin", i, [x \in {i} |-> [event[i] EXCEPT !.pinned = pinned]], NoChange)
      BY <1>4 DEF SetPinned
    <2> DEFINE new == [event[i] EXCEPT !.pinned = pinned]
    <2>2. Edits("pin", event[i], new)
      BY <1>1 DEF Edits, Row, Columns, Writes
    <2>3. Begin(r, "pin", i, [x \in {i} |-> new], NoChange)
      BY <2>1
    <2> HIDE DEF new
    <2> QED
      BY <1>1, <2>2, <2>3, EditRight
  <1>5. CASE SetVerification(r, i)
    <2>1. PICK verdict \in Verdicts :
             Begin(r, "verify", i, [x \in {i} |-> [event[i] EXCEPT !.verdict = verdict]], NoChange)
      BY <1>5 DEF SetVerification
    <2> DEFINE new == [event[i] EXCEPT !.verdict = verdict]
    <2>2. Edits("verify", event[i], new)
      BY <1>1 DEF Edits, Row, Columns, Writes
    <2>3. Begin(r, "verify", i, [x \in {i} |-> new], NoChange)
      BY <2>1
    <2> HIDE DEF new
    <2> QED
      BY <1>1, <2>2, <2>3, EditRight
  <1> QED
    BY <1>2, <1>3, <1>4, <1>5

LEMMA SplitRight ==
    ASSUME TimelineInv, NEW r \in Requests, NEW i \in Ids, SplitEvent(r, i)
    PROVE  TimelineInv'
  <1> DEFINE children == {c \in Known : ~event[c].deleted /\ event[c].into = i}
             updates == [c \in children |-> [event[c] EXCEPT !.merged = FALSE, !.into = NoId]]
  <1>1. Begin(r, "split", i, updates, NoChange)
    BY DEF SplitEvent
  <1>2. ASSUME NEW c \in DOMAIN updates
        PROVE  /\ c \in Known /\ updates[c] \in Row
               /\ \A d \in Columns \ Writes("split") : updates[c][d] = event[c][d]
               /\ updates[c]["merged"] = FALSE /\ Flags(updates[c])
    <2>1. c \in Known /\ event[c] \in Row
      BY DEF TimelineInv, Tables
    <2> DEFINE new == [event[c] EXCEPT !.merged = FALSE, !.into = NoId]
    <2>2. new \in Row /\ \A d \in Columns \ Writes("split") : new[d] = event[c][d]
      BY <2>1 DEF Row, Columns, Writes
    <2>3. new["merged"] = FALSE /\ new["into"] = NoId
      BY <2>1 DEF Row
    <2>4. updates[c] = new
      OBVIOUS
    <2> QED
      BY <2>1, <2>2, <2>3, <2>4 DEF Flags
  <1> HIDE DEF updates
  <1>3. "split" \in Operations \ {"create", "ingest"}
    BY DEF Operations
  <1>4. \A c \in DOMAIN updates :
           /\ c \in Known /\ updates[c] \in Row
           /\ \A d \in Columns \ Writes("split") : updates[c][d] = event[c][d]
           /\ "split" \in {"delete", "verify"} => c = i
           /\ "split" = "delete" => updates[c]["deleted"] = TRUE
           /\ "split" \in {"merge", "split"} =>
                 updates[c]["merged"] \in {"split" = "merge", event[c]["merged"]}
           /\ c \notin contested => Flags(updates[c])
    BY <1>2
  <1> QED
    BY <1>1, <1>3, <1>4, UpdatesRight

LEMMA MergeRight ==
    ASSUME TimelineInv, NEW r \in Requests, NEW primary \in Ids, NEW ids \in SUBSET Ids,
           MergeEvents(r, primary, ids)
    PROVE  TimelineInv'
  <1> DEFINE children == Children(primary, ids)
             merged(i) == IF i \in children THEN Folded(event[i], primary) ELSE event[i]
             updates == [i \in children \cup {primary} |->
                            IF i = primary
                            THEN [merged(i) EXCEPT !.tags = TagsWith(primary, children)]
                            ELSE merged(i)]
  <1>1. Begin(r, "merge", primary, updates, NoChange)
    BY DEF MergeEvents
  <1>2. children \subseteq Known /\ primary \in Known /\ primary \notin children
    BY DEF MergeEvents, Children, Live
  <1>3. \A i \in Known : event[i] \in Row
    BY DEF TimelineInv, Tables
  <1>4. DOMAIN updates = children \cup {primary}
    OBVIOUS
  <1>5. TagsWith(primary, children) \subseteq Tags
    <2>1. \A i \in children \cup {primary} : event[i].tags \subseteq Tags
      BY <1>2, <1>3, RowIs
    <2> QED
      BY <2>1 DEF TagsWith
  <1>6. ASSUME NEW i \in children
        PROVE  /\ updates[i] \in Row
               /\ \A c \in Columns \ Writes("merge") : updates[i][c] = event[i][c]
               /\ updates[i]["merged"] = TRUE /\ Flags(updates[i])
    <2> DEFINE new == [event[i] EXCEPT !.merged = TRUE, !.into = primary]
    <2>1. updates[i] = new
      BY <1>2 DEF Folded
    <2>2. new \in Row /\ \A c \in Columns \ Writes("merge") : new[c] = event[i][c]
      BY <1>2, <1>3 DEF Row, Columns, Writes
    <2>3. new["merged"] = TRUE /\ new["into"] = primary
      BY <1>2, <1>3 DEF Row
    <2> QED
      BY <2>1, <2>2, <2>3, TimelineAssumption DEF Flags
  <1>7. /\ updates[primary] \in Row
        /\ \A c \in Columns \ Writes("merge") : updates[primary][c] = event[primary][c]
        /\ updates[primary]["merged"] = event[primary]["merged"]
        /\ updates[primary]["tags"] = TagsWith(primary, children)
        /\ primary \notin contested => Flags(updates[primary])
    <2> DEFINE new == [event[primary] EXCEPT !.tags = TagsWith(primary, children)]
    <2>1. updates[primary] = new
      BY <1>2
    <2>2. new \in Row /\ \A c \in Columns \ Writes("merge") : new[c] = event[primary][c]
      BY <1>2, <1>3, <1>5 DEF Row, Columns, Writes
    <2>3. /\ new["merged"] = event[primary]["merged"] /\ new["into"] = event[primary]["into"]
          /\ new["tags"] = TagsWith(primary, children)
      BY <1>2, <1>3 DEF Row
    <2> HIDE DEF new, updates
    <2>4. primary \notin contested => Flags(event[primary])
      BY <1>2 DEF TimelineInv, RowsRight, Known
    <2> QED
      BY <2>1, <2>2, <2>3, <2>4 DEF Flags
  <1>8. \A i \in children \cup {primary} : event[i]["tags"] \subseteq TagsWith(primary, children)
    BY DEF TagsWith
  <1> HIDE DEF updates, children
  <1> DEFINE op == "merge"
  <1>9. \A i \in DOMAIN updates :
           /\ i \in Known /\ updates[i] \in Row
           /\ \A c \in Columns \ Writes(op) : updates[i][c] = event[i][c]
           /\ op \in {"delete", "verify"} => i = primary
           /\ op = "delete" => updates[i]["deleted"] = TRUE
           /\ op \in {"merge", "split"} =>
                 updates[i]["merged"] \in {op = "merge", event[i]["merged"]}
           /\ i \notin contested => Flags(updates[i])
    <2> TAKE i \in DOMAIN updates
    <2>1. CASE i = primary
      BY <2>1, <1>2, <1>7
    <2>2. CASE i # primary
      BY <2>2, <1>2, <1>4, <1>6
    <2> QED
      BY <2>1, <2>2
  <1>10. op \in Operations \ {"create", "ingest"} /\ Begin(r, op, primary, updates, NoChange)
    BY <1>1 DEF Operations
  <1>11. op = "merge" =>
            /\ primary \in DOMAIN updates
            /\ \A i \in DOMAIN updates : event[i]["tags"] \subseteq updates[primary]["tags"]
    BY <1>4, <1>7, <1>8
  <1> HIDE DEF op
  <1> QED
    BY <1>9, <1>10, <1>11, UpdatesRight

(* A request that adds events: its ids are unused, and what it mirrors is *)
(* not mirrored yet. *)
LEMMA InsertsRight ==
    ASSUME TimelineInv, NEW r \in Requests, NEW op \in {"create", "ingest"},
           NEW target \in Ids \cup {NoId}, NEW inserts,
           DOMAIN inserts \subseteq Unused, Distinct(inserts),
           \A i \in DOMAIN inserts :
              /\ New(inserts[i])
              /\ inserts[i]["origin"] \in Unmirrored \cup {NoOrigin},
           Begin(r, op, target, NoChange, inserts)
    PROVE  TimelineInv'
  <1> DEFINE j == [op |-> op, target |-> target,
                   changes |-> [i \in DOMAIN NoChange |-> Changed(event[i], NoChange[i])],
                   inserts |-> inserts]
  <1>1. /\ j["op"] = op /\ j["target"] = target /\ j["inserts"] = inserts
        /\ DOMAIN j["changes"] = {}
    BY DEF NoChange
  <1>2. op \in Operations /\ op # "merge"
    BY DEF Operations
  <1>3. DOMAIN inserts \subseteq Ids /\ DOMAIN inserts \cap DOMAIN event = {}
        /\ DOMAIN inserts \cap Reserved = {}
    BY DEF Unused, Known
  <1>4. j = [op |-> op, target |-> target,
             changes |-> [i \in DOMAIN NoChange |-> Changed(event[i], NoChange[i])],
             inserts |-> inserts]
    OBVIOUS
  <1> HIDE DEF j
  <1>5. IsRequest(j)
    BY <1>1, <1>2, <1>3 DEF IsRequest
  <1>6. \A o \in Unmirrored : o \in raw /\ \A k \in DOMAIN event : event[k]["origin"] # o
    BY DEF Unmirrored, Known
  <1>7. JobRight(j, event, raw, contested)
    BY <1>1, <1>2, <1>3, <1>6 DEF JobRight
  <1> QED
    BY <1>2, <1>3, <1>4, <1>5, <1>7, BeginRight

LEMMA CreateRight ==
    ASSUME TimelineInv, NEW r \in Requests, CreateEvent(r)
    PROVE  TimelineInv'
  <1>1. PICK i \in Unused, tags \in SUBSET Tags :
           Begin(r, "create", i, NoChange, [x \in {i} |-> Blank(NoOrigin, "verified", tags)])
    BY DEF CreateEvent
  <1> DEFINE inserts == [x \in {i} |-> Blank(NoOrigin, "verified", tags)]
  <1>2. DOMAIN inserts \subseteq Unused
    OBVIOUS
  <1>3. New(inserts[i]) /\ inserts[i]["origin"] = NoOrigin
    BY BlankIs, TimelineAssumption
  <1>4. Distinct(inserts)
    BY DEF Distinct
  <1>5. DOMAIN inserts = {i}
    OBVIOUS
  <1>6. Begin(r, "create", i, NoChange, inserts)
    BY <1>1
  <1> HIDE DEF inserts
  <1>7. i \in Ids
    BY DEF Unused
  <1> QED
    BY <1>2, <1>3, <1>4, <1>5, <1>6, <1>7, InsertsRight

(* The new events mirror the given rows, each of them once. *)
LEMMA MirrorsAre ==
    ASSUME NEW rows \in SUBSET Origins, NEW new \in Mirrors(rows)
    PROVE  /\ DOMAIN new \subseteq Unused
           /\ \A i \in DOMAIN new : New(new[i]) /\ new[i]["origin"] \in rows
           /\ Distinct(new)
  <1>1. PICK ids \in SUBSET Unused :
           new \in {[i \in ids |-> Blank(origin[i], "unverified", {})] :
                       origin \in Bijection(ids, rows)}
    BY DEF Mirrors
  <1>2. PICK origin \in Bijection(ids, rows) :
           new = [i \in ids |-> Blank(origin[i], "unverified", {})]
    BY <1>1
  <1>3. /\ \A i \in ids : origin[i] \in rows
        /\ \A i, k \in ids : origin[i] = origin[k] => i = k
    BY DEF Bijection, Injection, Surjection, IsInjective
  <1>4. ASSUME NEW i \in ids
        PROVE  New(new[i]) /\ new[i]["origin"] = origin[i]
    <2>1. new[i] = Blank(origin[i], "unverified", {})
      BY <1>2
    <2> QED
      BY <2>1, <1>3, BlankIs, TimelineAssumption
  <1>5. DOMAIN new = ids
    BY <1>2
  <1> QED
    BY <1>3, <1>4, <1>5 DEF Distinct

LEMMA IngestRight ==
    ASSUME TimelineInv, NEW r \in Requests, Ingest(r)
    PROVE  TimelineInv'
  <1>1. PICK new \in Mirrors(Unmirrored) : Begin(r, "ingest", NoId, NoChange, new)
    BY DEF Ingest
  <1>2. Unmirrored \in SUBSET Origins
    BY DEF Unmirrored, TimelineInv, Tables
  <1>3. /\ DOMAIN new \subseteq Unused
        /\ \A i \in DOMAIN new : New(new[i]) /\ new[i]["origin"] \in Unmirrored
        /\ Distinct(new)
    BY <1>2, MirrorsAre
  <1> QED
    BY <1>1, <1>3, InsertsRight

-----------------------------------------------------------------------------
(* Rows are written: by the commit of a request, or by a pipeline run. *)

Writable(changes, inserts, rows, extracted, claimed) ==
    /\ DOMAIN changes \subseteq DOMAIN rows
    /\ \A i \in DOMAIN changes :
          /\ "origin" \notin DOMAIN changes[i]
          /\ Retypes(changes[i])
          /\ i \notin claimed => Flags(Patched(rows[i], changes[i]))
    /\ DOMAIN inserts \subseteq Ids \ DOMAIN rows
    /\ \A i \in DOMAIN inserts :
          LET origin == inserts[i]["origin"] IN
          /\ New(inserts[i])
          /\ origin \in extracted \cup {NoOrigin}
          /\ origin \notin claimed \cup {NoOrigin} =>
                \A k \in DOMAIN rows : rows[k]["origin"] # origin
    /\ Distinct(inserts)

(* The rows after both. *)
Written(changes, inserts, rows, next) ==
    /\ DOMAIN next = DOMAIN rows \cup DOMAIN inserts
    /\ \A i \in DOMAIN inserts : next[i] = inserts[i]
    /\ \A i \in DOMAIN changes : next[i] = Patched(rows[i], changes[i])
    /\ \A i \in DOMAIN rows \ DOMAIN changes : next[i] = rows[i]

LEMMA WrittenRows ==
    ASSUME NEW changes, NEW inserts, NEW rows, NEW next,
           NEW extracted, NEW found, NEW claimed, NEW contests,
           DOMAIN rows \subseteq Ids, \A i \in DOMAIN rows : rows[i] \in Row,
           RowsRight(rows, extracted, claimed),
           Writable(changes, inserts, rows, found, claimed),
           Written(changes, inserts, rows, next),
           extracted \subseteq found, claimed \subseteq contests
    PROVE  /\ DOMAIN next \subseteq Ids
           /\ \A i \in DOMAIN next : next[i] \in Row
           /\ \A i \in DOMAIN rows : next[i]["origin"] = rows[i]["origin"]
           /\ RowsRight(next, found, contests)
  <1>1. DOMAIN next \subseteq Ids
    BY DEF Writable, Written
  <1>2. ASSUME NEW i \in DOMAIN rows
        PROVE  next[i] \in Row /\ next[i]["origin"] = rows[i]["origin"]
    <2>1. CASE i \in DOMAIN changes
      <3>1. next[i] = Patched(rows[i], changes[i]) /\ "origin" \notin DOMAIN changes[i]
        BY <2>1 DEF Writable, Written
      <3>2. next[i] \in Row
        BY <2>1, <3>1 DEF Writable, Retypes
      <3> QED
        BY <3>1, <3>2, PatchedIs DEF Columns
    <2>2. CASE i \notin DOMAIN changes
      BY <2>2 DEF Written
    <2> QED
      BY <2>1, <2>2
  <1>3. ASSUME NEW i \in DOMAIN inserts
        PROVE  next[i] = inserts[i] /\ New(next[i])
    BY DEF Writable, Written
  <1>4. \A i \in DOMAIN next : next[i] \in Row
    BY <1>2, <1>3 DEF Written, New
  <1>5. \A i \in DOMAIN next : next[i]["origin"] \in found \cup {NoOrigin}
    <2>1. \A i \in DOMAIN rows : rows[i]["origin"] \in extracted \cup {NoOrigin}
      BY DEF RowsRight
    <2>2. \A i \in DOMAIN inserts : inserts[i]["origin"] \in found \cup {NoOrigin}
      BY DEF Writable
    <2> QED
      BY <1>2, <1>3, <2>1, <2>2 DEF Written
  <1>6. ASSUME NEW i \in DOMAIN next \ contests
        PROVE  Flags(next[i])
    <2>1. CASE i \in DOMAIN inserts
      BY <2>1, <1>3 DEF New, Flags
    <2>2. CASE i \in DOMAIN changes
      BY <2>2 DEF Writable, Written
    <2>3. CASE i \in DOMAIN rows \ DOMAIN changes
      BY <2>3 DEF RowsRight, Written
    <2> QED
      BY <2>1, <2>2, <2>3 DEF Written
  <1>7. ASSUME NEW i \in DOMAIN next, NEW k \in DOMAIN next,
               next[i]["origin"] = next[k]["origin"],
               next[i]["origin"] \notin contests \cup {NoOrigin}
        PROVE  i = k
    <2>1. CASE i \in DOMAIN rows /\ k \in DOMAIN rows
      BY <2>1, <1>2, <1>7 DEF RowsRight
    <2>2. CASE i \in DOMAIN inserts /\ k \in DOMAIN inserts
      BY <2>2, <1>3, <1>7 DEF Writable, Distinct
    <2>3. CASE i \in DOMAIN inserts /\ k \in DOMAIN rows
      BY <2>3, <1>2, <1>3, <1>7 DEF Writable
    <2>4. CASE i \in DOMAIN rows /\ k \in DOMAIN inserts
      BY <2>4, <1>2, <1>3, <1>7 DEF Writable
    <2> QED
      BY <2>1, <2>2, <2>3, <2>4 DEF Written
  <1> QED
    BY <1>1, <1>2, <1>4, <1>5, <1>6, <1>7 DEF RowsRight

(* A request on its way stays right when what it shares with the writer *)
(* is recorded as contested. *)
LEMMA WrittenJob ==
    ASSUME NEW changes, NEW inserts, NEW rows, NEW next,
           NEW extracted, NEW found, NEW claimed, NEW contests, NEW j,
           JobRight(j, rows, extracted, claimed),
           Written(changes, inserts, rows, next),
           \A i \in DOMAIN rows : next[i]["origin"] = rows[i]["origin"],
           extracted \subseteq found, claimed \subseteq contests,
           DOMAIN j["inserts"] \cap DOMAIN inserts = {},
           DOMAIN j["changes"] \cap DOMAIN changes \subseteq contests,
           OriginsOf(j["inserts"]) \cap OriginsOf(inserts) \subseteq contests
    PROVE  JobRight(j, next, found, contests)
  <1>1. /\ DOMAIN j["changes"] \subseteq DOMAIN next
        /\ DOMAIN j["inserts"] \cap DOMAIN next = {}
    BY DEF JobRight, Written
  <1>2. ASSUME NEW i \in DOMAIN j["inserts"],
               j["inserts"][i]["origin"] \notin contests \cup {NoOrigin},
               NEW k \in DOMAIN next
        PROVE  next[k]["origin"] # j["inserts"][i]["origin"]
    <2>1. CASE k \in DOMAIN rows
      BY <2>1, <1>2 DEF JobRight
    <2>2. CASE k \in DOMAIN inserts
      <3>1. j["inserts"][i]["origin"] \in OriginsOf(j["inserts"])
        BY <1>2 DEF OriginsOf
      <3>2. next[k] = inserts[k]
        BY <2>2 DEF Written
      <3>3. inserts[k]["origin"] \in OriginsOf(inserts) \cup {NoOrigin}
        BY <2>2 DEF OriginsOf
      <3> QED
        BY <1>2, <3>1, <3>2, <3>3
    <2> QED
      BY <2>1, <2>2 DEF Written
  <1>3. \A i \in DOMAIN j["inserts"] : j["inserts"][i]["origin"] \in found \cup {NoOrigin}
    BY DEF JobRight
  <1>4. \A i \in DOMAIN j["changes"] \ contests : next[i] = rows[i] /\ i \notin claimed
    BY DEF JobRight, Written
  <1>5. \A i \in DOMAIN j["changes"] \ contests : Flags(Patched(next[i], j["changes"][i]))
    BY <1>4 DEF JobRight
  <1>6. ASSUME j["op"] = "merge"
        PROVE  /\ j["target"] \in DOMAIN j["changes"]
               /\ \A i \in DOMAIN j["changes"] :
                     i \notin contests /\ j["target"] \notin contests =>
                         next[i]["tags"] \subseteq
                             Patched(next[j["target"]], j["changes"][j["target"]])["tags"]
    BY <1>4, <1>6 DEF JobRight
  <1> QED
    BY <1>1, <1>2, <1>3, <1>5, <1>6 DEF JobRight

LEMMA RequestWritable ==
    ASSUME TimelineInv, NEW r \in Requests
    PROVE  Writable(req[r]["changes"], req[r]["inserts"], event, raw, contested)
  <1> DEFINE j == req[r]
  <1>1. IsRequest(j) /\ JobRight(j, event, raw, contested)
    BY DEF TimelineInv
  <1> HIDE DEF j
  <1>2. ASSUME NEW i \in DOMAIN j["changes"]
        PROVE  "origin" \notin DOMAIN j["changes"][i] /\ Retypes(j["changes"][i])
    <2>1. IsChange(j["op"], j["target"], i, j["changes"][i])
      BY <1>1 DEF IsRequest
    <2>2. "origin" \notin Writes(j["op"])
      BY <1>1 DEF Writes, IsRequest, Operations
    <2> QED
      BY <2>1, <2>2 DEF IsChange
  <1>3. Writable(j["changes"], j["inserts"], event, raw, contested)
    BY <1>1, <1>2 DEF Writable, IsRequest, JobRight
  <1> QED
    BY <1>3 DEF j

LEMMA CommitIs ==
    ASSUME TimelineInv, NEW r \in Requests, Commit(r)
    PROVE  /\ Written(req[r]["changes"], req[r]["inserts"], event, event')
           /\ DOMAIN event' = Known \cup DOMAIN req[r]["inserts"]
  <1> DEFINE changes == req[r]["changes"]
             inserts == req[r]["inserts"]
  <1>1. event' = [i \in Known \cup DOMAIN inserts |->
                     IF i \in DOMAIN inserts THEN inserts[i]
                     ELSE IF i \in DOMAIN changes THEN Patched(event[i], changes[i])
                     ELSE event[i]]
    BY DEF Commit
  <1>2. DOMAIN changes \subseteq Known /\ DOMAIN inserts \cap Known = {}
    BY RequestWritable DEF Writable, Known
  <1> HIDE DEF changes, inserts
  <1>3. Written(changes, inserts, event, event')
    BY <1>1, <1>2 DEF Written, Known
  <1>4. DOMAIN event' = Known \cup DOMAIN inserts
    BY <1>1
  <1> QED
    BY <1>3, <1>4 DEF changes, inserts

LEMMA CommitRight ==
    ASSUME TimelineInv, NEW r \in Requests, Commit(r)
    PROVE  TimelineInv'
  <1> DEFINE changes == req[r]["changes"]
             inserts == req[r]["inserts"]
  <1>1. /\ Writable(changes, inserts, event, raw, contested)
        /\ Written(changes, inserts, event, event')
    BY RequestWritable, CommitIs
  <1>2. /\ contested \subseteq contested'
        /\ raw' = raw /\ left' = left
        /\ DOMAIN req' = Requests /\ req'[r] = Idle
        /\ \A s \in Requests \ {r} : req'[s] = req[s]
    BY DEF Commit, TimelineInv, Tables
  <1>3. ASSUME NEW s \in Requests \ {r}
        PROVE  /\ DOMAIN req[s]["changes"] \cap DOMAIN changes \subseteq contested'
               /\ OriginsOf(req[s]["inserts"]) \cap OriginsOf(inserts) \subseteq contested'
    <2>1. /\ DOMAIN req[s]["changes"] \subseteq Claims(Requests \ {r})
          /\ OriginsOf(req[s]["inserts"]) \subseteq Claims(Requests \ {r})
      BY DEF Claims
    <2>2. DOMAIN changes \subseteq Claims({r}) /\ OriginsOf(inserts) \subseteq Claims({r})
      BY DEF Claims
    <2>3. contested' = contested \cup (Claims({r}) \cap Claims(Requests \ {r}))
      BY DEF Commit
    <2> QED
      BY <2>1, <2>2, <2>3
  <1>4. ASSUME NEW s \in Requests \ {r}
        PROVE  DOMAIN req[s]["inserts"] \cap DOMAIN inserts = {}
    BY DEF TimelineInv, Apart
  <1>5. contested' \subseteq Ids \cup Origins
    <2>1. Claims({r}) = DOMAIN changes \cup OriginsOf(inserts)
      BY DEF Claims
    <2>2. DOMAIN changes \subseteq Ids
      BY <1>1 DEF Writable, TimelineInv, Tables, Known
    <2>3. OriginsOf(inserts) \subseteq Origins
      BY <1>1 DEF OriginsOf, Writable, TimelineInv, Tables
    <2> QED
      BY <2>1, <2>2, <2>3 DEF Commit, TimelineInv, Tables
  <1> HIDE DEF changes, inserts
  <1>6. /\ DOMAIN event' \subseteq Ids
        /\ \A i \in DOMAIN event' : event'[i] \in Row
        /\ \A i \in DOMAIN event : event'[i]["origin"] = event[i]["origin"]
        /\ RowsRight(event', raw, contested')
    <2>1. /\ DOMAIN event \subseteq Ids /\ \A i \in DOMAIN event : event[i] \in Row
          /\ RowsRight(event, raw, contested)
      BY DEF TimelineInv, Tables, Known
    <2> QED
      BY <1>1, <1>2, <2>1, WrittenRows
  <1>7. ASSUME NEW s \in Requests
        PROVE  IsRequest(req'[s]) /\ JobRight(req'[s], event', raw', contested')
    <2>1. CASE s = r
      BY <2>1, <1>2, IdleIs, IdleRight
    <2>2. CASE s # r
      <3> DEFINE j == req[s]
      <3>1. IsRequest(j) /\ JobRight(j, event, raw, contested)
        BY DEF TimelineInv
      <3>2. /\ DOMAIN j["inserts"] \cap DOMAIN inserts = {}
            /\ DOMAIN j["changes"] \cap DOMAIN changes \subseteq contested'
            /\ OriginsOf(j["inserts"]) \cap OriginsOf(inserts) \subseteq contested'
        BY <2>2, <1>3, <1>4
      <3> HIDE DEF j
      <3>3. JobRight(j, event', raw, contested')
        BY <1>1, <1>2, <1>6, <3>1, <3>2, WrittenJob
      <3>4. req'[s] = j
        BY <2>2, <1>2 DEF j
      <3> QED
        BY <1>2, <3>1, <3>3, <3>4
    <2> QED
      BY <2>1, <2>2
  <1>8. Tables'
    BY <1>2, <1>5, <1>6 DEF TimelineInv, Tables, Known
  <1>9. Apart'
    BY <1>2, IdleIs DEF TimelineInv, Apart
  <1> QED
    BY <1>2, <1>6, <1>7, <1>8, <1>9 DEF TimelineInv

LEMMA ExtractRight ==
    ASSUME TimelineInv, NEW o \in Origins, Extract(o)
    PROVE  TimelineInv'
  <1>1. /\ o \notin raw /\ raw' = raw \cup {o} /\ raw \subseteq raw' /\ raw' \subseteq Origins
        /\ UNCHANGED <<req, left>>
    BY DEF Extract, TimelineInv, Tables
  <1>2. /\ DOMAIN event \subseteq Ids /\ \A i \in DOMAIN event : event[i] \in Row
        /\ RowsRight(event, raw, contested)
        /\ \A r \in Requests : IsRequest(req[r]) /\ JobRight(req[r], event, raw, contested)
    BY DEF TimelineInv, Tables, Known
  <1>3. CASE UNCHANGED <<event, contested>>
    <2>1. RowsRight(event, raw', contested)
      BY <1>1, <1>2 DEF RowsRight
    <2>2. \A r \in Requests : JobRight(req[r], event, raw', contested)
      BY <1>1, <1>2 DEF JobRight
    <2>3. Tables' /\ Apart'
      BY <1>1, <1>3 DEF TimelineInv, Tables, Apart, Known
    <2> QED
      BY <1>1, <1>2, <1>3, <2>1, <2>2, <2>3 DEF TimelineInv
  <1>4. CASE ~ UNCHANGED <<event, contested>>
    <2>1. PICK earlier \in SUBSET Unmirrored : \E new \in Mirrors(earlier \cup {o}) :
             /\ event' = [i \in Known \cup DOMAIN new |->
                            IF i \in DOMAIN new THEN new[i] ELSE event[i]]
             /\ contested' = contested \cup (OriginsOf(new) \cap Claims(Requests))
      BY <1>4 DEF Extract
    <2>2. PICK new \in Mirrors(earlier \cup {o}) :
             /\ event' = [i \in Known \cup DOMAIN new |->
                            IF i \in DOMAIN new THEN new[i] ELSE event[i]]
             /\ contested' = contested \cup (OriginsOf(new) \cap Claims(Requests))
      BY <2>1
    <2>3. earlier \cup {o} \in SUBSET Origins
      BY DEF Unmirrored, TimelineInv, Tables
    <2>4. /\ DOMAIN new \subseteq Unused
          /\ \A i \in DOMAIN new : New(new[i]) /\ new[i]["origin"] \in earlier \cup {o}
          /\ Distinct(new)
      BY <2>3, MirrorsAre
    <2>5. ASSUME NEW x \in earlier \cup {o}
          PROVE  x \in raw' /\ \A k \in DOMAIN event : event[k]["origin"] # x
      <3>1. CASE x = o
        BY <3>1, <1>1, <1>2, TimelineAssumption DEF RowsRight
      <3>2. CASE x \in earlier
        BY <3>2, <1>1 DEF Unmirrored, Known
      <3> QED
        BY <3>1, <3>2
    <2>6. DOMAIN new \subseteq Ids \ DOMAIN event /\ DOMAIN new \cap Reserved = {}
      BY <2>4 DEF Unused, Known
    <2>7. Writable(NoChange, new, event, raw', contested)
      BY <2>4, <2>5, <2>6 DEF Writable, NoChange
    <2>8. Written(NoChange, new, event, event')
      BY <2>2, <2>6 DEF Written, NoChange, Known
    <2>9. contested \subseteq contested'
      BY <2>2
    <2>10. /\ DOMAIN event' \subseteq Ids
           /\ \A i \in DOMAIN event' : event'[i] \in Row
           /\ \A i \in DOMAIN event : event'[i]["origin"] = event[i]["origin"]
           /\ RowsRight(event', raw', contested')
      <3>1. raw \subseteq raw'
        BY <1>1
      <3> QED
        BY <1>2, <2>7, <2>8, <2>9, <3>1, WrittenRows, ZenonT(30)
    <2>11. ASSUME NEW r \in Requests
           PROVE  JobRight(req[r], event', raw', contested')
      <3> DEFINE j == req[r]
      <3>1. JobRight(j, event, raw, contested)
        BY <1>2
      <3>2. DOMAIN j["inserts"] \cap DOMAIN new = {}
        BY <2>6 DEF Reserved
      <3>3. OriginsOf(j["inserts"]) \cap OriginsOf(new) \subseteq contested'
        <4>1. OriginsOf(j["inserts"]) \subseteq Claims(Requests)
          BY DEF Claims
        <4> QED
          BY <2>2, <4>1
      <3>4. DOMAIN j["changes"] \cap DOMAIN NoChange \subseteq contested'
        BY DEF NoChange
      <3> HIDE DEF j
      <3>5. JobRight(j, event', raw', contested')
        BY <1>1, <2>8, <2>9, <2>10, <3>1, <3>2, <3>3, <3>4, WrittenJob
      <3> QED
        BY <3>5 DEF j
    <2>12. contested' \subseteq Ids \cup Origins
      <3>1. OriginsOf(new) \subseteq Origins
        BY <2>3, <2>4 DEF OriginsOf
      <3> QED
        BY <2>2, <3>1 DEF TimelineInv, Tables
    <2>13. Tables'
      BY <1>1, <2>10, <2>12 DEF TimelineInv, Tables, Known
    <2>14. Apart'
      BY <1>1 DEF TimelineInv, Apart
    <2> QED
      BY <1>1, <1>2, <2>10, <2>11, <2>13, <2>14 DEF TimelineInv
  <1> QED
    BY <1>3, <1>4

-----------------------------------------------------------------------------

LEMMA InitRight == Init => TimelineInv
  <1> SUFFICES ASSUME Init PROVE TimelineInv
    OBVIOUS
  <1>1. DOMAIN event = {} /\ raw = {} /\ contested = {} /\ left = Allowed
        /\ req = [r \in Requests |-> Idle]
    BY DEF Init, NoChange
  <1>2. Tables
    BY <1>1, TimelineAssumption DEF Tables, Known
  <1>3. RowsRight(event, raw, contested)
    BY <1>1 DEF RowsRight
  <1>4. \A r \in Requests : req[r] = Idle
    BY <1>1
  <1>5. Apart
    BY <1>4, IdleIs DEF Apart
  <1> QED
    BY <1>2, <1>3, <1>4, <1>5, IdleIs, IdleRight DEF TimelineInv

LEMMA NextRight == TimelineInv /\ [Next]_vars => TimelineInv'
  <1> SUFFICES ASSUME TimelineInv, [Next]_vars PROVE TimelineInv'
    OBVIOUS
  <1>1. CASE UNCHANGED vars
    <2>1. UNCHANGED <<event, raw, req, left, contested>>
      BY <1>1 DEF vars
    <2>2. Tables' /\ Apart'
      BY <2>1 DEF TimelineInv, Tables, Apart, Known
    <2> QED
      BY <2>1, <2>2 DEF TimelineInv
  <1>2. CASE \E o \in Origins : Extract(o)
    BY <1>2, ExtractRight
  <1>3. CASE \E r \in Requests : Curate(r) \/ Commit(r) \/ Rollback(r)
    <2> PICK r \in Requests : Curate(r) \/ Commit(r) \/ Rollback(r)
      BY <1>3
    <2>1. CASE Commit(r)
      BY <2>1, CommitRight
    <2>2. CASE Rollback(r)
      BY <2>2, RollbackRight
    <2>3. CASE CreateEvent(r)
      BY <2>3, CreateRight
    <2>4. CASE \E i \in Ids : UpdateEvent(r, i) \/ DeleteEvent(r, i) \/ SetPinned(r, i)
      BY <2>4, UpdateRight
    <2>5. CASE \E i \in Ids : SetVerification(r, i) \/ SplitEvent(r, i)
      BY <2>5, UpdateRight, SplitRight
    <2>6. CASE \E i \in Ids, ids \in SUBSET Ids : MergeEvents(r, i, ids)
      BY <2>6, MergeRight
    <2>7. CASE Ingest(r)
      BY <2>7, IngestRight
    <2> QED
      BY <2>1, <2>2, <2>3, <2>4, <2>5, <2>6, <2>7 DEF Curate
  <1> QED
    BY <1>1, <1>2, <1>3 DEF Next

LEMMA Always == Spec => []TimelineInv
  BY InitRight, NextRight, PTL DEF Spec

(* The type invariant: rows, columns to write and new rows stay in their   *)
(* types whatever requests overlap. *)
THEOREM TypeCorrect == Spec => []TypeOK
  <1>1. TimelineInv => TypeOK
    <2> SUFFICES ASSUME TimelineInv PROVE TypeOK
      OBVIOUS
    <2>1. ASSUME NEW r \in Requests
          PROVE  /\ req[r].op \in Operations \cup {"none"}
                 /\ req[r].target \in Ids \cup {NoId}
                 /\ DOMAIN req[r].changes \subseteq Known
                 /\ \A i \in DOMAIN req[r].changes : DOMAIN req[r].changes[i] \subseteq Columns
                 /\ DOMAIN req[r].inserts \subseteq Ids
                 /\ \A i \in DOMAIN req[r].inserts : req[r].inserts[i] \in Row
      <3> DEFINE j == req[r]
      <3>1. IsRequest(j) /\ JobRight(j, event, raw, contested)
        BY DEF TimelineInv
      <3> HIDE DEF j
      <3>2. Writes(j["op"]) \subseteq Columns
        BY <3>1 DEF Writes, IsRequest, Operations, Columns
      <3>3. /\ j["op"] \in Operations \cup {"none"} /\ j["target"] \in Ids \cup {NoId}
            /\ DOMAIN j["changes"] \subseteq Known
            /\ \A i \in DOMAIN j["changes"] : DOMAIN j["changes"][i] \subseteq Columns
            /\ DOMAIN j["inserts"] \subseteq Ids
            /\ \A i \in DOMAIN j["inserts"] : j["inserts"][i] \in Row
        BY <3>1, <3>2 DEF IsRequest, IsChange, JobRight, New, Known
      <3> QED
        BY <3>3 DEF j
    <2> QED
      BY <2>1 DEF TypeOK, TimelineInv, Tables
  <1> QED
    BY <1>1, Always, PTL

(* One event per extraction row, removed ones included: whatever overlaps, *)
(* only a row that two ingests, or an ingest and a pipeline run, were      *)
(* mirroring at the same time can have two. *)
THEOREM MirrorsAlwaysOne == Spec => []OneMirrorPerOrigin
  <1>1. TimelineInv => OneMirrorPerOrigin
    BY DEF TimelineInv, RowsRight, OneMirrorPerOrigin, Known
  <1> QED
    BY <1>1, Always, PTL

(* The flag that hides an event and the pointer to its primary agree, but  *)
(* for events that two requests were writing at the same time. *)
THEOREM FlagsAlwaysAgree == Spec => []MergeFlagsAgree
  <1>1. TimelineInv => MergeFlagsAgree
    BY DEF TimelineInv, RowsRight, MergeFlagsAgree, Known, Flags
  <1> QED
    BY <1>1, Always, PTL

(* Only a commit or a pipeline run writes events. *)
LEMMA WhoWrites ==
    ASSUME Next, ~ UNCHANGED event
    PROVE  (\E r \in Requests : Commit(r)) \/ (\E o \in Origins : Extract(o))
  BY ZenonT(30) DEF Next, Curate, CreateEvent, UpdateEvent, DeleteEvent, SetPinned, SetVerification,
         MergeEvents, SplitEvent, Ingest, Begin, Rollback

(* It adds events and leaves those there are. *)
LEMMA ExtractKeeps ==
    ASSUME TimelineInv, NEW o \in Origins, Extract(o)
    PROVE  /\ UNCHANGED req
           /\ \A i \in Known : i \in DOMAIN event' /\ event'[i] = event[i]
           /\ \A i \in DOMAIN event' \ Known : New(event'[i])
  <1>1. UNCHANGED req
    BY DEF Extract
  <1>2. CASE UNCHANGED event
    BY <1>1, <1>2 DEF Known
  <1>3. CASE ~ UNCHANGED event
    <2>1. PICK rows \in SUBSET Unmirrored : \E new \in Mirrors(rows \cup {o}) :
             event' = [i \in Known \cup DOMAIN new |->
                          IF i \in DOMAIN new THEN new[i] ELSE event[i]]
      BY <1>3 DEF Extract
    <2>2. PICK new \in Mirrors(rows \cup {o}) :
             event' = [i \in Known \cup DOMAIN new |->
                          IF i \in DOMAIN new THEN new[i] ELSE event[i]]
      BY <2>1
    <2>3. rows \cup {o} \in SUBSET Origins
      BY DEF Unmirrored, TimelineInv, Tables
    <2>4. DOMAIN new \subseteq Unused /\ \A i \in DOMAIN new : New(new[i])
      BY <2>3, MirrorsAre
    <2>5. DOMAIN new \cap Known = {}
      BY <2>4 DEF Unused
    <2> QED
      BY <1>1, <2>2, <2>4, <2>5
  <1> QED
    BY <1>2, <1>3

(* A verdict on an event changes only when a verification request for that *)
(* event commits. *)
THEOREM VerdictsAlwaysStand == Spec => VerdictsStand
  <1> DEFINE Given == \A i \in Known : event'[i].verdict # event[i].verdict =>
                \E r \in Requests : req[r].op = "verify" /\ req[r].target = i /\ req'[r] = Idle
  <1>1. TimelineInv /\ [Next]_vars => [Given]_vars
    <2> SUFFICES ASSUME TimelineInv, Next, NEW i \in Known, event'[i].verdict # event[i].verdict
                 PROVE  \E r \in Requests :
                           req[r].op = "verify" /\ req[r].target = i /\ req'[r] = Idle
      BY DEF vars
    <2>1. CASE \E o \in Origins : Extract(o)
      <3> PICK o \in Origins : Extract(o)
        BY <2>1
      <3> QED
        BY ExtractKeeps
    <2>2. CASE \E r \in Requests : Commit(r)
      <3> PICK r \in Requests : Commit(r)
        BY <2>2
      <3> DEFINE j == req[r]
      <3>1. /\ Written(j["changes"], j["inserts"], event, event')
            /\ Writable(j["changes"], j["inserts"], event, raw, contested)
            /\ IsRequest(j)
        BY CommitIs, RequestWritable DEF TimelineInv
      <3>2. req'[r] = Idle
        BY DEF Commit, TimelineInv, Tables
      <3> HIDE DEF j
      <3>3. i \in DOMAIN j["changes"]
        BY <3>1 DEF Written, Known
      <3>4. event'[i] = Patched(event[i], j["changes"][i])
        BY <3>1, <3>3 DEF Written
      <3>5. "verdict" \in DOMAIN j["changes"][i]
        BY <3>4, PatchedIs DEF Columns
      <3>6. IsChange(j["op"], j["target"], i, j["changes"][i])
        BY <3>1, <3>3 DEF IsRequest
      <3>7. "verdict" \in Writes(j["op"]) => j["op"] = "verify"
        BY <3>1 DEF Writes, IsRequest, Operations
      <3>8. j["op"] = "verify" /\ j["target"] = i
        BY <3>5, <3>6, <3>7 DEF IsChange
      <3> QED
        BY <3>2, <3>8 DEF j
    <2> QED
      BY <2>1, <2>2, WhoWrites
  <1>2. Spec => [][Given]_vars
    BY <1>1, Always, PTL DEF Spec
  <1> QED
    BY <1>2 DEF VerdictsStand

(* When a merge commits, its primary has all the tags of the events that   *)
(* went into it, its own included. *)
THEOREM TagsAlwaysFold == Spec => MergeFoldsTags
  <1> DEFINE Folds == \A r \in Requests :
          req[r].op = "merge" /\ event' # event /\ req'[r] = Idle =>
              \A i \in DOMAIN req[r].changes :
                  {i, req[r].target} \cap contested = {} =>
                      event[i].tags \subseteq event'[req[r].target].tags
  <1>1. TimelineInv /\ [Next]_vars => [Folds]_vars
    <2> SUFFICES ASSUME TimelineInv, Next, NEW r \in Requests,
                        req[r].op = "merge", event' # event, req'[r] = Idle,
                        NEW i \in DOMAIN req[r].changes,
                        {i, req[r].target} \cap contested = {}
                 PROVE  event[i].tags \subseteq event'[req[r].target].tags
      BY DEF vars
    <2>1. req[r] # Idle
      BY DEF Idle
    <2>2. Commit(r)
      <3>1. \A o \in Origins : ~ Extract(o)
        BY <2>1, ExtractKeeps
      <3>2. ASSUME NEW s \in Requests, Commit(s)
            PROVE  s = r
        BY <2>1, <3>2 DEF Commit, TimelineInv, Tables
      <3> QED
        BY <3>1, <3>2, WhoWrites
    <2> DEFINE j == req[r]
    <2>3. /\ Written(j["changes"], j["inserts"], event, event')
          /\ JobRight(j, event, raw, contested)
      BY <2>2, CommitIs DEF TimelineInv
    <2>4. j["op"] = "merge" /\ i \in DOMAIN j["changes"]
          /\ i \notin contested /\ j["target"] \notin contested
      OBVIOUS
    <2> HIDE DEF j
    <2>5. /\ j["target"] \in DOMAIN j["changes"]
          /\ event[i]["tags"] \subseteq
                Patched(event[j["target"]], j["changes"][j["target"]])["tags"]
      BY <2>3, <2>4 DEF JobRight
    <2>6. event[i]["tags"] \subseteq event'[j["target"]]["tags"]
      BY <2>3, <2>5 DEF Written
    <2> QED
      BY <2>6 DEF j
  <1>2. Spec => [][Folds]_vars
    BY <1>1, Always, PTL DEF Spec
  <1> QED
    BY <1>2 DEF MergeFoldsTags

-----------------------------------------------------------------------------
(* The timeline implements TimelineView. *)

(* What a row shows. *)
Shows(row) == IF row["deleted"] THEN "deleted" ELSE IF row["merged"] THEN "hidden" ELSE "visible"

LEMMA ViewIs ==
    /\ View \in [Ids -> {"none", "deleted", "hidden", "visible"}]
    /\ \A i \in Ids : View[i] = IF i \in Known THEN Shows(event[i]) ELSE "none"
    /\ View' \in [Ids -> {"none", "deleted", "hidden", "visible"}]
    /\ \A i \in Ids : View'[i] = IF i \in DOMAIN event' THEN Shows(event'[i]) ELSE "none"
  BY DEF View, Shows, Known

(* One abstract step moves all events that do not keep what they show. *)
LEMMA Moves ==
    ASSUME NEW from, NEW to,
           \A i \in Ids : View'[i] = View[i] \/ (View[i] = from /\ View'[i] = to)
    PROVE  \E S \in SUBSET Ids : Abstract!Move(S, from, to)
  <1> DEFINE S == {i \in Ids : View[i] = from /\ View'[i] = to}
  <1>1. \A i \in S : View[i] = from
    OBVIOUS
  <1>2. \A i \in Ids : View'[i] = IF i \in S THEN to ELSE View[i]
    OBVIOUS
  <1>3. View' = [i \in Ids |-> IF i \in S THEN to ELSE View[i]]
    <2> HIDE DEF S
    <2> QED
      BY <1>2, ViewIs
  <1>4. Abstract!Move(S, from, to)
    BY <1>1, <1>3 DEF Abstract!Move
  <1> QED
    BY <1>4

LEMMA Removes ==
    ASSUME NEW k \in Ids,
           \A i \in Ids : View'[i] = View[i] \/ (i = k /\ View'[i] = "deleted")
    PROVE  UNCHANGED View \/ View[k] = "none" \/ Abstract!Remove(k)
  <1>1. CASE View'[k] = View[k]
    BY <1>1, ViewIs
  <1>2. CASE View'[k] # View[k]
    <2>1. View'[k] = "deleted" /\ View[k] \in {"none", "hidden", "visible"}
      BY <1>2, ViewIs
    <2>2. View' = [i \in Ids |-> IF i \in {k} THEN "deleted" ELSE View[i]]
      BY <2>1, ViewIs
    <2> QED
      BY <2>1, <2>2 DEF Abstract!Remove, Abstract!Move
  <1> QED
    BY <1>1, <1>2

(* What the commit of a request makes of an event that was there. *)
LEMMA CommitShows ==
    ASSUME TimelineInv, NEW r \in Requests, Commit(r), NEW i \in Known
    PROVE  LET was == Shows(event[i])
               is == Shows(event'[i])
               op == req[r]["op"]
           IN  \/ is = was
               \/ op = "delete" /\ i = req[r]["target"] /\ is = "deleted"
               \/ op = "merge" /\ was = "visible" /\ is = "hidden"
               \/ op = "split" /\ was = "hidden" /\ is = "visible"
  <1> DEFINE j == req[r]
  <1>1. /\ Written(j["changes"], j["inserts"], event, event')
        /\ IsRequest(j)
    BY CommitIs DEF TimelineInv
  <1> HIDE DEF j
  <1>2. CASE i \notin DOMAIN j["changes"]
    BY <1>1, <1>2 DEF Written, Known
  <1>3. CASE i \in DOMAIN j["changes"]
    <2> DEFINE columns == j["changes"][i]
               old == event[i]
               new == event'[i]
               op == j["op"]
    <2>1. new = Patched(old, columns) /\ old \in Row
      BY <1>1, <1>3 DEF Written, TimelineInv, Tables
    <2>2. IsChange(op, j["target"], i, columns) /\ op \in Operations \cup {"none"}
      BY <1>1, <1>3 DEF IsRequest
    <2> HIDE DEF columns, old, new, op
    <2>3. \A c \in {"deleted", "merged"} :
             new[c] = IF c \in DOMAIN columns THEN columns[c] ELSE old[c]
      BY <2>1, PatchedIs DEF Columns
    <2>4. old["deleted"] \in BOOLEAN /\ old["merged"] \in BOOLEAN
      BY <2>1, RowIs
    <2>5. CASE op = "delete"
      <3>1. "merged" \notin DOMAIN columns /\ i = j["target"]
        BY <2>2, <2>5 DEF IsChange, Writes
      <3>2. "deleted" \in DOMAIN columns => columns["deleted"] = TRUE
        BY <2>2 DEF IsChange
      <3>3. Shows(new) \in {Shows(old), "deleted"}
        BY <2>3, <2>4, <3>1, <3>2 DEF Shows
      <3> QED
        BY <2>5, <3>1, <3>3 DEF new, old, op, j
    <2>6. CASE op \in {"merge", "split"}
      <3>1. "deleted" \notin DOMAIN columns
        BY <2>2, <2>6 DEF IsChange, Writes
      <3>2. "merged" \in DOMAIN columns => columns["merged"] = (op = "merge")
        BY <2>2 DEF IsChange
      <3>3. \/ Shows(new) = Shows(old)
            \/ op = "merge" /\ Shows(old) = "visible" /\ Shows(new) = "hidden"
            \/ op = "split" /\ Shows(old) = "hidden" /\ Shows(new) = "visible"
        BY <2>3, <2>4, <2>6, <3>1, <3>2 DEF Shows
      <3> QED
        BY <3>3 DEF new, old, op, j
    <2>7. CASE op \notin {"delete", "merge", "split"}
      <3>1. "deleted" \notin DOMAIN columns /\ "merged" \notin DOMAIN columns
        BY <2>2, <2>7 DEF IsChange, Writes, Operations
      <3>2. Shows(new) = Shows(old)
        BY <2>3, <3>1 DEF Shows
      <3> QED
        BY <3>2 DEF new, old
    <2> QED
      BY <2>5, <2>6, <2>7
  <1> QED
    BY <1>2, <1>3

LEMMA NewShows ==
    ASSUME NEW row, New(row)
    PROVE  Shows(row) = "visible"
  BY DEF New, Shows

LEMMA CommitImplements ==
    ASSUME TimelineInv, NEW r \in Requests, Commit(r)
    PROVE  [Abstract!Next]_View
  <1> DEFINE j == req[r]
  <1>1. /\ Written(j["changes"], j["inserts"], event, event')
        /\ DOMAIN event' = Known \cup DOMAIN j["inserts"]
        /\ IsRequest(j)
        /\ DOMAIN j["inserts"] \cap Known = {}
    BY CommitIs DEF TimelineInv, JobRight, Known
  <1>2. ASSUME NEW i \in Ids
        PROVE  CASE i \in Known -> View[i] = Shows(event[i]) /\ View'[i] = Shows(event'[i])
                 [] i \in DOMAIN j["inserts"] -> View[i] = "none" /\ View'[i] = "visible"
                 [] OTHER -> View'[i] = View[i]
    <2>1. CASE i \in Known
      BY <2>1, <1>1, ViewIs
    <2>2. CASE i \in DOMAIN j["inserts"]
      <3>1. event'[i] = j["inserts"][i] /\ New(j["inserts"][i]) /\ i \notin Known
        BY <2>2, <1>1 DEF Written, IsRequest
      <3> QED
        BY <2>2, <3>1, <1>1, ViewIs, NewShows
    <2>3. CASE i \notin Known \cup DOMAIN j["inserts"]
      BY <2>3, <1>1, ViewIs
    <2> QED
      BY <2>1, <2>2, <2>3
  <1>3. CASE j["op"] \in {"create", "ingest"}
    <2>1. \A i \in Known : Shows(event'[i]) = Shows(event[i])
      BY <1>3, CommitShows
    <2>2. \A i \in Ids : View'[i] = View[i] \/ (View[i] = "none" /\ View'[i] = "visible")
      BY <1>2, <2>1
    <2>3. \E S \in SUBSET Ids : Abstract!Move(S, "none", "visible")
      BY <2>2, Moves
    <2> QED
      BY <2>3 DEF Abstract!Next, Abstract!Appear
  <1>4. CASE j["op"] \notin {"create", "ingest"}
    <2>1. DOMAIN j["inserts"] = {}
      BY <1>1, <1>4 DEF IsRequest
    <2>2. CASE j["op"] = "merge"
      <3>1. \A i \in Ids : View'[i] = View[i] \/ (View[i] = "visible" /\ View'[i] = "hidden")
        BY <1>2, <2>1, <2>2, CommitShows
      <3>2. \E S \in SUBSET Ids : Abstract!Move(S, "visible", "hidden")
        BY <3>1, Moves
      <3> QED
        BY <3>2 DEF Abstract!Next, Abstract!FoldAway
    <2>3. CASE j["op"] = "split"
      <3>1. \A i \in Ids : View'[i] = View[i] \/ (View[i] = "hidden" /\ View'[i] = "visible")
        BY <1>2, <2>1, <2>3, CommitShows
      <3>2. \E S \in SUBSET Ids : Abstract!Move(S, "hidden", "visible")
        BY <3>1, Moves
      <3> QED
        BY <3>2 DEF Abstract!Next, Abstract!BringBack
    <2>4. CASE j["op"] = "delete" /\ j["target"] \in Known
      <3>1. \A i \in Ids : View'[i] = View[i] \/ (i = j["target"] /\ View'[i] = "deleted")
        BY <1>2, <2>1, <2>4, CommitShows
      <3>2. j["target"] \in Ids /\ View[j["target"]] # "none"
        BY <2>4, ViewIs DEF Shows, TimelineInv, Tables
      <3>3. UNCHANGED View \/ Abstract!Remove(j["target"])
        BY <3>1, <3>2, Removes
      <3> QED
        BY <3>2, <3>3 DEF Abstract!Next
    <2>5. CASE j["op"] \notin {"merge", "split", "delete"} \/ j["target"] \notin Known
      <3>1. j["op"] \notin {"merge", "split"} => \A i \in Ids : View'[i] = View[i]
        BY <1>2, <2>1, <2>5, CommitShows
      <3>2. j["op"] \notin {"merge", "split"} => UNCHANGED View
        BY <3>1, ViewIs
      <3> QED
        BY <2>2, <2>3, <3>2
    <2> QED
      BY <2>2, <2>3, <2>4, <2>5
  <1> QED
    BY <1>3, <1>4

LEMMA ExtractImplements ==
    ASSUME TimelineInv, NEW o \in Origins, Extract(o)
    PROVE  [Abstract!Next]_View
  <1>1. \A i \in Ids : View'[i] = View[i] \/ (View[i] = "none" /\ View'[i] = "visible")
    <2> TAKE i \in Ids
    <2>1. CASE i \in Known
      BY <2>1, ExtractKeeps, ViewIs
    <2>2. CASE i \in DOMAIN event' \ Known
      BY <2>2, ExtractKeeps, ViewIs, NewShows
    <2>3. CASE i \notin DOMAIN event' \cup Known
      BY <2>3, ViewIs
    <2> QED
      BY <2>1, <2>2, <2>3
  <1>2. \E S \in SUBSET Ids : Abstract!Move(S, "none", "visible")
    BY <1>1, Moves
  <1> QED
    BY <1>2 DEF Abstract!Next, Abstract!Appear

(* Whatever requests overlap and whichever of them fail, an event appears  *)
(* once, is folded away or brought back, and stays removed. *)
THEOREM TimelineImplementsView == Spec => ImplementsView
  <1>1. Init => Abstract!Init
    BY DEF Init, NoChange, View, Known, Abstract!Init
  <1>2. TimelineInv /\ [Next]_vars => [Abstract!Next]_View
    <2> SUFFICES ASSUME TimelineInv, [Next]_vars PROVE [Abstract!Next]_View
      OBVIOUS
    <2>1. CASE UNCHANGED event
      BY <2>1 DEF View, Known
    <2>2. CASE ~ UNCHANGED event
      <3>1. Next
        BY <2>2 DEF vars
      <3> QED
        BY <2>2, <3>1, WhoWrites, CommitImplements, ExtractImplements
    <2> QED
      BY <2>1, <2>2
  <1>3. Spec => Abstract!Spec
    BY <1>1, <1>2, Always, PTL DEF Spec, Abstract!Spec
  <1> QED
    BY <1>3 DEF ImplementsView

=============================================================================
