---------------------- MODULE InvestigationReportsProofs ----------------------
(* Reports under any number of overlapping requests: rows keep their types, *)
(* a hash describes the stored content unless that was to be emptied, and   *)
(* what is published has been generated and approved.                       *)
EXTENDS InvestigationReports, TLAPS

(***************************************************************************)
(* The inductive invariant.  A commit writes the difference between two    *)
(* copies over a row that others may have changed since, so the invariant  *)
(* relates a request's copies to each other (Change) and to the row as it  *)
(* is now (Kept): a hash and an approval, once there, are never taken away.*)
(***************************************************************************)

(* A status is only given to a row that deserves it. *)
Solid(row) ==
    /\ row["status"] \in {"ready", "published"} => row["hash"] # NoHash
    /\ row["status"] = "published" => row["approved"]

Matched(row) == New(row) \/ row["hash"] = row["content"]

SameContent(old, new) == new["content"] = old["content"] /\ new["hash"] = old["hash"]

(* What a request may do to its copy. *)
Change(old, new) ==
    /\ SameContent(old, new) \/ new["hash"] = new["content"]
    /\ old["approved"] => new["approved"]
    /\ new["status"] # old["status"] => Solid(new)

(* What stays true of the row after it was copied, whoever writes it. *)
Kept(old, row) ==
    /\ old["hash"] # NoHash => row["hash"] # NoHash
    /\ old["approved"] => row["approved"]

IsJob(j, rows, out) ==
    /\ j \in Job
    /\ j["id"] \in DOMAIN rows
    /\ Kept(j["old"], rows[j["id"]])
    /\ j["id"] \notin out => Matched(j["old"])
    /\ j["phase"] # "collect" => Change(j["old"], j["new"]) /\ SameContent(j["old"], j["new"])
    /\ j["phase"] = "begin" => j["new"]["status"] = "generating"
    /\ j["phase"] = "collect" => j["old"]["status"] = "generating"

RowsRight ==
    \A i \in Known : Solid(report[i]) /\ (i \notin blanked => Matched(report[i]))

JobsRight == \A q \in Requests : req[q] # Idle => IsJob(req[q], report, blanked)

ReportInv ==
    /\ TypeOK
    /\ DOMAIN req = Requests
    /\ RowsRight
    /\ JobsRight

-----------------------------------------------------------------------------
(* Rows. *)

IsRow(row) ==
    /\ DOMAIN row = Columns
    /\ row["status"] \in Statuses /\ row["version"] \in Nat \ {0}
    /\ row["parent"] \in Ids \cup {NoId} /\ row["config"] \in Configs
    /\ row["content"] \in Content /\ row["hash"] \in Content \cup {NoHash}
    /\ row["approved"] \in BOOLEAN /\ row["deleted"] \in BOOLEAN

LEMMA RowIs ==
    ASSUME NEW row \in Row
    PROVE  IsRow(row)
  BY DEF Row, IsRow, Columns

(* The row that an UPDATE of the changed columns leaves. *)
Patch(row, old, new) == [c \in Columns |-> IF new[c] # old[c] THEN new[c] ELSE row[c]]

LEMMA PatchIs ==
    ASSUME NEW row \in Row, NEW old \in Row, NEW new \in Row
    PROVE  Patch(row, old, new) \in Row
  <1> DEFINE p == Patch(row, old, new)
  <1>1. p = [c \in Columns |-> p[c]] /\ \A c \in Columns : p[c] \in {new[c], row[c]}
    BY DEF Patch
  <1> HIDE DEF p
  <1>2. p \in Row
    BY <1>1 DEF Row, Columns
  <1> QED
    BY <1>2 DEF p

(* The core: a change that was right for the copy is right for the row,    *)
(* however much the row has changed since. *)
LEMMA PatchRight ==
    ASSUME NEW row \in Row, NEW old \in Row, NEW new \in Row,
           Solid(row), Change(old, new), Kept(old, row),
           NEW p, p = Patch(row, old, new)
    PROVE  Solid(p) /\ Kept(row, p) /\ Kept(new, p)
  <1>1. \A c \in Columns : p[c] = IF new[c] # old[c] THEN new[c] ELSE row[c]
    BY DEF Patch
  <1>2. {"status", "content", "hash", "approved"} \subseteq Columns
    BY DEF Columns
  <1>3. IsRow(row) /\ IsRow(old) /\ IsRow(new)
    BY RowIs
  <1>4. new["hash"] = old["hash"] \/ new["hash"] # NoHash
    BY <1>3, ReportAssumption DEF Change, SameContent, IsRow, Content
  <1>5. Kept(row, p) /\ Kept(new, p)
    <2>1. row["hash"] # NoHash \/ new["hash"] # NoHash => p["hash"] # NoHash
      BY <1>1, <1>2, <1>4 DEF Kept
    <2>2. row["approved"] \/ new["approved"] => p["approved"]
      BY <1>1, <1>2, <1>3 DEF Change, Kept, IsRow
    <2> QED
      BY <2>1, <2>2 DEF Kept
  <1>6. Solid(p)
    <2>1. CASE new["status"] # old["status"]
      BY <1>1, <1>2, <1>5, <2>1 DEF Change, Solid, Kept
    <2>2. CASE new["status"] = old["status"]
      BY <1>1, <1>2, <1>5, <2>2 DEF Solid, Kept
    <2> QED
      BY <2>1, <2>2
  <1> QED
    BY <1>5, <1>6

(* An UPDATE that writes a hash but not the content it is the hash of,     *)
(* because that was loaded, over a row that has another content. *)
BlankUpdate(row, old, new) ==
    /\ new["content"] = Empty /\ old["content"] = Empty /\ row["content"] # Empty
    /\ new["hash"] # old["hash"]

(* Any other UPDATE keeps content and hash together. *)
LEMMA PatchMatched ==
    ASSUME NEW row \in Row, NEW old \in Row, NEW new \in Row,
           Matched(row), Matched(old), Change(old, new), ~BlankUpdate(row, old, new),
           NEW p, p = Patch(row, old, new)
    PROVE  Matched(p)
  <1>1. /\ p["content"] = IF new["content"] # old["content"] THEN new["content"] ELSE row["content"]
        /\ p["hash"] = IF new["hash"] # old["hash"] THEN new["hash"] ELSE row["hash"]
    BY DEF Patch, Columns
  <1>2. CASE SameContent(old, new)
    BY <1>1, <1>2 DEF SameContent, Matched, New
  <1>3. CASE new["hash"] = new["content"] /\ old["hash"] = old["content"]
    BY <1>1, <1>3 DEF Matched, New
  <1>4. CASE new["hash"] = new["content"] /\ New(old)
    <2>1. IsRow(new)
      BY RowIs
    <2>2. new["hash"] # NoHash /\ old["hash"] = NoHash /\ old["content"] = Empty
      BY <1>4, <2>1, ReportAssumption DEF IsRow, Content, New
    <2> QED
      BY <1>1, <1>4, <2>2 DEF Matched, BlankUpdate
  <1> QED
    BY <1>2, <1>3, <1>4 DEF Change, Matched

(* Staying as it was is staying. *)
LEMMA KeptTransitive ==
    ASSUME NEW a, NEW b, NEW c, Kept(a, b), Kept(b, c)
    PROVE  Kept(a, c)
  BY DEF Kept

-----------------------------------------------------------------------------
(* The copies of the requests. *)

LEMMA GenerateChange ==
    ASSUME NEW row \in Row, NEW config \in Configs,
           NEW new, new = [row EXCEPT !.status = "generating", !.config = config]
    PROVE  /\ new \in Row /\ new["status"] = "generating"
           /\ Change(row, new) /\ SameContent(row, new)
  BY DEF Row, Statuses, Change, SameContent, Solid

LEMMA PublishChange ==
    ASSUME NEW row \in Row, Solid(row), row["status"] = "ready",
           NEW new, new = [row EXCEPT !.status = "published", !.approved = TRUE]
    PROVE  new \in Row /\ Change(row, new) /\ SameContent(row, new)
  BY DEF Row, Statuses, Change, SameContent, Solid

LEMMA DeleteChange ==
    ASSUME NEW row \in Row, NEW new, new = [row EXCEPT !.deleted = TRUE]
    PROVE  new \in Row /\ Change(row, new) /\ SameContent(row, new)
  BY DEF Row, Change, SameContent

LEMMA FailedChange ==
    ASSUME NEW row \in Row
    PROVE  Failed(row) \in Row /\ Change(row, Failed(row))
  BY DEF Row, Statuses, Change, SameContent, Solid, Failed

LEMMA FilledChange ==
    ASSUME NEW row \in Row, NEW data \in Data
    PROVE  Filled(row, data) \in Row /\ Change(row, Filled(row, data))
  <1> DEFINE content == Collected(row.config, data)
  <1>1. row.config \in Configs
    BY DEF Row
  <1>2. content \in Content /\ content # NoHash
    BY <1>1, ReportAssumption DEF Content, Collected
  <1>3. Filled(row, data) = [row EXCEPT !.status = "ready", !.content = content, !.hash = content]
    BY DEF Filled
  <1> HIDE DEF content
  <1> QED
    BY <1>2, <1>3 DEF Row, Statuses, Change, SameContent, Solid

-----------------------------------------------------------------------------
(* One row is written. *)

(* A write and what it does to the history. *)
WriteOf(i, old, new) ==
    /\ report' = Write(i, old, new)
    /\ blanked' = IF BlankUpdate(report[i], old, new) THEN blanked \cup {i} ELSE blanked

LEMMA WriteRight ==
    ASSUME ReportInv, NEW i \in Known, NEW old \in Row, NEW new \in Row,
           Change(old, new), Kept(old, report[i]), i \notin blanked => Matched(old),
           WriteOf(i, old, new)
    PROVE  /\ Known' = Known /\ blanked \subseteq blanked' /\ blanked' \subseteq Known'
           /\ \A k \in Known : report'[k] \in Row /\ Kept(report[k], report'[k])
           /\ RowsRight'
           /\ Kept(new, report'[i])
  <1> DEFINE p == Patch(report[i], old, new)
  <1>1. /\ \A k \in Known : report[k] \in Row
        /\ Solid(report[i]) /\ (i \notin blanked => Matched(report[i]))
    BY DEF ReportInv, TypeOK, RowsRight
  <1>2. p \in Row /\ Solid(p) /\ Kept(report[i], p) /\ Kept(new, p)
    BY <1>1, PatchIs, PatchRight
  <1>3. i \notin blanked' => Matched(p)
    BY <1>1, PatchMatched DEF WriteOf
  <1>4. report' = [report EXCEPT ![i] = p]
    BY DEF WriteOf, Write, Patch
  <1> HIDE DEF p
  <1>5. /\ Known' = Known /\ report'[i] = p
        /\ \A k \in Known : k # i => report'[k] = report[k]
    BY <1>4 DEF Known
  <1>6. \A k \in Known : report'[k] \in Row /\ Kept(report[k], report'[k])
    BY <1>1, <1>2, <1>5 DEF Kept
  <1>7. blanked \subseteq blanked' /\ blanked' \subseteq Known'
    BY <1>5 DEF WriteOf, ReportInv, TypeOK
  <1>8. ASSUME NEW k \in Known
        PROVE  Solid(report'[k]) /\ (k \notin blanked' => Matched(report'[k]))
    <2>1. CASE k = i
      BY <1>2, <1>3, <1>5, <2>1
    <2>2. CASE k # i
      BY <1>5, <1>7, <2>2 DEF ReportInv, RowsRight
    <2> QED
      BY <2>1, <2>2
  <1>9. RowsRight'
    BY <1>5, <1>8 DEF RowsRight, Matched, New
  <1> QED
    BY <1>2, <1>5, <1>6, <1>7, <1>9

(* A request that is left alone stays right when rows only gain. *)
LEMMA JobStays ==
    ASSUME NEW j, IsJob(j, report, blanked), Known \subseteq Known', blanked \subseteq blanked',
           \A k \in Known : Kept(report[k], report'[k])
    PROVE  IsJob(j, report', blanked')
  BY KeptTransitive DEF IsJob, Known

-----------------------------------------------------------------------------
(* The steps. *)

LEMMA TakeRight ==
    ASSUME ReportInv, NEW op \in Operations, Take(op)
    PROVE  left' \in [Operations -> Nat]
  BY DEF ReportInv, TypeOK, Take

LEMMA InsertRight ==
    ASSUME ReportInv, NEW op \in Operations, Take(op),
           NEW version \in Nat \ {0}, NEW parent \in Ids \cup {NoId}, NEW config \in Configs,
           Insert(version, parent, config)
    PROVE  ReportInv'
  <1> DEFINE new == [status |-> "draft", version |-> version, parent |-> parent,
                     config |-> config, content |-> Empty, hash |-> NoHash,
                     approved |-> FALSE, deleted |-> FALSE]
  <1>1. PICK i \in Ids \ Known :
              report' = [x \in Known \cup {i} |-> IF x # i THEN report[x] ELSE new]
    BY DEF Insert
  <1>2. new \in Row /\ Matched(new) /\ Solid(new)
    BY DEF Row, Statuses, Content, Solid, Matched, New
  <1> HIDE DEF new
  <1>3. /\ Known' = Known \cup {i} /\ report'[i] = new
        /\ \A k \in Known : report'[k] = report[k]
    BY <1>1 DEF Known
  <1>4. UNCHANGED <<exports, req, blanked>> /\ left' \in [Operations -> Nat]
    BY TakeRight DEF Insert
  <1>5. TypeOK'
    BY <1>2, <1>3, <1>4 DEF ReportInv, TypeOK
  <1>6. RowsRight'
    BY <1>2, <1>3, <1>4 DEF ReportInv, RowsRight, Matched, New
  <1>7. JobsRight'
    BY <1>3, <1>4 DEF ReportInv, JobsRight, IsJob, Known
  <1> QED
    BY <1>4, <1>5, <1>6, <1>7 DEF ReportInv

LEMMA LoadRight ==
    ASSUME ReportInv, NEW op \in Operations, Take(op), NEW q \in Requests, NEW i \in Known,
           NEW phase \in {"begin", "publish", "delete"}, NEW new \in Row,
           Load(q, i, phase, new), Change(report[i], new), SameContent(report[i], new),
           phase = "begin" => new["status"] = "generating"
    PROVE  ReportInv'
  <1> DEFINE j == [phase |-> phase, id |-> i, old |-> report[i], new |-> new]
  <1>1. /\ UNCHANGED <<report, exports, blanked>> /\ left' \in [Operations -> Nat]
        /\ req' = [req EXCEPT ![q] = j]
    BY TakeRight DEF Load
  <1>2. i \in Ids /\ report[i] \in Row /\ (i \notin blanked => Matched(report[i]))
    BY DEF ReportInv, TypeOK, RowsRight
  <1>3. j \in Job
    BY <1>2 DEF Job, Phases
  <1>4. /\ j["id"] = i /\ j["old"] = report[i] /\ j["new"] = new
        /\ j["phase"] = phase /\ phase # "collect"
    OBVIOUS
  <1> HIDE DEF j
  <1>5. IsJob(j, report, blanked)
    BY <1>2, <1>3, <1>4 DEF IsJob, Kept, Known
  <1>6. TypeOK'
    BY <1>1, <1>3 DEF ReportInv, TypeOK, Known
  <1>7. RowsRight'
    BY <1>1 DEF ReportInv, RowsRight, Matched, New, Known
  <1>8. JobsRight'
    BY <1>1, <1>5 DEF ReportInv, JobsRight
  <1> QED
    BY <1>1, <1>6, <1>7, <1>8 DEF ReportInv

(* A request writes its row and goes on with next. *)
LEMMA StoreRight ==
    ASSUME ReportInv, NEW q \in Requests, req[q] # Idle, NEW new \in Row,
           Change(req[q]["old"], new), WriteOf(req[q]["id"], req[q]["old"], new),
           NEW next, req' = [req EXCEPT ![q] = next], UNCHANGED <<exports, left>>,
           next = Idle \/ IsJob(next, report', blanked')
    PROVE  ReportInv'
  <1> DEFINE i == req[q]["id"]
  <1>1. /\ i \in Known /\ req[q]["old"] \in Row /\ Kept(req[q]["old"], report[i])
        /\ i \notin blanked => Matched(req[q]["old"])
    BY DEF ReportInv, JobsRight, IsJob, Job, Known
  <1>2. /\ Known' = Known /\ blanked \subseteq blanked' /\ blanked' \subseteq Known'
        /\ \A k \in Known : report'[k] \in Row /\ Kept(report[k], report'[k])
        /\ RowsRight'
    BY <1>1, WriteRight
  <1>3. ASSUME NEW p \in Requests, req'[p] # Idle
        PROVE  IsJob(req'[p], report', blanked')
    <2>1. CASE p = q
      BY <1>3, <2>1 DEF ReportInv
    <2>2. CASE p # q
      <3>1. req'[p] = req[p] /\ IsJob(req[p], report, blanked)
        BY <1>3, <2>2 DEF ReportInv, JobsRight
      <3> QED
        BY <1>2, <3>1, JobStays DEF IsJob
    <2> QED
      BY <2>1, <2>2
  <1>4. JobsRight'
    BY <1>3 DEF JobsRight
  <1>5. TypeOK'
    <2>1. \A p \in Requests : req'[p] \in Job \cup {Idle}
      BY <1>3 DEF IsJob
    <2> QED
      BY <1>2, <2>1 DEF ReportInv, TypeOK
  <1> QED
    BY <1>2, <1>4, <1>5 DEF ReportInv

LEMMA BeginGenerationRight ==
    ASSUME ReportInv, NEW q \in Requests, BeginGeneration(q)
    PROVE  ReportInv'
  <1> DEFINE j == req[q]
             next == [j EXCEPT !.phase = "collect", !.old = j.new]
  <1>1. /\ j["phase"] = "begin" /\ j # Idle
        /\ report' = Write(j["id"], j["old"], j["new"])
        /\ req' = [req EXCEPT ![q] = next]
        /\ UNCHANGED <<exports, left, blanked>>
    BY DEF BeginGeneration, Save, Idle
  <1>2. IsJob(j, report, blanked) /\ j \in Job
    BY <1>1 DEF ReportInv, JobsRight, IsJob
  <1>3. /\ Change(j["old"], j["new"]) /\ j["new"]["status"] = "generating"
        /\ j["old"] \in Row /\ j["new"] \in Row /\ j["id"] \in Known
        /\ Kept(j["old"], report[j["id"]]) /\ SameContent(j["old"], j["new"])
        /\ j["id"] \notin blanked => Matched(j["old"])
    BY <1>1, <1>2 DEF IsJob, Job, Known
  <1>4. /\ next \in Job /\ next["phase"] = "collect" /\ next["id"] = j["id"]
        /\ next["old"] = j["new"]
    BY <1>2, <1>3 DEF Job, Phases
  <1>5. WriteOf(j["id"], j["old"], j["new"])
    BY <1>1, <1>3 DEF WriteOf, BlankUpdate, SameContent
  <1>6. Known' = Known /\ Kept(j["new"], report'[j["id"]])
    BY <1>3, <1>5, WriteRight
  <1> HIDE DEF next
  <1>7. j["id"] \notin blanked => Matched(j["new"])
    BY <1>3 DEF Matched, New, SameContent
  <1>8. IsJob(next, report', blanked')
    BY <1>1, <1>3, <1>4, <1>6, <1>7 DEF IsJob, Known
  <1> HIDE DEF j
  <1> QED
    BY <1>1, <1>3, <1>5, <1>8, StoreRight DEF j

LEMMA EndGenerationRight ==
    ASSUME ReportInv, NEW q \in Requests, EndGeneration(q)
    PROVE  ReportInv'
  <1> DEFINE old == req[q]["old"]
  <1>1. PICK new \in {Filled(old, data) : data \in Data} \cup {Failed(old)} :
              WriteOf(req[q]["id"], old, new)
    BY DEF EndGeneration, WriteOf, Blanks, BlankUpdate
  <1>2. req[q] # Idle /\ req' = [req EXCEPT ![q] = Idle] /\ UNCHANGED <<exports, left>>
    BY DEF EndGeneration, Idle
  <1>3. old \in Row
    BY <1>2 DEF ReportInv, JobsRight, IsJob, Job
  <1> HIDE DEF old
  <1>4. new \in Row /\ Change(old, new)
    BY <1>3, FilledChange, FailedChange
  <1> QED
    BY <1>1, <1>2, <1>4, StoreRight DEF old

LEMMA CommitRight ==
    ASSUME ReportInv, NEW q \in Requests, Commit(q)
    PROVE  ReportInv'
  <1>1. /\ req[q]["phase"] \in {"publish", "delete"} /\ req[q] # Idle
        /\ report' = Write(req[q]["id"], req[q]["old"], req[q]["new"])
        /\ req' = [req EXCEPT ![q] = Idle] /\ UNCHANGED <<exports, left, blanked>>
    BY DEF Commit, Save, Idle
  <1>2. /\ req[q]["new"] \in Row /\ Change(req[q]["old"], req[q]["new"])
        /\ SameContent(req[q]["old"], req[q]["new"])
    BY <1>1 DEF ReportInv, JobsRight, IsJob, Job
  <1>3. WriteOf(req[q]["id"], req[q]["old"], req[q]["new"])
    BY <1>1, <1>2 DEF WriteOf, BlankUpdate, SameContent
  <1> QED
    BY <1>1, <1>2, <1>3, StoreRight

LEMMA InitRight ==
    ASSUME Init
    PROVE  ReportInv
  BY ReportAssumption DEF Init, ReportInv, TypeOK, RowsRight, JobsRight, Known

LEMMA NextRight ==
    ASSUME ReportInv, Next
    PROVE  ReportInv'
  <1>1. ASSUME Create
        PROVE  ReportInv'
    BY <1>1, InsertRight DEF Create, Operations
  <1>2. ASSUME NEW i \in Ids, CreateNewVersion(i)
        PROVE  ReportInv'
    <2>1. PICK config \in Configs : Insert(report[i].version + 1, i, config)
      BY <1>2 DEF CreateNewVersion
    <2>2. report[i] \in Row
      BY <1>2 DEF CreateNewVersion, Live, ReportInv, TypeOK
    <2>3. report[i].version + 1 \in Nat \ {0}
      BY <2>2 DEF Row
    <2> QED
      BY <1>2, <2>1, <2>3, InsertRight DEF CreateNewVersion, Operations
  <1>3. ASSUME NEW i \in Ids, Export(i)
        PROVE  ReportInv'
    <2>1. i \in Known /\ UNCHANGED <<report, req, blanked>> /\ left' \in [Operations -> Nat]
      BY <1>3, TakeRight DEF Export, Live, Operations
    <2>2. report[i].content \in Content
      BY <2>1 DEF ReportInv, TypeOK, Row
    <2>3. exports' \subseteq [id : Ids, content : Content]
      BY <1>3, <2>2 DEF Export, ReportInv, TypeOK
    <2> QED
      BY <2>1, <2>3 DEF ReportInv, TypeOK, RowsRight, JobsRight, Matched, New, Known
  <1>4. ASSUME NEW q \in Requests, NEW i \in Ids, Generate(q, i)
        PROVE  ReportInv'
    <2>1. PICK config \in Configs :
                Load(q, i, "begin", [report[i] EXCEPT !.status = "generating", !.config = config])
      BY <1>4 DEF Generate
    <2>2. i \in Known /\ report[i] \in Row
      BY <1>4 DEF Generate, Live, ReportInv, TypeOK
    <2> QED
      <3> DEFINE new == [report[i] EXCEPT !.status = "generating", !.config = config]
      <3>1. /\ new \in Row /\ new["status"] = "generating"
            /\ Change(report[i], new) /\ SameContent(report[i], new)
        BY <2>2, GenerateChange
      <3>2. Load(q, i, "begin", new) /\ Take("generate") /\ "generate" \in Operations
        BY <1>4, <2>1 DEF Generate, Operations
      <3> HIDE DEF new
      <3> QED
        BY <2>2, <3>1, <3>2, LoadRight
  <1>5. ASSUME NEW q \in Requests, NEW i \in Ids, Publish(q, i)
        PROVE  ReportInv'
    <2>1. /\ i \in Known /\ report[i] \in Row
          /\ Solid(report[i]) /\ report[i]["status"] = "ready"
      BY <1>5 DEF Publish, Publishable, Live, ReportInv, TypeOK, RowsRight
    <2> QED
      BY <1>5, <2>1, PublishChange, LoadRight DEF Publish, Operations
  <1>6. ASSUME NEW q \in Requests, NEW i \in Ids, Delete(q, i)
        PROVE  ReportInv'
    <2>1. i \in Known /\ report[i] \in Row
      BY <1>6 DEF Delete, Live, ReportInv, TypeOK
    <2> QED
      BY <1>6, <2>1, DeleteChange, LoadRight DEF Delete, Operations
  <1>7. ASSUME NEW q \in Requests, Proceed(q)
        PROVE  ReportInv'
    BY <1>7, BeginGenerationRight, EndGenerationRight, CommitRight DEF Proceed
  <1>8. ASSUME NEW q \in Requests, Abort(q)
        PROVE  ReportInv'
    <2>1. UNCHANGED <<report, exports, blanked>> /\ left' \in [Operations -> Nat]
          /\ req' = [req EXCEPT ![q] = Idle]
      BY <1>8, TakeRight DEF Abort, Operations
    <2> QED
      BY <2>1 DEF ReportInv, TypeOK, RowsRight, JobsRight, Matched, New, Known
  <1> QED
    BY <1>1, <1>2, <1>3, <1>4, <1>5, <1>6, <1>7, <1>8 DEF Next

LEMMA StutterRight ==
    ASSUME ReportInv, UNCHANGED vars
    PROVE  ReportInv'
  BY DEF vars, ReportInv, TypeOK, RowsRight, JobsRight, Matched, New, Known

LEMMA ReportInvariant == Spec => []ReportInv
  <1>1. Init => ReportInv
    BY InitRight
  <1>2. ReportInv /\ [Next]_vars => ReportInv'
    BY NextRight, StutterRight
  <1> QED
    BY <1>1, <1>2, PTL DEF Spec

-----------------------------------------------------------------------------
(* Every reachable state of the reports is well-typed.                     *)
THEOREM TypeCorrect == Spec => []TypeOK
  <1>1. ReportInv => TypeOK
    BY DEF ReportInv
  <1> QED
    BY <1>1, ReportInvariant, PTL

(* However many generations and other requests overlap, the stored hash is *)
(* that of the stored content: an UPDATE writes both columns or neither,   *)
(* except where the first generation of a report, with every section       *)
(* disabled, ends over the content of another (generate).                  *)
THEOREM HashAlwaysMatches == Spec => []HashMatchesContent
  <1>1. ReportInv => HashMatchesContent
    BY DEF ReportInv, RowsRight, Matched, HashMatchesContent
  <1> QED
    BY <1>1, ReportInvariant, PTL

(* What is published was generated and approved, even while generations    *)
(* and publications of one report overlap (publish, generate).             *)
THEOREM PublishedAlwaysComplete == Spec => []PublishedIsComplete
  <1>1. ReportInv => PublishedIsComplete
    BY DEF ReportInv, RowsRight, Solid, PublishedIsComplete
  <1> QED
    BY <1>1, ReportInvariant, PTL

=============================================================================
