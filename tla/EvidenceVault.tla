---------------------------- MODULE EvidenceVault ----------------------------
(***************************************************************************)
(* The evidence of one case: the upload route, EvidenceService, the files  *)
(* on disk and the custody log.  upload_evidence is a coroutine on the one *)
(* event loop of the API and gives it up only while it streams, so that    *)
(* from its last chunk to its answer no other upload moves.  The other     *)
(* routes are functions that run in threads and interleave with everything.*)
(* What the pipeline does to a stored item is in EvidencePipeline.         *)
(***************************************************************************)
EXTENDS Naturals, Sequences

CONSTANTS
    Uploads,    \* uploaded files; each has a fresh storage path and becomes at most one row
    Contents,   \* what a file may hold; equal contents have equal SHA-256
    Threads,    \* threads of the API that serve the other routes
    Budget,     \* how often each request and each fault may come
    NoFile, Partial, NoRow, NoUpload

Requests == {"update", "star", "verify", "download", "delete"}
Faults == {"tooLarge", "diskError", "crash", "caseRemoval", "tampering"}

ASSUME VaultAssumption ==
    /\ NoFile \notin Contents \cup {Partial}
    /\ Partial \notin Contents
    /\ NoRow \notin [content : Contents, starred : BOOLEAN, deleted : BOOLEAN]
    /\ NoUpload \notin Uploads
    /\ Budget \in [Requests \cup Faults -> Nat]

VARIABLES
    file,       \* what is on disk at the path of each upload
    row,        \* the committed Evidence row of each upload
    custody,    \* custody log of each row
    caseLive,   \* the case is not removed
    upload,     \* where each upload is
    job,        \* request each thread serves, and the row it loaded
    left        \* requests and faults still to come

vars == <<file, row, custody, caseLive, upload, job, left>>

Row == [content : Contents, starred : BOOLEAN, deleted : BOOLEAN]
Entries == {"uploaded", "updated", "verified", "mismatch", "downloaded", "deleted"}
Holding == {"checking", "inserting", "duplicate"}
Phases == {"new", "streaming", "failed", "answered"} \cup Holding
Upload == [phase : Phases, content : Contents, answer : Uploads \cup {NoUpload}]
NoJob == [op |-> "none", id |-> NoUpload]

Stored == {i \in Uploads : row[i] # NoRow}

(* Type invariant. *)
TypeOK ==
    /\ file \in [Uploads -> Contents \cup {NoFile, Partial}]
    /\ row \in [Uploads -> Row \cup {NoRow}]
    /\ custody \in [Uploads -> Seq(Entries)]
    /\ caseLive \in BOOLEAN
    /\ upload \in [Uploads -> Upload]
    /\ job \in [Threads -> [op : Requests, id : Stored] \cup {NoJob}]
    /\ left \in [Requests \cup Faults -> Nat]

Init ==
    /\ file = [u \in Uploads |-> NoFile]
    /\ row = [u \in Uploads |-> NoRow]
    /\ custody = [u \in Uploads |-> <<>>]
    /\ caseLive = TRUE
    /\ upload \in [Uploads -> [phase : {"new"}, content : Contents, answer : {NoUpload}]]
    /\ job = [t \in Threads |-> NoJob]
    /\ left = Budget

Take(what) ==
    /\ left[what] > 0
    /\ left' = [left EXCEPT ![what] = @ - 1]

-----------------------------------------------------------------------------
(* Uploads. *)

(* Slip: the route is a plain function, and uploads run in threads. *)
LoopFreeAlways(u) == TRUE

(* No other upload holds the event loop. *)
LoopFree(u) == \A v \in Uploads \ {u} : upload[v].phase \notin Holding

To(u, phase) == upload' = [upload EXCEPT ![u].phase = phase]

(* _stream_to_disk opens the file... *)
StartStream(u) ==
    /\ upload[u].phase = "new"
    /\ LoopFree(u)
    /\ To(u, "streaming")
    /\ file' = [file EXCEPT ![u] = Partial]
    /\ UNCHANGED <<row, custody, caseLive, job, left>>

(* ... and after the last chunk record_upload starts without giving up the *)
(* event loop. *)
EndStream(u) ==
    /\ upload[u].phase = "streaming"
    /\ LoopFree(u)
    /\ To(u, "checking")
    /\ file' = [file EXCEPT ![u] = upload[u].content]
    /\ UNCHANGED <<row, custody, caseLive, job, left>>

(* HTTP 413: the partial file is removed. *)
TooLarge(u) ==
    /\ upload[u].phase = "streaming"
    /\ LoopFree(u)
    /\ Take("tooLarge")
    /\ To(u, "failed")
    /\ file' = [file EXCEPT ![u] = NoFile]
    /\ UNCHANGED <<row, custody, caseLive, job>>

(* Any other error while streaming leaves the file as it is. *)
DiskError(u) ==
    /\ upload[u].phase = "streaming"
    /\ LoopFree(u)
    /\ Take("diskError")
    /\ To(u, "failed")
    /\ UNCHANGED <<file, row, custody, caseLive, job>>

(* get_by_hash_in_case. *)
SameContent(content) == {i \in Stored : row[i].content = content /\ ~row[i].deleted}

(* record_upload reads: NotFoundError for a removed case, an error if two  *)
(* rows match, the existing row, or none.                                  *)
Check(u) ==
    LET same == SameContent(upload[u].content) IN
    /\ upload[u].phase = "checking"
    /\ \/ /\ ~caseLive \/ \E i, j \in same : i # j
          /\ To(u, "failed")
       \/ /\ caseLive
          /\ \E i \in same :
                /\ same = {i}
                /\ upload' = [upload EXCEPT ![u].phase = "duplicate", ![u].answer = i]
       \/ /\ caseLive
          /\ same = {}
          /\ To(u, "inserting")
    /\ UNCHANGED <<file, row, custody, caseLive, job, left>>

(* The row and its first custody entry commit together. *)
Insert(u) ==
    /\ upload[u].phase = "inserting"
    /\ row' = [row EXCEPT ![u] = [content |-> upload[u].content, starred |-> FALSE,
                                  deleted |-> FALSE]]
    /\ custody' = [custody EXCEPT ![u] = <<"uploaded">>]
    /\ upload' = [upload EXCEPT ![u].phase = "answered", ![u].answer = u]
    /\ UNCHANGED <<file, caseLive, job, left>>

(* Slip: the file of the existing row is removed instead. *)
DuplicateFileOfRow(u) == upload[u].answer

(* Slip: no file is removed. *)
DuplicateFileKept(u) == NoUpload

DuplicateFile(u) == u

(* The route removes the file it just wrote. *)
Discard(u) ==
    /\ upload[u].phase = "duplicate"
    /\ file' = [p \in Uploads |-> IF p = DuplicateFile(u) THEN NoFile ELSE file[p]]
    /\ To(u, "answered")
    /\ UNCHANGED <<row, custody, caseLive, job, left>>

-----------------------------------------------------------------------------
(* The other requests: get_for_case loads the row, later the change and    *)
(* its custody entry commit.                                               *)

Begin(t, op, i) ==
    /\ job[t] = NoJob
    /\ i \in Stored
    /\ ~row[i].deleted
    /\ Take(op)
    /\ job' = [job EXCEPT ![t] = [op |-> op, id |-> i]]
    /\ UNCHANGED <<file, row, custody, caseLive, upload>>

Note(op, i) ==
    CASE op = "update"   -> <<"updated">>
      [] op = "download" -> <<"downloaded">>
      [] op = "verify"   -> <<IF file[i] = row[i].content THEN "verified" ELSE "mismatch">>
      [] OTHER           -> <<>>

(* Slip: the item is removed without an entry. *)
EntryNoDelete(op, i) == Note(op, i)

(* What a request adds to the custody log; starring an item adds nothing.  *)
Entry(op, i) == IF op = "delete" THEN <<"deleted">> ELSE Note(op, i)

(* What the row may become; tags, notes and the like are left out.         *)
Changed(op, old) ==
    CASE op = "delete" -> {[old EXCEPT !.deleted = TRUE]}
      [] op = "star"   -> {[old EXCEPT !.starred = starred] : starred \in BOOLEAN}
      [] OTHER         -> {old}

Commit(t) ==
    LET op == job[t].op
        i  == job[t].id
    IN  /\ op \in Requests
        /\ op \in {"verify", "download"} => file[i] # NoFile
        /\ \E new \in Changed(op, row[i]) : row' = [row EXCEPT ![i] = new]
        /\ custody' = [custody EXCEPT ![i] = @ \o Entry(op, i)]
        /\ job' = [job EXCEPT ![t] = NoJob]
        /\ UNCHANGED <<file, caseLive, upload, left>>

(* The file to verify or download is missing: the request fails. *)
MissingFile(t) ==
    /\ job[t].op \in {"verify", "download"}
    /\ file[job[t].id] = NoFile
    /\ job' = [job EXCEPT ![t] = NoJob]
    /\ UNCHANGED <<file, row, custody, caseLive, upload, left>>

-----------------------------------------------------------------------------
(* The world. *)

(* CaseService.delete_case. *)
RemoveCase ==
    /\ caseLive
    /\ Take("caseRemoval")
    /\ caseLive' = FALSE
    /\ UNCHANGED <<file, row, custody, upload, job>>

(* Somebody changes or removes a stored file outside the program, which    *)
(* verification and downloads must expect.                                 *)
Tamper ==
    /\ Take("tampering")
    /\ \E i \in Stored, what \in {NoFile, Partial} : file' = [file EXCEPT ![i] = what]
    /\ UNCHANGED <<row, custody, caseLive, upload, job>>

(* The API process dies and starts again: requests are gone, files stay.   *)
Crash ==
    /\ Take("crash")
    /\ upload' = [u \in Uploads |->
                     IF upload[u].phase \in Holding \cup {"streaming"}
                     THEN [upload[u] EXCEPT !.phase = "failed"] ELSE upload[u]]
    /\ job' = [t \in Threads |-> NoJob]
    /\ UNCHANGED <<file, row, custody, caseLive>>

Receive(u) == StartStream(u) \/ EndStream(u) \/ TooLarge(u) \/ DiskError(u)
Record(u) == Check(u) \/ Insert(u) \/ Discard(u)

Next ==
    \/ \E u \in Uploads : Receive(u) \/ Record(u)
    \/ \E t \in Threads, op \in Requests, i \in Uploads : Begin(t, op, i)
    \/ \E t \in Threads : Commit(t) \/ MissingFile(t)
    \/ RemoveCase \/ Tamper \/ Crash

Spec == Init /\ [][Next]_vars

-----------------------------------------------------------------------------

Untampered == left["tampering"] = Budget["tampering"]

(* The original of every item is on disk, removed items included, whatever *)
(* uploads of the same content, failures and crashes there were, as long   *)
(* as nobody else touches the files.                                       *)
OriginalsKept == Untampered => \A i \in Stored : file[i] = row[i].content

(* At most one item of a case that is not removed has a given content, so  *)
(* that the duplicate check of the next upload never fails.                *)
OneLiveRowPerContent ==
    \A i, j \in Stored :
        row[i].content = row[j].content /\ ~row[i].deleted /\ ~row[j].deleted => i = j

(* An item is removed exactly if its custody log says so.                  *)
TombstonesLogged ==
    \A i \in Stored : row[i].deleted <=> \E n \in DOMAIN custody[i] : custody[i][n] = "deleted"

(* An answered upload names an item with the uploaded content, and the     *)
(* only files without an item are those of uploads that are under way or   *)
(* have failed.                                                            *)
AnswersHold ==
    \A u \in Uploads : upload[u].phase = "answered" =>
        /\ upload[u].answer \in Stored
        /\ row[upload[u].answer].content = upload[u].content
        /\ upload[u].answer # u => file[u] = NoFile
=============================================================================
