------------------------ MODULE EvidenceVaultProofs ------------------------
(* Type correctness and the safety of uploads and removals, for any number *)
(* of uploads, contents and threads and any budget of requests and faults. *)
EXTENDS EvidenceVault, TLAPS

(***************************************************************************)
(* The inductive invariant.  What is committed stays consistent because of *)
(* what the one upload that holds the event loop knows about the rows.     *)
(***************************************************************************)

(* The event loop has one holder. *)
OneHolder ==
    \A u, v \in Uploads : upload[u].phase \in Holding /\ upload[v].phase \in Holding => u = v

(* Only an answered upload may have become an item. *)
UnstoredUntilAnswered ==
    \A u \in Uploads : upload[u].phase # "answered" => row[u] = NoRow

(* The duplicate check still holds when its upload inserts. *)
FreeToInsert ==
    \A u \in Uploads : upload[u].phase = "inserting" => SameContent(upload[u].content) = {}

HasContent(i, content) == i \in Stored /\ row[i].content = content

(* A duplicate has found an item, and an answer names one. *)
AnswersFound ==
    \A u \in Uploads :
        /\ upload[u].phase = "duplicate" => HasContent(upload[u].answer, upload[u].content)
        /\ upload[u].phase = "answered" =>
              /\ HasContent(upload[u].answer, upload[u].content)
              /\ upload[u].answer # u => row[u] = NoRow /\ file[u] = NoFile

(* Nobody has touched the files: what an upload or an item holds is there. *)
FilesMatch ==
    Untampered =>
        /\ \A i \in Stored : file[i] = row[i].content
        /\ \A u \in Uploads : upload[u].phase \in Holding => file[u] = upload[u].content

(* The budget of tampering only shrinks. *)
WithinBudget == left["tampering"] <= Budget["tampering"]

VaultInv ==
    /\ TypeOK
    /\ OneHolder
    /\ UnstoredUntilAnswered
    /\ FreeToInsert
    /\ AnswersFound
    /\ OneLiveRowPerContent
    /\ TombstonesLogged
    /\ FilesMatch
    /\ WithinBudget

-----------------------------------------------------------------------------
(* Typing. *)

LEMMA TakeType ==
    ASSUME left \in [Requests \cup Faults -> Nat], NEW what \in Requests \cup Faults, Take(what)
    PROVE  left' \in [Requests \cup Faults -> Nat]
  BY DEF Take

(* How an upload looks after it moved. *)
LEMMA ToEffect ==
    ASSUME upload \in [Uploads -> Upload], NEW u \in Uploads, NEW phase \in Phases, To(u, phase)
    PROVE  /\ upload' \in [Uploads -> Upload]
           /\ \A v \in Uploads \ {u} : upload'[v] = upload[v]
           /\ upload'[u].phase = phase
           /\ upload'[u].content = upload[u].content
           /\ upload'[u].answer = upload[u].answer
  <1>1. upload[u] \in Upload
    OBVIOUS
  <1>2. upload' = [upload EXCEPT ![u] = [upload[u] EXCEPT !.phase = phase]]
    BY DEF To
  <1>3. [upload[u] EXCEPT !.phase = phase] \in Upload
    BY <1>1 DEF Upload
  <1>4. /\ [upload[u] EXCEPT !.phase = phase].phase = phase
        /\ [upload[u] EXCEPT !.phase = phase].content = upload[u].content
        /\ [upload[u] EXCEPT !.phase = phase].answer = upload[u].answer
    BY <1>1 DEF Upload
  <1> QED
    BY <1>2, <1>3, <1>4

LEMMA AnswerEffect ==
    ASSUME upload \in [Uploads -> Upload], NEW u \in Uploads, NEW phase \in Phases,
           NEW answer \in Uploads,
           upload' = [upload EXCEPT ![u].phase = phase, ![u].answer = answer]
    PROVE  /\ upload' \in [Uploads -> Upload]
           /\ \A v \in Uploads \ {u} : upload'[v] = upload[v]
           /\ upload'[u].phase = phase
           /\ upload'[u].content = upload[u].content
           /\ upload'[u].answer = answer
  <1>1. upload[u] \in Upload
    OBVIOUS
  <1>2. upload' = [upload EXCEPT ![u] = [upload[u] EXCEPT !.phase = phase, !.answer = answer]]
    OBVIOUS
  <1>3. [upload[u] EXCEPT !.phase = phase, !.answer = answer] \in Upload
    BY <1>1 DEF Upload
  <1>4. /\ [upload[u] EXCEPT !.phase = phase, !.answer = answer].phase = phase
        /\ [upload[u] EXCEPT !.phase = phase, !.answer = answer].content = upload[u].content
        /\ [upload[u] EXCEPT !.phase = phase, !.answer = answer].answer = answer
    BY <1>1 DEF Upload
  <1> QED
    BY <1>2, <1>3, <1>4

Tells(log, x) == \E n \in DOMAIN log : log[n] = x

(* An entry of two logs put together is an entry of one of them. *)
LEMMA ConcatMembers ==
    ASSUME NEW S, NEW log \in Seq(S), NEW added \in Seq(S), NEW x
    PROVE  Tells(log \o added, x) <=> Tells(log, x) \/ Tells(added, x)
  <1>1. \A n \in DOMAIN log : n \in DOMAIN (log \o added) /\ (log \o added)[n] = log[n]
    OBVIOUS
  <1>2. \A n \in DOMAIN added :
           /\ Len(log) + n \in DOMAIN (log \o added)
           /\ (log \o added)[Len(log) + n] = added[n]
    OBVIOUS
  <1>3. \A n \in DOMAIN (log \o added) :
           \/ n \in DOMAIN log
           \/ n - Len(log) \in DOMAIN added /\ (log \o added)[n] = added[n - Len(log)]
    OBVIOUS
  <1> QED
    BY <1>1, <1>2, <1>3 DEF Tells

(* How a row looks after a request committed. *)
LEMMA ChangedEffect ==
    ASSUME NEW op \in Requests, NEW old \in Row, NEW new \in Changed(op, old)
    PROVE  /\ new \in Row
           /\ new.content = old.content
           /\ op = "delete" => new.deleted = TRUE
           /\ op # "delete" => new.deleted = old.deleted
  <1>1. CASE op = "delete"
    <2>1. new = [old EXCEPT !.deleted = TRUE]
      BY <1>1 DEF Changed
    <2> QED
      BY <1>1, <2>1 DEF Row
  <1>2. CASE op = "star"
    <2>1. PICK starred \in BOOLEAN : new = [old EXCEPT !.starred = starred]
      BY <1>2 DEF Changed
    <2>2. new \in Row /\ new.content = old.content /\ new.deleted = old.deleted
      BY <2>1 DEF Row
    <2> QED
      BY <1>2, <2>2
  <1>3. CASE op \notin {"delete", "star"}
    <2>1. new = old
      BY <1>3 DEF Changed
    <2> QED
      BY <1>3, <2>1
  <1> QED
    BY <1>1, <1>2, <1>3

LEMMA EntryEffect ==
    ASSUME NEW op \in Requests, NEW i
    PROVE  /\ Entry(op, i) \in Seq(Entries)
           /\ (\E n \in DOMAIN Entry(op, i) : Entry(op, i)[n] = "deleted") <=> op = "delete"
  <1>1. CASE op = "delete"
    BY <1>1 DEF Entry, Entries
  <1>2. CASE op = "update"
    BY <1>2 DEF Entry, Note, Entries
  <1>3. CASE op = "download"
    BY <1>3 DEF Entry, Note, Entries
  <1>4. CASE op = "verify"
    BY <1>4 DEF Entry, Note, Entries
  <1>5. CASE op = "star"
    BY <1>5 DEF Entry, Note, Entries
  <1> QED
    BY <1>1, <1>2, <1>3, <1>4, <1>5 DEF Requests

LEMMA InitVaultInv == Init => VaultInv
  <1> SUFFICES ASSUME Init PROVE VaultInv
    OBVIOUS
  <1> USE VaultAssumption
  <1>1. TypeOK
    BY DEF Init, TypeOK, Stored, Upload, Phases, Holding, NoJob
  <1>2. Stored = {}
    BY DEF Init, Stored
  <1>3. \A u \in Uploads : upload[u].phase = "new"
    BY DEF Init
  <1>4. WithinBudget
    BY DEF Init, WithinBudget, Faults
  <1> QED
    BY <1>1, <1>2, <1>3, <1>4 DEF VaultInv, OneHolder, UnstoredUntilAnswered, FreeToInsert,
       AnswersFound, OneLiveRowPerContent, TombstonesLogged, FilesMatch, Holding, Init

-----------------------------------------------------------------------------
(* The steps of an upload that is received. *)

LEMMA StartStreamKeeps ==
    ASSUME VaultInv, NEW u \in Uploads, StartStream(u)
    PROVE  VaultInv'
  <1> USE VaultAssumption DEF VaultInv
  <1>1. /\ upload' \in [Uploads -> Upload]
        /\ \A v \in Uploads \ {u} : upload'[v] = upload[v]
        /\ upload'[u].phase = "streaming"
        /\ upload'[u].content = upload[u].content
        /\ upload'[u].answer = upload[u].answer
    BY ToEffect DEF StartStream, TypeOK, Phases, Holding
  <1>2. row' = row /\ Stored' = Stored /\ custody' = custody
    BY DEF StartStream, Stored
  <1>3. left' \in [Requests \cup Faults -> Nat] /\ (Untampered' => Untampered) /\ WithinBudget'
    BY TakeType DEF StartStream, TypeOK, Untampered, Take, Faults, Requests,
       WithinBudget
  <1>4. TypeOK'
    BY <1>1, <1>2, <1>3 DEF StartStream, TypeOK
  <1>5. u \notin Stored
    BY DEF StartStream, UnstoredUntilAnswered, Stored
  <1>6. OneHolder'
    BY <1>1 DEF StartStream, LoopFree, OneHolder, Holding
  <1>7. UnstoredUntilAnswered'
    BY <1>1, <1>2 DEF StartStream, UnstoredUntilAnswered
  <1>8. FreeToInsert'
    BY <1>1, <1>2 DEF FreeToInsert, SameContent
  <1>9. AnswersFound'
    BY <1>1, <1>2 DEF StartStream, AnswersFound, HasContent, TypeOK
  <1>10. OneLiveRowPerContent' /\ TombstonesLogged'
    BY <1>2 DEF OneLiveRowPerContent, TombstonesLogged
  <1>11. FilesMatch'
    BY <1>1, <1>2, <1>3, <1>5 DEF StartStream, FilesMatch, Holding, TypeOK
  <1> QED
    BY <1>3, <1>4, <1>6, <1>7, <1>8, <1>9, <1>10, <1>11

LEMMA EndStreamKeeps ==
    ASSUME VaultInv, NEW u \in Uploads, EndStream(u)
    PROVE  VaultInv'
  <1> USE VaultAssumption DEF VaultInv
  <1>1. /\ upload' \in [Uploads -> Upload]
        /\ \A v \in Uploads \ {u} : upload'[v] = upload[v]
        /\ upload'[u].phase = "checking"
        /\ upload'[u].content = upload[u].content
        /\ upload'[u].answer = upload[u].answer
    BY ToEffect DEF EndStream, TypeOK, Phases, Holding
  <1>2. row' = row /\ Stored' = Stored /\ custody' = custody
    BY DEF EndStream, Stored
  <1>3. left' \in [Requests \cup Faults -> Nat] /\ (Untampered' => Untampered) /\ WithinBudget'
    BY TakeType DEF EndStream, TypeOK, Untampered, Take, Faults, Requests,
       WithinBudget
  <1>4. TypeOK'
    BY <1>1, <1>2, <1>3 DEF EndStream, TypeOK, Upload
  <1>5. u \notin Stored
    BY DEF EndStream, UnstoredUntilAnswered, Stored
  <1>6. OneHolder'
    BY <1>1 DEF EndStream, LoopFree, OneHolder, Holding
  <1>7. UnstoredUntilAnswered'
    BY <1>1, <1>2 DEF EndStream, UnstoredUntilAnswered
  <1>8. FreeToInsert'
    BY <1>1, <1>2 DEF FreeToInsert, SameContent
  <1>9. AnswersFound'
    BY <1>1, <1>2 DEF EndStream, AnswersFound, HasContent, TypeOK
  <1>10. OneLiveRowPerContent' /\ TombstonesLogged'
    BY <1>2 DEF OneLiveRowPerContent, TombstonesLogged
  <1>11. FilesMatch'
    BY <1>1, <1>2, <1>3, <1>5 DEF EndStream, FilesMatch, Holding, TypeOK
  <1> QED
    BY <1>3, <1>4, <1>6, <1>7, <1>8, <1>9, <1>10, <1>11

LEMMA TooLargeKeeps ==
    ASSUME VaultInv, NEW u \in Uploads, TooLarge(u)
    PROVE  VaultInv'
  <1> USE VaultAssumption DEF VaultInv
  <1>1. /\ upload' \in [Uploads -> Upload]
        /\ \A v \in Uploads \ {u} : upload'[v] = upload[v]
        /\ upload'[u].phase = "failed"
        /\ upload'[u].content = upload[u].content
        /\ upload'[u].answer = upload[u].answer
    BY ToEffect DEF TooLarge, TypeOK, Phases, Holding
  <1>2. row' = row /\ Stored' = Stored /\ custody' = custody
    BY DEF TooLarge, Stored
  <1>3. left' \in [Requests \cup Faults -> Nat] /\ (Untampered' => Untampered) /\ WithinBudget'
    BY TakeType DEF TooLarge, TypeOK, Untampered, Take, Faults, Requests,
       WithinBudget
  <1>4. TypeOK'
    BY <1>1, <1>2, <1>3 DEF TooLarge, TypeOK
  <1>5. u \notin Stored
    BY DEF TooLarge, UnstoredUntilAnswered, Stored
  <1>6. OneHolder'
    BY <1>1 DEF TooLarge, LoopFree, OneHolder, Holding
  <1>7. UnstoredUntilAnswered'
    BY <1>1, <1>2 DEF TooLarge, UnstoredUntilAnswered
  <1>8. FreeToInsert'
    BY <1>1, <1>2 DEF FreeToInsert, SameContent
  <1>9. AnswersFound'
    BY <1>1, <1>2 DEF TooLarge, AnswersFound, HasContent, TypeOK
  <1>10. OneLiveRowPerContent' /\ TombstonesLogged'
    BY <1>2 DEF OneLiveRowPerContent, TombstonesLogged
  <1>11. FilesMatch'
    BY <1>1, <1>2, <1>3, <1>5 DEF TooLarge, FilesMatch, Holding, TypeOK
  <1> QED
    BY <1>3, <1>4, <1>6, <1>7, <1>8, <1>9, <1>10, <1>11

LEMMA DiskErrorKeeps ==
    ASSUME VaultInv, NEW u \in Uploads, DiskError(u)
    PROVE  VaultInv'
  <1> USE VaultAssumption DEF VaultInv
  <1>1. /\ upload' \in [Uploads -> Upload]
        /\ \A v \in Uploads \ {u} : upload'[v] = upload[v]
        /\ upload'[u].phase = "failed"
        /\ upload'[u].content = upload[u].content
        /\ upload'[u].answer = upload[u].answer
    BY ToEffect DEF DiskError, TypeOK, Phases, Holding
  <1>2. row' = row /\ Stored' = Stored /\ custody' = custody
    BY DEF DiskError, Stored
  <1>3. left' \in [Requests \cup Faults -> Nat] /\ (Untampered' => Untampered) /\ WithinBudget'
    BY TakeType DEF DiskError, TypeOK, Untampered, Take, Faults, Requests,
       WithinBudget
  <1>4. TypeOK'
    BY <1>1, <1>2, <1>3 DEF DiskError, TypeOK
  <1>5. u \notin Stored
    BY DEF DiskError, UnstoredUntilAnswered, Stored
  <1>6. OneHolder'
    BY <1>1 DEF DiskError, LoopFree, OneHolder, Holding
  <1>7. UnstoredUntilAnswered'
    BY <1>1, <1>2 DEF DiskError, UnstoredUntilAnswered
  <1>8. FreeToInsert'
    BY <1>1, <1>2 DEF FreeToInsert, SameContent
  <1>9. AnswersFound'
    <2>1. file' = file /\ upload[u].phase = "streaming"
      BY DEF DiskError
    <2>2. \A j, content : HasContent(j, content) => HasContent(j, content)'
      BY <1>2 DEF HasContent
    <2> QED
      BY <1>1, <1>2, <2>1, <2>2 DEF AnswersFound
  <1>10. OneLiveRowPerContent' /\ TombstonesLogged'
    BY <1>2 DEF OneLiveRowPerContent, TombstonesLogged
  <1>11. FilesMatch'
    <2>1. file' = file
      BY DEF DiskError
    <2> QED
      BY <1>1, <1>2, <1>3, <2>1 DEF FilesMatch, Holding
  <1> QED
    BY <1>3, <1>4, <1>6, <1>7, <1>8, <1>9, <1>10, <1>11

-----------------------------------------------------------------------------
(* The steps of record_upload and its answer. *)

LEMMA CheckKeeps ==
    ASSUME VaultInv, NEW u \in Uploads, Check(u)
    PROVE  VaultInv'
  <1> USE VaultAssumption DEF VaultInv
  <1> DEFINE same == SameContent(upload[u].content)
  <1> DEFINE moved ==
               /\ upload' \in [Uploads -> Upload]
               /\ \A v \in Uploads \ {u} : upload'[v] = upload[v]
               /\ upload'[u].content = upload[u].content
      found ==
               /\ upload'[u].phase = "duplicate"
               /\ HasContent(upload'[u].answer, upload[u].content)
  <1>1. moved /\ \/ upload'[u].phase = "failed"
                 \/ found
                 \/ upload'[u].phase = "inserting" /\ same = {}
    <2>1. CASE To(u, "failed")
      BY <2>1, ToEffect DEF TypeOK, Phases
    <2>2. CASE To(u, "inserting") /\ same = {}
      BY <2>2, ToEffect DEF TypeOK, Phases, Holding
    <2>3. ASSUME NEW i \in same,
                 upload' = [upload EXCEPT ![u].phase = "duplicate", ![u].answer = i]
          PROVE  moved /\ found
      <3>1. i \in Uploads /\ HasContent(i, upload[u].content)
        BY DEF SameContent, HasContent, Stored
      <3>2. "duplicate" \in Phases
        BY DEF Phases, Holding
      <3>3. upload \in [Uploads -> Upload] /\ u \in Uploads
        BY DEF TypeOK
      <3>4. /\ upload' \in [Uploads -> Upload]
            /\ \A v \in Uploads \ {u} : upload'[v] = upload[v]
            /\ upload'[u].phase = "duplicate"
            /\ upload'[u].content = upload[u].content
            /\ upload'[u].answer = i
        <4>1. /\ [upload[u] EXCEPT !.phase = "duplicate", !.answer = i] \in Upload
              /\ [upload[u] EXCEPT !.phase = "duplicate", !.answer = i].phase = "duplicate"
              /\ [upload[u] EXCEPT !.phase = "duplicate", !.answer = i].content =
                    upload[u].content
              /\ [upload[u] EXCEPT !.phase = "duplicate", !.answer = i].answer = i
          BY <3>1, <3>2, <3>3 DEF Upload
        <4> QED
          BY <2>3, <3>3, <4>1
      <3> QED
        BY <3>1, <3>4, Zenon
    <2>4. \/ To(u, "failed")
          \/ To(u, "inserting") /\ same = {}
          \/ \E i \in same : upload' = [upload EXCEPT ![u].phase = "duplicate", ![u].answer = i]
      BY DEF Check
    <2> QED
      <3> HIDE DEF same, moved, found
      <3> QED BY <2>1, <2>2, <2>3, <2>4
  <1>2. /\ row' = row /\ custody' = custody /\ file' = file /\ left' = left
        /\ caseLive' = caseLive /\ job' = job /\ upload[u].phase = "checking"
    BY DEF Check
  <1>3. Stored' = Stored /\ (Untampered' <=> Untampered)
    BY <1>2 DEF Stored, Untampered
  <1>4. TypeOK'
    BY <1>1, <1>2, <1>3 DEF TypeOK
  <1>5. OneHolder'
    BY <1>1, <1>2 DEF OneHolder, Holding
  <1>6. UnstoredUntilAnswered'
    BY <1>1, <1>2 DEF UnstoredUntilAnswered
  <1>7. FreeToInsert'
    BY <1>1, <1>2, <1>3 DEF FreeToInsert, SameContent
  <1>8. AnswersFound'
    BY <1>1, <1>2, <1>3 DEF AnswersFound, HasContent
  <1>9. OneLiveRowPerContent' /\ TombstonesLogged'
    BY <1>2, <1>3 DEF OneLiveRowPerContent, TombstonesLogged
  <1>10. FilesMatch'
    BY <1>1, <1>2, <1>3 DEF FilesMatch, Holding
  <1>11. WithinBudget'
    BY <1>2 DEF WithinBudget
  <1> QED
    BY <1>4, <1>5, <1>6, <1>7, <1>8, <1>9, <1>10, <1>11

LEMMA InsertKeeps ==
    ASSUME VaultInv, NEW u \in Uploads, Insert(u)
    PROVE  VaultInv'
  <1> USE VaultAssumption DEF VaultInv
  <1> DEFINE new == [content |-> upload[u].content, starred |-> FALSE, deleted |-> FALSE]
  <1>1. /\ upload' \in [Uploads -> Upload]
        /\ \A v \in Uploads \ {u} : upload'[v] = upload[v]
        /\ upload'[u].phase = "answered"
        /\ upload'[u].content = upload[u].content
        /\ upload'[u].answer = u
    BY AnswerEffect DEF Insert, TypeOK, Phases
  <1>2. /\ file' = file /\ left' = left /\ caseLive' = caseLive /\ job' = job
        /\ upload[u].phase = "inserting" /\ row' = [row EXCEPT ![u] = new]
        /\ custody' = [custody EXCEPT ![u] = <<"uploaded">>]
    BY DEF Insert
  <1>3. new \in Row /\ new # NoRow /\ new.content = upload[u].content /\ ~new.deleted
    <2>1. new \in Row
      BY DEF Row, TypeOK, Upload
    <2>2. new # NoRow
      BY <2>1 DEF Row
    <2> QED
      BY <2>1, <2>2, Zenon
  <1>4. /\ row' \in [Uploads -> Row \cup {NoRow}] /\ row'[u] = new
        /\ \A i \in Uploads \ {u} : row'[i] = row[i]
        /\ u \notin Stored /\ Stored' = Stored \cup {u}
    BY <1>2, <1>3 DEF TypeOK, Stored, UnstoredUntilAnswered
  <1>5. /\ custody' \in [Uploads -> Seq(Entries)] /\ custody'[u] = <<"uploaded">>
        /\ \A i \in Uploads \ {u} : custody'[i] = custody[i]
    <2>1. <<"uploaded">> \in Seq(Entries)
      BY DEF Entries
    <2> QED
      BY <1>2, <2>1 DEF TypeOK
  <1>6. TypeOK'
    BY <1>1, <1>2, <1>4, <1>5 DEF TypeOK
  <1>7. OneHolder'
    BY <1>1, <1>2 DEF OneHolder, Holding
  <1>8. UnstoredUntilAnswered'
    BY <1>1, <1>2, <1>4 DEF UnstoredUntilAnswered
  <1>9. FreeToInsert'
    BY <1>1, <1>2 DEF FreeToInsert, OneHolder, Holding
  <1>10. AnswersFound'
    BY <1>1, <1>2, <1>3, <1>4 DEF AnswersFound, HasContent, Stored
  <1>11. OneLiveRowPerContent'
    <2>1. \A i \in Stored : row[i].content = upload[u].content => row[i].deleted
      BY <1>2 DEF FreeToInsert, SameContent
    <2>2. \A i \in Stored : row'[i] = row[i]
      BY <1>4 DEF Stored
    <2> QED
      BY <1>3, <1>4, <2>1, <2>2 DEF OneLiveRowPerContent
  <1>12. TombstonesLogged'
    <2>1. \A n \in DOMAIN custody'[u] : custody'[u][n] # "deleted"
      BY <1>5
    <2>2. \A i \in Stored : row'[i] = row[i] /\ custody'[i] = custody[i]
      BY <1>4, <1>5 DEF Stored
    <2> QED
      BY <1>3, <1>4, <2>1, <2>2 DEF TombstonesLogged
  <1>13. FilesMatch'
    BY <1>1, <1>2, <1>3, <1>4 DEF FilesMatch, Untampered, Stored, Holding
  <1>14. WithinBudget'
    BY <1>2 DEF WithinBudget
  <1> QED
    BY <1>6, <1>7, <1>8, <1>9, <1>10, <1>11, <1>12, <1>13, <1>14

LEMMA DiscardKeeps ==
    ASSUME VaultInv, NEW u \in Uploads, Discard(u)
    PROVE  VaultInv'
  <1> USE VaultAssumption DEF VaultInv
  <1>1. /\ upload' \in [Uploads -> Upload]
        /\ \A v \in Uploads \ {u} : upload'[v] = upload[v]
        /\ upload'[u].phase = "answered"
        /\ upload'[u].content = upload[u].content
        /\ upload'[u].answer = upload[u].answer
    BY ToEffect DEF Discard, TypeOK, Phases
  <1>2. /\ row' = row /\ custody' = custody /\ left' = left
        /\ caseLive' = caseLive /\ job' = job /\ upload[u].phase = "duplicate"
        /\ file' = [p \in Uploads |-> IF p = u THEN NoFile ELSE file[p]]
    BY DEF Discard, DuplicateFile
  <1>3. Stored' = Stored /\ (Untampered' <=> Untampered) /\ row[u] = NoRow /\ u \notin Stored
    BY <1>2 DEF Stored, Untampered, UnstoredUntilAnswered
  <1>4. TypeOK'
    BY <1>1, <1>2, <1>3 DEF TypeOK
  <1>5. OneHolder'
    BY <1>1, <1>2 DEF OneHolder, Holding
  <1>6. UnstoredUntilAnswered'
    BY <1>1, <1>2 DEF UnstoredUntilAnswered
  <1>7. FreeToInsert'
    BY <1>1, <1>2, <1>3 DEF FreeToInsert, SameContent
  <1>8. AnswersFound'
    BY <1>1, <1>2, <1>3 DEF AnswersFound, HasContent
  <1>9. OneLiveRowPerContent' /\ TombstonesLogged'
    BY <1>2, <1>3 DEF OneLiveRowPerContent, TombstonesLogged
  <1>10. FilesMatch'
    BY <1>1, <1>2, <1>3 DEF FilesMatch, Holding, Stored
  <1>11. WithinBudget'
    BY <1>2 DEF WithinBudget
  <1> QED
    BY <1>4, <1>5, <1>6, <1>7, <1>8, <1>9, <1>10, <1>11

-----------------------------------------------------------------------------
(* The other requests. *)

LEMMA BeginKeeps ==
    ASSUME VaultInv, NEW t \in Threads, NEW op \in Requests, NEW i \in Uploads, Begin(t, op, i)
    PROVE  VaultInv'
  <1> USE VaultAssumption DEF VaultInv
  <1>1. /\ row' = row /\ custody' = custody /\ file' = file /\ upload' = upload
        /\ caseLive' = caseLive /\ i \in Stored
        /\ job' = [job EXCEPT ![t] = [op |-> op, id |-> i]]
    BY DEF Begin
  <1>2. left' \in [Requests \cup Faults -> Nat] /\ left'["tampering"] = left["tampering"]
    BY TakeType DEF Begin, TypeOK, Take, Requests, Faults
  <1>3. Stored' = Stored
    BY <1>1 DEF Stored
  <1>4. TypeOK'
    BY <1>1, <1>2, <1>3 DEF TypeOK
  <1> QED
    BY <1>1, <1>2, <1>3, <1>4 DEF OneHolder, UnstoredUntilAnswered, FreeToInsert, SameContent,
       AnswersFound, HasContent, OneLiveRowPerContent, TombstonesLogged, FilesMatch, Untampered,
       WithinBudget

LEMMA MissingFileKeeps ==
    ASSUME VaultInv, NEW t \in Threads, MissingFile(t)
    PROVE  VaultInv'
  <1> USE VaultAssumption DEF VaultInv
  <1>1. /\ row' = row /\ custody' = custody /\ file' = file /\ upload' = upload
        /\ caseLive' = caseLive /\ left' = left /\ job' = [job EXCEPT ![t] = NoJob]
    BY DEF MissingFile
  <1>2. Stored' = Stored
    BY <1>1 DEF Stored
  <1>3. TypeOK'
    BY <1>1, <1>2 DEF TypeOK
  <1> QED
    BY <1>1, <1>2, <1>3 DEF OneHolder, UnstoredUntilAnswered, FreeToInsert, SameContent,
       AnswersFound, HasContent, OneLiveRowPerContent, TombstonesLogged, FilesMatch, Untampered,
       WithinBudget

LEMMA CommitKeeps ==
    ASSUME VaultInv, NEW t \in Threads, Commit(t)
    PROVE  VaultInv'
  <1> USE VaultAssumption DEF VaultInv
  <1> DEFINE op == job[t].op
             i  == job[t].id
             added == Entry(op, i)
  <1>1. PICK new \in Changed(op, row[i]) :
           /\ op \in Requests
           /\ row' = [row EXCEPT ![i] = new]
           /\ custody' = [custody EXCEPT ![i] = @ \o added]
           /\ job' = [job EXCEPT ![t] = NoJob]
           /\ file' = file /\ caseLive' = caseLive /\ upload' = upload /\ left' = left
    BY DEF Commit
  <1>2. i \in Uploads /\ i \in Stored /\ row[i] \in Row
    BY <1>1 DEF TypeOK, NoJob, Requests, Stored
  <1>3. /\ new \in Row /\ new # NoRow /\ new.content = row[i].content
        /\ op = "delete" => new.deleted = TRUE
        /\ op # "delete" => new.deleted = row[i].deleted
    <2> HIDE DEF op, i
    <2>1. \A x \in Row : x # NoRow
      BY DEF Row
    <2>2. op \in Requests /\ row[i] \in Row /\ new \in Changed(op, row[i])
      BY <1>1, <1>2
    <2>3. /\ new \in Row
          /\ new.content = row[i].content
          /\ op = "delete" => new.deleted = TRUE
          /\ op # "delete" => new.deleted = row[i].deleted
      BY ONLY <2>2, ChangedEffect, Zenon
    <2> QED
      BY ONLY <2>1, <2>3, Zenon
  <1>4. /\ row' \in [Uploads -> Row \cup {NoRow}] /\ row'[i] = new
        /\ \A j \in Uploads \ {i} : row'[j] = row[j]
        /\ Stored' = Stored
    BY <1>1, <1>2, <1>3 DEF TypeOK, Stored
  <1>5. /\ added \in Seq(Entries) /\ custody[i] \in Seq(Entries)
        /\ (\E n \in DOMAIN added : added[n] = "deleted") <=> op = "delete"
    BY <1>1, <1>2, EntryEffect DEF TypeOK
  <1>6. /\ custody' \in [Uploads -> Seq(Entries)] /\ custody'[i] = custody[i] \o added
        /\ \A j \in Uploads \ {i} : custody'[j] = custody[j]
    <2>1. custody[i] \o added \in Seq(Entries)
      <3> HIDE DEF added
      <3> QED BY <1>5
    <2> HIDE DEF added
    <2> QED
      BY <1>1, <1>2, <2>1 DEF TypeOK
  <1>7. TypeOK'
    BY <1>1, <1>4, <1>6 DEF TypeOK
  <1>8. \A j \in Stored : /\ row'[j].content = row[j].content
                          /\ row[j].deleted => row'[j].deleted
    BY <1>3, <1>4 DEF Stored
  <1>9. OneHolder' /\ UnstoredUntilAnswered'
    BY <1>1, <1>2, <1>4 DEF OneHolder, UnstoredUntilAnswered, Stored
  <1>10. FreeToInsert'
    BY <1>1, <1>4, <1>8 DEF FreeToInsert, SameContent
  <1>11. AnswersFound'
    <2>1. \A j, content : HasContent(j, content) => HasContent(j, content)'
      BY <1>4, <1>8 DEF HasContent
    <2>2. \A j \in Uploads : row[j] = NoRow => row'[j] = NoRow
      BY <1>2, <1>4 DEF Stored
    <2> QED
      BY <1>1, <2>1, <2>2 DEF AnswersFound, HasContent
  <1>12. OneLiveRowPerContent'
    BY <1>4, <1>8 DEF OneLiveRowPerContent
  <1>13. TombstonesLogged'
    <2>1. Tells(custody'[i], "deleted")
             <=> Tells(custody[i], "deleted") \/ Tells(added, "deleted")
      <3> HIDE DEF added, i
      <3> QED BY <1>5, <1>6, ConcatMembers
    <2>2. Tells(added, "deleted") <=> op = "delete"
      BY <1>5 DEF Tells
    <2>3. row[i].deleted <=> Tells(custody[i], "deleted")
      BY <1>2 DEF TombstonesLogged, Tells
    <2>4. row'[i].deleted <=> Tells(custody'[i], "deleted")
      <3> HIDE DEF added, i, op
      <3> QED BY <1>3, <1>4, <2>1, <2>2, <2>3, Zenon
    <2>5. \A j \in Stored \ {i} : row'[j] = row[j] /\ custody'[j] = custody[j]
      BY <1>4, <1>6 DEF Stored
    <2> QED
      BY <1>4, <2>4, <2>5 DEF TombstonesLogged, Tells
  <1>14. FilesMatch'
    BY <1>1, <1>4, <1>8 DEF FilesMatch, Untampered
  <1>15. WithinBudget'
    BY <1>1 DEF WithinBudget
  <1> QED
    BY <1>7, <1>9, <1>10, <1>11, <1>12, <1>13, <1>14, <1>15

-----------------------------------------------------------------------------
(* The world. *)

LEMMA RemoveCaseKeeps ==
    ASSUME VaultInv, RemoveCase
    PROVE  VaultInv'
  <1> USE VaultAssumption DEF VaultInv
  <1>1. /\ row' = row /\ custody' = custody /\ file' = file /\ upload' = upload
        /\ caseLive' = FALSE /\ job' = job
    BY DEF RemoveCase
  <1>2. left' \in [Requests \cup Faults -> Nat] /\ left'["tampering"] = left["tampering"]
    BY TakeType DEF RemoveCase, TypeOK, Take, Requests, Faults
  <1>3. Stored' = Stored
    BY <1>1 DEF Stored
  <1>4. TypeOK'
    BY <1>1, <1>2, <1>3 DEF TypeOK
  <1> QED
    BY <1>1, <1>2, <1>3, <1>4 DEF OneHolder, UnstoredUntilAnswered, FreeToInsert, SameContent,
       AnswersFound, HasContent, OneLiveRowPerContent, TombstonesLogged, FilesMatch, Untampered,
       WithinBudget

LEMMA TamperKeeps ==
    ASSUME VaultInv, Tamper
    PROVE  VaultInv'
  <1> USE VaultAssumption DEF VaultInv
  <1>1. PICK i \in Stored, what \in {NoFile, Partial} : file' = [file EXCEPT ![i] = what]
    BY DEF Tamper
  <1>2. /\ row' = row /\ custody' = custody /\ upload' = upload
        /\ caseLive' = caseLive /\ job' = job
    BY DEF Tamper
  <1>3. /\ left' \in [Requests \cup Faults -> Nat]
        /\ left["tampering"] > 0 /\ left'["tampering"] = left["tampering"] - 1
    BY TakeType DEF Tamper, TypeOK, Take, Requests, Faults
  <1>4. Budget["tampering"] \in Nat /\ left["tampering"] \in Nat
    BY DEF TypeOK, Faults
  <1>5. WithinBudget' /\ ~Untampered'
    BY <1>3, <1>4 DEF WithinBudget, Untampered
  <1>6. Stored' = Stored
    BY <1>2 DEF Stored
  <1>7. TypeOK'
    BY <1>1, <1>2, <1>3, <1>6 DEF TypeOK, Stored
  <1>8. AnswersFound'
    BY <1>1, <1>2, <1>6 DEF AnswersFound, HasContent, TypeOK, Stored
  <1>9. OneHolder' /\ UnstoredUntilAnswered' /\ FreeToInsert'
    BY <1>2, <1>6 DEF OneHolder, UnstoredUntilAnswered, FreeToInsert, SameContent
  <1>10. OneLiveRowPerContent' /\ TombstonesLogged'
    BY <1>2, <1>6 DEF OneLiveRowPerContent, TombstonesLogged
  <1>11. FilesMatch'
    BY <1>5 DEF FilesMatch
  <1> QED
    BY <1>5, <1>7, <1>8, <1>9, <1>10, <1>11

LEMMA CrashKeeps ==
    ASSUME VaultInv, Crash
    PROVE  VaultInv'
  <1> USE VaultAssumption DEF VaultInv
  <1>1. /\ row' = row /\ custody' = custody /\ file' = file
        /\ caseLive' = caseLive /\ job' = [t \in Threads |-> NoJob]
    BY DEF Crash
  <1>2. left' \in [Requests \cup Faults -> Nat] /\ left'["tampering"] = left["tampering"]
    BY TakeType DEF Crash, TypeOK, Take, Requests, Faults
  <1>3. /\ upload' \in [Uploads -> Upload]
        /\ \A u \in Uploads :
              \/ upload'[u] = upload[u] /\ upload[u].phase \notin Holding
              \/ upload'[u].phase = "failed" /\ upload[u].phase # "answered"
    <2>1. \A u \in Uploads :
             /\ [upload[u] EXCEPT !.phase = "failed"] \in Upload
             /\ [upload[u] EXCEPT !.phase = "failed"].phase = "failed"
      BY DEF TypeOK, Upload, Phases
    <2>2. upload' = [u \in Uploads |->
                        IF upload[u].phase \in Holding \cup {"streaming"}
                        THEN [upload[u] EXCEPT !.phase = "failed"] ELSE upload[u]]
      BY DEF Crash
    <2>3. \A u \in Uploads : upload[u] \in Upload
      BY DEF TypeOK
    <2> QED
      BY <2>1, <2>2, <2>3 DEF Holding
  <1>4. Stored' = Stored
    BY <1>1 DEF Stored
  <1>5. TypeOK'
    BY <1>1, <1>2, <1>3, <1>4 DEF TypeOK
  <1>6. OneHolder' /\ UnstoredUntilAnswered' /\ FreeToInsert'
    BY <1>1, <1>3 DEF OneHolder, UnstoredUntilAnswered, FreeToInsert, Holding
  <1>7. AnswersFound'
    BY <1>1, <1>3, <1>4 DEF AnswersFound, HasContent, Holding
  <1>8. OneLiveRowPerContent' /\ TombstonesLogged'
    BY <1>1, <1>4 DEF OneLiveRowPerContent, TombstonesLogged
  <1>9. FilesMatch' /\ WithinBudget'
    BY <1>1, <1>2, <1>3, <1>4 DEF FilesMatch, Untampered, Holding, WithinBudget
  <1> QED
    BY <1>5, <1>6, <1>7, <1>8, <1>9

LEMMA StutterKeeps == VaultInv /\ UNCHANGED vars => VaultInv'
  BY DEF VaultInv, vars, TypeOK, Stored, OneHolder, UnstoredUntilAnswered, FreeToInsert,
     SameContent, AnswersFound, HasContent, OneLiveRowPerContent, TombstonesLogged, FilesMatch,
     Untampered, WithinBudget

LEMMA StepKeeps == VaultInv /\ [Next]_vars => VaultInv'
  <1> SUFFICES ASSUME VaultInv, [Next]_vars PROVE VaultInv'
    OBVIOUS
  <1>1. ASSUME NEW u \in Uploads, Receive(u) PROVE VaultInv'
    BY <1>1, StartStreamKeeps, EndStreamKeeps, TooLargeKeeps, DiskErrorKeeps DEF Receive
  <1>2. ASSUME NEW u \in Uploads, Record(u) PROVE VaultInv'
    BY <1>2, CheckKeeps, InsertKeeps, DiscardKeeps DEF Record
  <1>3. ASSUME NEW t \in Threads, NEW op \in Requests, NEW i \in Uploads, Begin(t, op, i)
        PROVE  VaultInv'
    BY <1>3, BeginKeeps
  <1>4. ASSUME NEW t \in Threads, Commit(t) \/ MissingFile(t) PROVE VaultInv'
    BY <1>4, CommitKeeps, MissingFileKeeps
  <1>5. CASE RemoveCase \/ Tamper \/ Crash
    BY <1>5, RemoveCaseKeeps, TamperKeeps, CrashKeeps
  <1>6. CASE UNCHANGED vars
    BY <1>6, StutterKeeps
  <1> QED
    BY <1>1, <1>2, <1>3, <1>4, <1>5, <1>6 DEF Next

LEMMA VaultInvAlways == Spec => []VaultInv
  BY InitVaultInv, StepKeeps, PTL DEF Spec

-----------------------------------------------------------------------------

(* The variables of the vault keep their types; in particular every request *)
(* under way names a row that exists.                                       *)
THEOREM VaultTypeCorrect == Spec => []TypeOK
  <1>1. VaultInv => TypeOK
    BY DEF VaultInv
  <1> QED
    BY <1>1, VaultInvAlways, PTL

(* As long as nobody else touches the files, the original of every item is *)
(* on disk: discarding a duplicate upload never removes an item's file,    *)
(* and removing an item keeps it.                                          *)
THEOREM OriginalsAlwaysKept == Spec => []OriginalsKept
  <1>1. VaultInv => OriginalsKept
    BY DEF VaultInv, FilesMatch, OriginalsKept
  <1> QED
    BY <1>1, VaultInvAlways, PTL

(* No two items of a case that are not removed have the same content,      *)
(* although the database has no constraint that says so.                   *)
THEOREM AlwaysOneLiveRowPerContent == Spec => []OneLiveRowPerContent
  <1>1. VaultInv => OneLiveRowPerContent
    BY DEF VaultInv
  <1> QED
    BY <1>1, VaultInvAlways, PTL

(* What the route answered stays true: the item it named exists and has    *)
(* the content that was uploaded.                                          *)
THEOREM AnswersAlwaysHold == Spec => []AnswersHold
  <1>1. VaultInv => AnswersHold
    BY DEF VaultInv, AnswersFound, AnswersHold, HasContent
  <1> QED
    BY <1>1, VaultInvAlways, PTL

(* The custody log of an item tells of its removal, and only then.         *)
THEOREM TombstonesAlwaysLogged == Spec => []TombstonesLogged
  <1>1. VaultInv => TombstonesLogged
    BY DEF VaultInv
  <1> QED
    BY <1>1, VaultInvAlways, PTL
=============================================================================
