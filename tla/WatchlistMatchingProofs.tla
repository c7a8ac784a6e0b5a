----------------------- MODULE WatchlistMatchingProofs -----------------------
(* Alerts and hit counts, for any number of items, cases, entries, worker  *)
(* slots, retries and faults.                                              *)
EXTENDS WatchlistMatching, FiniteSetTheorems, TLAPS

(***************************************************************************)
(* The inductive invariant.  A message that is queued, and a match that    *)
(* has found something and will be run again if it dies, stand for alerts  *)
(* to come: what is repeated, shared or watched for is told already, or on *)
(* its way.                                                                *)
(***************************************************************************)

(* What a match holds is about its item, and finite. *)
JobsRight ==
    \A s \in Slots : slot[s].task = "match" =>
        /\ IsFiniteSet(slot[s].found)
        /\ \A f \in slot[s].found : f.item = slot[s].item

Tables ==
    /\ TypeOK
    /\ DOMAIN slot = Slots
    /\ \A c \in Causes : left[c] <= Budget[c]
    /\ JobsRight

Awaited(i) == \E n \in Tries : queue[<<i, n>>] > 0

(* While entities are extracted, the message about them waits, unless a    *)
(* match came too early. *)
ExtractionsRight ==
    \A s \in Slots, i \in Items : slot[s].task = "extract" /\ slot[s].item = i =>
        /\ entity[i] = {}
        /\ Awaited(i) \/ i \in missed
        /\ \A t \in Slots : slot[t].task = "extract" /\ slot[t].item = i => t = s

CountsRight ==
    /\ IsFiniteSet(alert)
    /\ \A a \in alert : a.run < run[a.found.item]
    /\ HitsCounted

OnItsWay(f) ==
    \/ Awaited(f.item)
    \/ \E s \in Slots : /\ slot[s].task = "match" /\ slot[s].held
                       /\ slot[s].item = f.item /\ f \in slot[s].found

Answered(f) == Told(f) \/ OnItsWay(f)

Holders(n, k) == {i \in Items : CaseOf[i] = k /\ n \in Normals(i)}

RepeatsRight ==
    \A n \in {Normal(x) : x \in Texts}, k \in Cases :
        Cardinality(Holders(n, k)) >= Threshold /\ Holders(n, k) \cap missed = {}
            => \E i \in Holders(n, k) : Answered(Hit("repeated", i, n, NoEntry))

SharedRight ==
    \A i, j \in Items \ missed : CaseOf[i] # CaseOf[j] =>
        \A n \in Normals(i) \cap Normals(j) :
            \E h \in {i, j} : Answered(Hit("crossCase", h, n, NoEntry))

WatchedRight ==
    Unedited => \A i \in Items \ missed : \A x \in {y \in entity[i] : y.type = "email"} :
        \A e \in Watching(x, CaseOf[i]) : Answered(Hit("watchlist", i, Normal(x), e))

MatchInv ==
    /\ Tables /\ ExtractionsRight /\ CountsRight
    /\ RepeatsRight /\ SharedRight /\ WatchedRight

-----------------------------------------------------------------------------
(* Texts, rows, queue and slots. *)

LEMMA NormalIs ==
    ASSUME NEW x \in Texts
    PROVE  /\ Normal(x) \in Normalised
           /\ Normal(x).type = x.type
           /\ x.type = "email" => EntryNormal(x) = Normal(x)
  <1>1. x \in Normalised
    BY WatchlistAssumption
  <1>2. [x EXCEPT !.form = "plain"] \in Normalised /\ [x EXCEPT !.form = "plain"].type = x.type
    BY <1>1 DEF Normalised, Forms
  <1>3. x.type = "email" => x.type # "phone"
    OBVIOUS
  <1> QED
    BY <1>1, <1>2, <1>3 DEF Normal, EntryNormal

LEMMA BusyIs ==
    ASSUME DOMAIN slot = Slots, NEW s \in Slots, NEW what, Busy(s, what)
    PROVE  /\ DOMAIN slot' = Slots /\ slot'[s] = what
           /\ \A t \in Slots : t # s => slot'[t] = slot[t]
  BY DEF Busy

LEMMA QueueIs ==
    ASSUME TypeOK, NEW i \in Items, NEW n \in Tries, Queue(i, n)
    PROVE  /\ queue' \in [Items \X Tries -> Nat]
           /\ \A m \in Items \X Tries : queue'[m] >= queue[m]
           /\ queue'[<<i, n>>] > 0
           /\ UNCHANGED missed
  <1>1. <<i, n>> \in Items \X Tries /\ queue \in [Items \X Tries -> Nat]
    BY DEF TypeOK
  <1>2. queue[<<i, n>>] + 1 \in Nat /\ queue[<<i, n>>] + 1 > 0
    BY <1>1
  <1> QED
    BY <1>1, <1>2 DEF Queue

LEMMA LoseIs ==
    ASSUME TypeOK, NEW i \in Items, Lose(i)
    PROVE  UNCHANGED queue /\ missed' \subseteq Items /\ missed \subseteq missed' /\ i \in missed'
  BY DEF Lose, TypeOK

LEMMA TakeIs ==
    ASSUME Tables, NEW c \in Causes, Take(c)
    PROVE  /\ left' \in [Causes -> Nat]
           /\ \A d \in Causes : left'[d] <= Budget[d]
           /\ left'[c] < Budget[c]
           /\ \A d \in Causes \ {c} : left'[d] = left[d]
  <1>1. left \in [Causes -> Nat] /\ left[c] > 0 /\ Budget \in [Causes -> Nat]
        /\ \A d \in Causes : left[d] <= Budget[d]
    BY WatchlistAssumption DEF Take, Tables, TypeOK
  <1>2. left[c] - 1 \in Nat /\ left[c] - 1 < Budget[c]
    BY <1>1
  <1> QED
    BY <1>1, <1>2 DEF Take

LEMMA IdleIs == Idle.task = "none"
  BY DEF Idle

LEMMA RowIs ==
    ASSUME TypeOK, NEW e \in Entries, Exists(e)
    PROVE  entry[e] \in Entry /\ entry[e].hits \in Nat
  BY DEF TypeOK, Exists, Entry

LEMMA JobIs ==
    ASSUME NEW job, Matching(job)
    PROVE  /\ job.item \in Items /\ job.tries \in Tries /\ job.held \in BOOLEAN
           /\ job.found \subseteq Found
           /\ DOMAIN job.loaded = {f.by : f \in job.found} \ {NoEntry}
           /\ DOMAIN job.loaded \subseteq Entries
           /\ \A e \in DOMAIN job.loaded : job.loaded[e] \in Nat
  <1>1. \A f \in job.found : f.by \in Entries \cup {NoEntry}
    BY DEF Matching, Found
  <1> QED
    BY <1>1 DEF Matching

LEMMA SlotIs ==
    ASSUME TypeOK, NEW s \in Slots
    PROVE  /\ slot[s].task = "match" => Matching(slot[s])
           /\ slot[s].task = "extract" => slot[s] \in Extraction
           /\ slot[s].task = "none" => slot[s] = Idle
  <1>1. CASE slot[s] = Idle
    BY <1>1, IdleIs
  <1>2. CASE slot[s] \in Extraction
    BY <1>2 DEF Extraction
  <1>3. CASE Matching(slot[s])
    BY <1>3 DEF Matching
  <1> QED
    BY <1>1, <1>2, <1>3 DEF TypeOK

LEMMA ImageIs ==
    ASSUME NEW f, IsFiniteSet(DOMAIN f)
    PROVE  IsFiniteSet({f[x] : x \in DOMAIN f})
  <1> DEFINE S == DOMAIN f
             T == {f[x] : x \in DOMAIN f}
             g == [x \in S |-> f[x]]
  <1>1. g \in Surjection(S, T)
    BY DEF Surjection
  <1> HIDE DEF S, T, g
  <1>2. IsFiniteSet(S)
    BY DEF S
  <1>3. IsFiniteSet(T)
    BY <1>1, <1>2, FS_Surjection
  <1> QED
    BY <1>3 DEF T

LEMMA NormalsAre ==
    ASSUME TypeOK, NEW i \in Items
    PROVE  /\ IsFiniteSet(Normals(i))
           /\ \A n \in Normals(i) : n \in Normalised /\ \E x \in Texts : n = Normal(x)
  <1>1. entity[i] \subseteq Texts
    BY DEF TypeOK
  <1>2. IsFiniteSet(entity[i])
    BY <1>1, FiniteAssumption, FS_Subset
  <1> DEFINE f == [x \in entity[i] |-> Normal(x)]
  <1>3. DOMAIN f = entity[i] /\ {f[x] : x \in DOMAIN f} = Normals(i)
    BY DEF Normals
  <1> HIDE DEF f
  <1>4. IsFiniteSet(Normals(i))
    BY <1>2, <1>3, ImageIs
  <1>5. \A n \in Normals(i) : \E x \in Texts : n = Normal(x)
    BY <1>1 DEF Normals
  <1> QED
    BY <1>4, <1>5, NormalIs

LEMMA HitIs ==
    ASSUME NEW i \in Items, NEW n \in Normalised, NEW kind \in {"watchlist", "repeated", "crossCase"},
           NEW e \in Entries \cup {NoEntry}
    PROVE  /\ Hit(kind, i, n, e) \in Found
           /\ Hit(kind, i, n, e).item = i
  BY DEF Hit, Found

LEMMA MatchedIs ==
    ASSUME TypeOK, NEW i \in Items
    PROVE  /\ IsFiniteSet(Matched(i))
           /\ \A f \in Matched(i) : f \in Found /\ f.item = i
  <1> DEFINE pairs == {p \in entity[i] \X Applicable(i) : Matches(entry[p[2]].term, p[1])}
             hit == [p \in pairs |-> Hit("watchlist", i, Normal(p[1]), p[2])]
             again == [n \in Repeated(i) |-> Hit("repeated", i, n, NoEntry)]
             shared == [n \in CrossCase(i) |-> Hit("crossCase", i, n, NoEntry)]
  <1>1. entity[i] \subseteq Texts /\ Applicable(i) \subseteq Entries
    BY DEF TypeOK, Applicable
  <1>2. IsFiniteSet(entity[i]) /\ IsFiniteSet(Applicable(i))
    BY <1>1, FiniteAssumption, FS_Subset
  <1>3. IsFiniteSet(entity[i] \X Applicable(i))
    BY <1>2, FS_Product
  <1>4. IsFiniteSet(pairs)
    BY <1>3, FS_Subset
  <1>5. /\ IsFiniteSet(Repeated(i)) /\ IsFiniteSet(CrossCase(i))
        /\ \A n \in Repeated(i) \cup CrossCase(i) : n \in Normalised
    BY NormalsAre, FS_Subset DEF Repeated, CrossCase
  <1>6. Matched(i) = {hit[p] : p \in pairs} \cup {again[n] : n \in Repeated(i)}
                       \cup {shared[n] : n \in CrossCase(i)}
    BY DEF Matched
  <1>7. /\ \A p \in pairs : hit[p] \in Found /\ hit[p].item = i
        /\ \A n \in Repeated(i) : again[n] \in Found /\ again[n].item = i
        /\ \A n \in CrossCase(i) : shared[n] \in Found /\ shared[n].item = i
    <2>1. \A p \in pairs : Normal(p[1]) \in Normalised /\ p[2] \in Entries
      BY <1>1, NormalIs
    <2> QED
      BY <1>5, <2>1, HitIs
  <1>8. DOMAIN hit = pairs /\ DOMAIN again = Repeated(i) /\ DOMAIN shared = CrossCase(i)
    OBVIOUS
  <1> DEFINE A == {hit[p] : p \in pairs}
             B == {again[n] : n \in Repeated(i)}
             C == {shared[n] : n \in CrossCase(i)}
  <1>9. Matched(i) = (A \cup B) \cup C /\ \A f \in (A \cup B) \cup C : f \in Found /\ f.item = i
    BY <1>6, <1>7
  <1> HIDE DEF hit, again, shared, pairs
  <1>10. IsFiniteSet(A) /\ IsFiniteSet(B) /\ IsFiniteSet(C)
    BY <1>4, <1>5, <1>8, ImageIs
  <1> HIDE DEF A, B, C
  <1>11. IsFiniteSet((A \cup B) \cup C)
    BY <1>10, FS_Union
  <1> QED
    BY <1>9, <1>11

-----------------------------------------------------------------------------
(* The tables stay in their types. *)

LEMMA ExtractTables ==
    ASSUME Tables, NEW s \in Slots, NEW i \in Items, Extract(s, i)
    PROVE  Tables'
  <1>1. PICK X \in SUBSET Texts : Busy(s, [task |-> "extract", item |-> i, texts |-> X])
    BY DEF Extract, Extracts
  <1> DEFINE what == [task |-> "extract", item |-> i, texts |-> X]
  <1>2. what \in Extraction /\ what.task = "extract"
    BY DEF Extraction
  <1> HIDE DEF what
  <1>3. /\ DOMAIN slot' = Slots /\ slot'[s] = what
        /\ \A t \in Slots : t # s => slot'[t] = slot[t]
    BY <1>1, BusyIs DEF Tables, what
  <1>4. /\ queue' \in [Items \X Tries -> Nat] /\ missed' \subseteq Items
        /\ left' \in [Causes -> Nat] /\ \A c \in Causes : left'[c] <= Budget[c]
    <2>1. CASE Queue(i, 0) /\ UNCHANGED left
      <3>1. 0 \in Tries
        BY WatchlistAssumption DEF Tries
      <3> QED
        BY <2>1, <3>1, QueueIs DEF Tables, TypeOK
    <2>2. CASE Take("sendFailure") /\ Lose(i)
      BY <2>2, TakeIs, LoseIs DEF Tables, TypeOK, Causes
    <2> QED
      BY <2>1, <2>2 DEF Extract
  <1>5. UNCHANGED <<entity, entry, alert, run, overlaid>>
    BY DEF Extract
  <1>6. TypeOK'
    BY <1>2, <1>3, <1>4, <1>5 DEF Tables, TypeOK, Exists
  <1>7. JobsRight'
    BY <1>2, <1>3 DEF Tables, JobsRight
  <1> QED
    BY <1>3, <1>4, <1>6, <1>7 DEF Tables

(* A slot that becomes idle. *)
LEMMA IdleTables ==
    ASSUME Tables, NEW s \in Slots, Busy(s, Idle)
    PROVE  /\ DOMAIN slot' = Slots /\ JobsRight'
           /\ \A t \in Slots : slot'[t] \in {Idle} \cup Extraction \/ Matching(slot'[t])
  <1>1. /\ DOMAIN slot' = Slots /\ slot'[s] = Idle
        /\ \A t \in Slots : t # s => slot'[t] = slot[t]
    BY BusyIs DEF Tables
  <1>2. JobsRight'
    BY <1>1, IdleIs DEF Tables, JobsRight
  <1> QED
    BY <1>1, <1>2 DEF Tables, TypeOK

LEMMA ExtractCommitTables ==
    ASSUME Tables, NEW s \in Slots, ExtractCommit(s)
    PROVE  Tables'
  <1>1. /\ DOMAIN slot' = Slots /\ JobsRight'
        /\ \A t \in Slots : slot'[t] \in {Idle} \cup Extraction \/ Matching(slot'[t])
    BY IdleTables DEF ExtractCommit
  <1>2. slot[s].item \in Items /\ slot[s].texts \in SUBSET Texts
    BY SlotIs DEF ExtractCommit, Tables, Extraction
  <1>3. entity' \in [Items -> SUBSET Texts]
    BY <1>2 DEF ExtractCommit, Tables, TypeOK
  <1>4. UNCHANGED <<entry, alert, queue, run, left, overlaid, missed>>
    BY DEF ExtractCommit
  <1>5. TypeOK'
    BY <1>1, <1>3, <1>4 DEF Tables, TypeOK, Exists
  <1> QED
    BY <1>1, <1>4, <1>5 DEF Tables

LEMMA MatchTables ==
    ASSUME Tables, NEW s \in Slots, NEW i \in Items, NEW n \in Tries, Match(s, i, n)
    PROVE  Tables'
  <1> DEFINE found == Matched(i)
             loaded == [e \in {f.by : f \in found} \ {NoEntry} |-> entry[e].hits]
             job == [task |-> "match", item |-> i, tries |-> n, found |-> found, held |-> TRUE,
                     loaded |-> loaded]
  <1>1. TypeOK
    BY DEF Tables
  <1>2. IsFiniteSet(found) /\ found \subseteq Found /\ \A f \in found : f.item = i
    BY <1>1, MatchedIs
  <1>3. \A f \in found : f.by # NoEntry => f.by \in Entries /\ Exists(f.by)
    BY DEF Matched, Hit, Applicable
  <1>4. loaded \in [{f.by : f \in found} \ {NoEntry} -> Nat]
    BY <1>1, <1>3, RowIs
  <1>5. queue' \in [Items \X Tries -> Nat]
    <2>1. <<i, n>> \in Items \X Tries /\ queue[<<i, n>>] \in Nat /\ queue[<<i, n>>] > 0
      BY <1>1 DEF Match, TypeOK
    <2>2. queue[<<i, n>>] - 1 \in Nat
      BY <2>1
    <2> QED
      BY <1>1, <2>2 DEF Match, TypeOK
  <1>6. UNCHANGED slot \/ Busy(s, job)
    BY DEF Match
  <1>7. UNCHANGED <<entity, entry, alert, run, left, overlaid>>
    BY DEF Match
  <1>8. missed' \subseteq Items
    BY <1>1 DEF Match, TypeOK
  <1>9. /\ DOMAIN job = {"task", "item", "tries", "found", "loaded", "held"} /\ job.task = "match"
        /\ job.item = i /\ job.tries = n /\ job.found = found /\ job.loaded = loaded
        /\ job.held = TRUE
    OBVIOUS
  <1> HIDE DEF job, found, loaded
  <1>10. Matching(job)
    BY <1>2, <1>4, <1>9 DEF Matching
  <1>11. /\ DOMAIN slot' = Slots /\ JobsRight'
         /\ \A t \in Slots : slot'[t] \in {Idle} \cup Extraction \/ Matching(slot'[t])
    <2>1. CASE UNCHANGED slot
      BY <2>1 DEF Tables, TypeOK, JobsRight
    <2>2. CASE Busy(s, job)
      <3>1. /\ DOMAIN slot' = Slots /\ slot'[s] = job
            /\ \A t \in Slots : t # s => slot'[t] = slot[t]
        BY <2>2, BusyIs DEF Tables
      <3> QED
        BY <1>2, <1>9, <1>10, <3>1 DEF Tables, TypeOK, JobsRight
    <2> QED
      BY <1>6, <2>1, <2>2
  <1>12. TypeOK'
    BY <1>5, <1>7, <1>8, <1>11 DEF Tables, TypeOK, Exists
  <1> QED
    BY <1>7, <1>11, <1>12 DEF Tables

LEMMA MatchCommitTables ==
    ASSUME Tables, NEW s \in Slots, MatchCommit(s)
    PROVE  Tables'
  <1> DEFINE job == slot[s]
             new == {[run |-> run[job.item], found |-> f, entry |-> f.by,
                      told |-> Recipients(CaseOf[job.item])] : f \in job.found}
  <1>1. Matching(job) /\ TypeOK
    BY SlotIs DEF MatchCommit, Tables
  <1>2. /\ DOMAIN slot' = Slots /\ JobsRight'
        /\ \A t \in Slots : slot'[t] \in {Idle} \cup Extraction \/ Matching(slot'[t])
    BY IdleTables DEF MatchCommit
  <1>3. /\ UNCHANGED <<entity, queue, left, missed>> /\ alert' = alert \cup new
        /\ run' = [run EXCEPT ![job.item] = @ + 1]
    BY DEF MatchCommit
  <1>4. \A e \in DOMAIN job.loaded : Exists(e) /\ Raised(s, e) \in Nat
    <2> TAKE e \in DOMAIN job.loaded
    <2>1. Exists(e)
      BY DEF MatchCommit, LoadedExist
    <2>2. IsFiniteSet({f \in job.found : f.by = e})
      BY FS_Subset DEF Tables, JobsRight, MatchCommit
    <2>3. Cardinality({f \in job.found : f.by = e}) \in Nat
      BY <2>2, FS_CardinalityType
    <2>4. job.loaded[e] \in Nat
      BY <1>1, JobIs
    <2> QED
      BY <2>1, <2>3, <2>4 DEF Raised
  <1>5. \A e \in Entries :
           /\ entry'[e] \in Entry \cup {NoRow, Removed}
           /\ Exists(e) => entry'[e] \in Entry
    <2> TAKE e \in Entries
    <2>1. CASE e \in DOMAIN job.loaded
      <3>1. entry[e] \in Entry /\ Raised(s, e) \in Nat
        BY <2>1, <1>1, <1>4, RowIs
      <3>2. entry'[e] = [entry[e] EXCEPT !.hits = Raised(s, e)]
        BY <2>1 DEF MatchCommit
      <3> HIDE DEF job
      <3>3. entry'[e] \in Entry
        BY <3>1, <3>2 DEF Entry
      <3> QED
        BY <3>3
    <2>2. CASE e \notin DOMAIN job.loaded
      <3>1. entry'[e] = entry[e] /\ entry[e] \in Entry \cup {NoRow, Removed}
        BY <2>2, <1>1 DEF MatchCommit, TypeOK
      <3> QED
        BY <1>1, <3>1, RowIs
    <2> QED
      BY <2>1, <2>2
  <1>6. entry' \in [Entries -> Entry \cup {NoRow, Removed}]
    <2>1. DOMAIN entry' = Entries /\ entry' = [e \in Entries |-> entry'[e]]
      BY DEF MatchCommit
    <2> QED
      BY <1>5, <2>1
  <1>7. \A e \in Entries : Exists(e) => Exists(e)'
    BY <1>5, WatchlistAssumption DEF Exists
  <1>8. new \subseteq Alert /\ \A a \in new : a.entry # NoEntry => Exists(a.entry) /\ a.entry \in Entries
    <2>1. CaseOf[job.item] \in Cases /\ run[job.item] \in Nat
      BY <1>1, JobIs DEF Cases, TypeOK
    <2>2. Recipients(CaseOf[job.item]) \in SUBSET Users
      BY <2>1 DEF Recipients, Users
    <2>3. ASSUME NEW f \in job.found
          PROVE  /\ f \in Found /\ f.by \in Entries \cup {NoEntry}
                 /\ f.by # NoEntry => Exists(f.by)
      <3>1. f \in Found
        BY <1>1, JobIs
      <3>2. f.by \in Entries \cup {NoEntry}
        BY <3>1 DEF Found
      <3>3. f.by # NoEntry => f.by \in DOMAIN job.loaded
        BY <1>1, JobIs
      <3> QED
        BY <1>4, <3>1, <3>2, <3>3
    <2> HIDE DEF job
    <2> QED
      BY <2>1, <2>2, <2>3 DEF Alert
  <1>9. alert' \subseteq Alert /\ \A a \in alert' : a.entry # NoEntry => Exists(a.entry)'
    <2> HIDE DEF new
    <2>1. \A a \in alert : a \in Alert /\ (a.entry # NoEntry => Exists(a.entry) /\ a.entry \in Entries)
      BY <1>1 DEF TypeOK, Alert
    <2>2. \A a \in alert' : a \in Alert /\ (a.entry # NoEntry => Exists(a.entry) /\ a.entry \in Entries)
      BY <1>3, <1>8, <2>1
    <2> QED
      BY <1>7, <2>2
  <1>10. overlaid' \subseteq Entries
    <2>1. DOMAIN job.loaded \subseteq Entries /\ overlaid \subseteq Entries
      BY <1>1, JobIs DEF TypeOK
    <2> QED
      BY <2>1 DEF MatchCommit
  <1>11. run' \in [Items -> Nat]
    <2>1. job.item \in Items /\ run[job.item] + 1 \in Nat
      BY <1>1, JobIs DEF TypeOK
    <2> HIDE DEF job
    <2> QED
      BY <1>1, <1>3, <2>1 DEF TypeOK
  <1>12. TypeOK'
    BY <1>1, <1>2, <1>3, <1>6, <1>9, <1>10, <1>11 DEF TypeOK
  <1> QED
    BY <1>2, <1>3, <1>12 DEF Tables

LEMMA MatchFailsTables ==
    ASSUME Tables, NEW s \in Slots, MatchFails(s)
    PROVE  Tables'
  <1> DEFINE job == slot[s]
  <1>1. Matching(job) /\ TypeOK
    BY SlotIs DEF MatchFails, Tables
  <1>2. /\ DOMAIN slot' = Slots /\ JobsRight'
        /\ \A t \in Slots : slot'[t] \in {Idle} \cup Extraction \/ Matching(slot'[t])
    BY IdleTables DEF MatchFails
  <1>3. job.item \in Items /\ job.tries \in Tries
    BY <1>1, JobIs
  <1>4. left' \in [Causes -> Nat] /\ \A c \in Causes : left'[c] <= Budget[c]
    <2>1. CASE UNCHANGED left
      BY <2>1 DEF Tables, TypeOK
    <2>2. CASE Take("dbError")
      BY <2>2, TakeIs DEF Causes
    <2> QED
      BY <2>1, <2>2 DEF MatchFails
  <1>5. queue' \in [Items \X Tries -> Nat] /\ missed' \subseteq Items
    <2>1. CASE MayRetry(job.tries) /\ Queue(job.item, job.tries + 1)
      <3>1. job.tries + 1 \in Tries
        BY <1>3, <2>1, WatchlistAssumption DEF Tries, MayRetry
      <3> QED
        BY <1>1, <1>3, <2>1, <3>1, QueueIs DEF TypeOK
    <2>2. CASE Lose(job.item)
      BY <1>1, <1>3, <2>2, LoseIs DEF TypeOK
    <2> QED
      BY <2>1, <2>2 DEF MatchFails
  <1>6. UNCHANGED <<entity, entry, alert, run, overlaid>>
    BY DEF MatchFails
  <1>7. TypeOK'
    BY <1>1, <1>2, <1>4, <1>5, <1>6 DEF TypeOK, Exists
  <1> QED
    BY <1>2, <1>4, <1>7 DEF Tables

(* What the broker still holds waits again after a crash. *)
LEMMA CrashQueues ==
    ASSUME Tables, Crash
    PROVE  /\ queue' \in [Items \X Tries -> Nat]
           /\ \A m \in Items \X Tries : queue'[m] >= queue[m]
           /\ \A s \in Slots : slot[s].task = "match" /\ slot[s].held
                                => queue'[<<slot[s].item, slot[s].tries>>] > 0
  <1>1. /\ queue \in [Items \X Tries -> Nat]
        /\ queue' = [m \in Items \X Tries |-> queue[m] + Cardinality(Holding(m))]
    BY DEF Crash, Tables, TypeOK
  <1>2. ASSUME NEW m \in Items \X Tries
        PROVE  /\ IsFiniteSet(Holding(m)) /\ Cardinality(Holding(m)) \in Nat
               /\ queue'[m] = queue[m] + Cardinality(Holding(m))
    <2>1. IsFiniteSet(Holding(m))
      BY FiniteAssumption, FS_Subset DEF Holding
    <2> QED
      BY <1>1, <2>1, FS_CardinalityType
  <1>3. ASSUME NEW s \in Slots, slot[s].task = "match", slot[s].held
        PROVE  queue'[<<slot[s].item, slot[s].tries>>] > 0
    <2> DEFINE m == <<slot[s].item, slot[s].tries>>
    <2>1. m \in Items \X Tries
      BY <1>3, SlotIs, JobIs DEF Tables
    <2>2. s \in Holding(m)
      BY <1>3 DEF Holding
    <2> HIDE DEF m
    <2>3. Cardinality(Holding(m)) # 0
      BY <1>2, <2>1, <2>2, FS_EmptySet
    <2>4. queue'[m] > 0
      BY <1>1, <1>2, <2>1, <2>3
    <2> QED
      BY <2>4 DEF m
  <1>4. \A m \in Items \X Tries : queue'[m] \in Nat /\ queue'[m] >= queue[m]
    <2>1. \A m \in Items \X Tries : queue[m] \in Nat
      BY <1>1
    <2> QED
      BY <1>2, <2>1
  <1>5. queue' \in [Items \X Tries -> Nat]
    BY <1>1, <1>4
  <1> QED
    BY <1>3, <1>4, <1>5

LEMMA CrashTables ==
    ASSUME Tables, Crash
    PROVE  Tables'
  <1>1. slot' = [s \in Slots |-> Idle]
    BY DEF Crash
  <1>2. left' \in [Causes -> Nat] /\ \A c \in Causes : left'[c] <= Budget[c]
    BY TakeIs DEF Crash, Causes
  <1>3. queue' \in [Items \X Tries -> Nat]
    BY CrashQueues
  <1>4. UNCHANGED <<entity, entry, alert, run, overlaid, missed>>
    BY DEF Crash
  <1>5. TypeOK'
    BY <1>1, <1>2, <1>3, <1>4 DEF Tables, TypeOK, Exists
  <1>6. JobsRight'
    BY <1>1, IdleIs DEF JobsRight
  <1> QED
    BY <1>1, <1>2, <1>5, <1>6 DEF Tables

LEMMA ChildLossTables ==
    ASSUME Tables, NEW s \in Slots, ChildLoss(s)
    PROVE  Tables'
  <1>1. /\ DOMAIN slot' = Slots /\ JobsRight'
        /\ \A t \in Slots : slot'[t] \in {Idle} \cup Extraction \/ Matching(slot'[t])
    BY IdleTables DEF ChildLoss
  <1>2. left' \in [Causes -> Nat] /\ \A c \in Causes : left'[c] <= Budget[c]
    BY TakeIs DEF ChildLoss, Causes
  <1>3. queue' \in [Items \X Tries -> Nat] /\ missed' \subseteq Items
    <2>1. CASE slot[s].task = "match"
      <3>1. slot[s].item \in Items
        BY <2>1, SlotIs, JobIs DEF Tables
      <3> QED
        BY <2>1, <3>1, LoseIs DEF ChildLoss, Tables, TypeOK
    <2>2. CASE slot[s].task # "match"
      BY <2>2 DEF ChildLoss, Tables, TypeOK
    <2> QED
      BY <2>1, <2>2
  <1>4. UNCHANGED <<entity, entry, alert, run, overlaid>>
    BY DEF ChildLoss
  <1>5. TypeOK'
    BY <1>1, <1>2, <1>3, <1>4 DEF Tables, TypeOK, Exists
  <1> QED
    BY <1>1, <1>2, <1>5 DEF Tables

(* The message of a match that is delivered again waits; the match goes on. *)
LEMMA RedeliverSlot ==
    ASSUME Tables, NEW s \in Slots, Redeliver(s)
    PROVE  /\ Matching(slot'[s]) /\ slot'[s].task = "match"
           /\ slot'[s].item = slot[s].item /\ slot'[s].found = slot[s].found
           /\ DOMAIN slot' = Slots /\ \A t \in Slots : t # s => slot'[t] = slot[t]
           /\ slot[s].item \in Items /\ slot[s].tries \in Tries
           /\ Queue(slot[s].item, slot[s].tries)
  <1> DEFINE job == slot[s]
             new == [job EXCEPT !.held = FALSE]
  <1>1. Matching(job) /\ job.item \in Items /\ job.tries \in Tries
    BY SlotIs, JobIs DEF Redeliver, Tables
  <1>2. /\ Busy(s, new) /\ Queue(job.item, job.tries)
    BY DEF Redeliver
  <1>3. /\ DOMAIN slot' = Slots /\ slot'[s] = new /\ \A t \in Slots : t # s => slot'[t] = slot[t]
    BY <1>2, BusyIs DEF Tables
  <1> HIDE DEF job
  <1>4. /\ DOMAIN new = DOMAIN job /\ new.task = job.task /\ new.item = job.item
        /\ new.tries = job.tries /\ new.found = job.found /\ new.loaded = job.loaded
        /\ new.held = FALSE
    BY <1>1 DEF Matching
  <1> HIDE DEF new
  <1>5. Matching(new) /\ new.task = "match"
    BY <1>1, <1>4 DEF Matching
  <1> QED
    BY <1>1, <1>2, <1>3, <1>4, <1>5 DEF job

LEMMA RedeliverTables ==
    ASSUME Tables, NEW s \in Slots, Redeliver(s)
    PROVE  Tables'
  <1>1. left' \in [Causes -> Nat] /\ \A c \in Causes : left'[c] <= Budget[c]
    BY TakeIs DEF Redeliver, Causes
  <1>2. queue' \in [Items \X Tries -> Nat] /\ UNCHANGED missed
    BY RedeliverSlot, QueueIs DEF Tables
  <1>3. UNCHANGED <<entity, entry, alert, run, overlaid>> /\ slot[s].task = "match"
    BY DEF Redeliver
  <1>4. DOMAIN slot' = Slots /\ \A t \in Slots : slot'[t] \in {Idle} \cup Extraction \/ Matching(slot'[t])
    BY RedeliverSlot DEF Tables, TypeOK
  <1>5. JobsRight'
    <2>1. \A t \in Slots : slot'[t].task = "match" => slot[t].task = "match"
             /\ slot'[t].item = slot[t].item /\ slot'[t].found = slot[t].found
      BY <1>3, RedeliverSlot
    <2> QED
      BY <2>1 DEF Tables, JobsRight
  <1>6. TypeOK'
    BY <1>1, <1>2, <1>3, <1>4 DEF Tables, TypeOK, Exists
  <1> QED
    BY <1>1, <1>4, <1>5, <1>6 DEF Tables

LEMMA RerunTables ==
    ASSUME Tables, NEW i \in Items, Rerun(i)
    PROVE  Tables'
  <1>1. left' \in [Causes -> Nat] /\ \A c \in Causes : left'[c] <= Budget[c]
    BY TakeIs DEF Rerun, Causes
  <1>2. queue' \in [Items \X Tries -> Nat] /\ UNCHANGED missed
    <2>1. 0 \in Tries
      BY WatchlistAssumption DEF Tries
    <2> QED
      BY <2>1, QueueIs DEF Rerun, Tables
  <1>3. UNCHANGED <<entity, entry, alert, slot, run, overlaid>>
    BY DEF Rerun
  <1>4. TypeOK'
    BY <1>1, <1>2, <1>3 DEF Tables, TypeOK, Exists
  <1> QED
    BY <1>1, <1>3, <1>4 DEF Tables, JobsRight

LEMMA EntryTables ==
    ASSUME Tables, NEW e \in Entries, AddEntry(e) \/ EditEntry(e) \/ RemoveEntry(e)
    PROVE  Tables'
  <1>1. left' \in [Causes -> Nat] /\ \A c \in Causes : left'[c] <= Budget[c]
    BY TakeIs DEF AddEntry, EditEntry, RemoveEntry, Causes
  <1>2. PICK row : SetEntry(e, row) /\ (row \in Entry \/ (row = Removed /\ RemoveEntry(e)))
    <2>1. CASE AddEntry(e)
      <3>1. PICK term \in Terms : SetEntry(e, [term |-> term, active |-> TRUE, hits |-> 0])
        BY <2>1 DEF AddEntry
      <3>2. [term |-> term, active |-> TRUE, hits |-> 0] \in Entry
        BY DEF Entry
      <3> QED
        BY <3>1, <3>2
    <2>2. CASE EditEntry(e)
      <3>1. PICK term \in Terms, active \in BOOLEAN :
               SetEntry(e, [term |-> term, active |-> active, hits |-> entry[e].hits])
        BY <2>2 DEF EditEntry
      <3>2. [term |-> term, active |-> active, hits |-> entry[e].hits] \in Entry
        BY <2>2, RowIs DEF Entry, EditEntry, Tables
      <3> QED
        BY <3>1, <3>2
    <2>3. CASE RemoveEntry(e)
      BY <2>3 DEF RemoveEntry
    <2> QED
      BY <2>1, <2>2, <2>3
  <1>3. UNCHANGED <<entity, queue, slot, run, overlaid, missed>>
    BY <1>2 DEF SetEntry
  <1>4. entry' \in [Entries -> Entry \cup {NoRow, Removed}]
    BY <1>2 DEF SetEntry, Tables, TypeOK
  <1>5. alert' \subseteq Alert /\ \A a \in alert' : a.entry # NoEntry => Exists(a.entry)'
    <2>1. alert \subseteq Alert /\ \A a \in alert : a.entry # NoEntry => Exists(a.entry)
      BY DEF Tables, TypeOK
    <2>2. CASE row \in Entry /\ UNCHANGED alert
      BY <1>2, <2>1, <2>2, WatchlistAssumption DEF SetEntry, Exists, Tables, TypeOK
    <2>3. CASE RemoveEntry(e)
      <3>1. \A a \in alert : [a EXCEPT !.entry = NoEntry] \in Alert
                             /\ [a EXCEPT !.entry = NoEntry].entry = NoEntry
        BY <2>1 DEF Alert
      <3>2. alert' = Detached(e)
        BY <2>3 DEF RemoveEntry
      <3>3. \A a \in alert' : a \in Alert /\ (a.entry = NoEntry \/ (a \in alert /\ a.entry # e))
        BY <2>1, <3>1, <3>2 DEF Detached
      <3>4. \A d \in Entries \ {e} : entry'[d] = entry[d]
        BY <1>2 DEF SetEntry, Tables, TypeOK
      <3>5. \A a \in alert : a.entry \in Entries \cup {NoEntry}
        BY <2>1 DEF Alert
      <3> QED
        BY <2>1, <3>3, <3>4, <3>5 DEF Exists
    <2>4. RemoveEntry(e) \/ UNCHANGED alert
      BY DEF AddEntry, EditEntry
    <2> QED
      BY <1>2, <2>2, <2>3, <2>4
  <1>6. TypeOK'
    BY <1>1, <1>3, <1>4, <1>5 DEF Tables, TypeOK
  <1> QED
    BY <1>1, <1>3, <1>6 DEF Tables, JobsRight

LEMMA InitTables == Init => Tables
  <1> SUFFICES ASSUME Init PROVE Tables
    OBVIOUS
  <1>1. \A s \in Slots : slot[s] = Idle
    BY DEF Init
  <1>2. entry \in [Entries -> Entry \cup {NoRow, Removed}]
    <2>1. {TRUE} \subseteq BOOLEAN /\ {0} \subseteq Nat
      OBVIOUS
    <2>2. \A row \in [term : Terms, active : {TRUE}, hits : {0}] : row \in Entry
      BY <2>1 DEF Entry
    <2> QED
      BY <2>2 DEF Init
  <1>3. TypeOK
    BY <1>1, <1>2, WatchlistAssumption DEF Init, TypeOK
  <1>4. \A c \in Causes : left[c] <= Budget[c]
    BY WatchlistAssumption DEF Init
  <1>5. JobsRight
    BY <1>1, IdleIs DEF JobsRight
  <1> QED
    BY <1>3, <1>4, <1>5 DEF Tables, Init

LEMMA NextTables == Tables /\ Next => Tables'
  <1> SUFFICES ASSUME Tables, Next PROVE Tables'
    OBVIOUS
  <1>1. ASSUME NEW s \in Slots, WorkerStep(s)
        PROVE  Tables'
    BY <1>1, ExtractTables, ExtractCommitTables, MatchTables, MatchCommitTables,
       MatchFailsTables, ChildLossTables, RedeliverTables DEF WorkerStep
  <1> QED
    BY <1>1, CrashTables, RerunTables, EntryTables DEF Next

-----------------------------------------------------------------------------
(* Messages that wait. *)

(* Only a match of the item takes a message about it away. *)
LEMMA AwaitedStays ==
    ASSUME Tables, Next, NEW i \in Items, Awaited(i)
    PROVE  Awaited(i)' \/ \E s \in Slots, n \in Tries : Match(s, i, n)
  <1>1. PICK m \in Tries : queue[<<i, m>>] > 0
    BY DEF Awaited
  <1>2. queue \in [Items \X Tries -> Nat] /\ <<i, m>> \in Items \X Tries
    BY DEF Tables, TypeOK
  <1>3. ASSUME NEW j \in Items, NEW n \in Tries, Queue(j, n)
        PROVE  Awaited(i)'
    <2>1. queue'[<<i, m>>] >= queue[<<i, m>>] /\ queue'[<<i, m>>] \in Nat
      BY <1>2, <1>3, QueueIs DEF Tables
    <2> QED
      BY <1>1, <1>2, <2>1 DEF Awaited
  <1>4. CASE UNCHANGED queue
    BY <1>1, <1>4 DEF Awaited
  <1>5. 0 \in Tries
    BY WatchlistAssumption DEF Tries
  <1>6. CASE \E s \in Slots : WorkerStep(s)
    <2> PICK s \in Slots : WorkerStep(s)
      BY <1>6
    <2>1. CASE \E j \in Items : Extract(s, j)
      BY <2>1, <1>3, <1>4, <1>5 DEF Extract, Lose
    <2>2. CASE \E j \in Items, n \in Tries : Match(s, j, n)
      <3> PICK j \in Items, n \in Tries : Match(s, j, n)
        BY <2>2
      <3>1. CASE j # i
        <4>1. <<i, m>> # <<j, n>>
          BY <3>1
        <4>2. queue' = [queue EXCEPT ![<<j, n>>] = @ - 1]
          BY DEF Match
        <4>3. queue'[<<i, m>>] = queue[<<i, m>>]
          BY <1>2, <4>1, <4>2
        <4> QED
          BY <1>1, <4>3 DEF Awaited
      <3> QED
        BY <3>1
    <2>3. CASE ExtractCommit(s) \/ MatchCommit(s)
      BY <2>3, <1>4 DEF ExtractCommit, MatchCommit
    <2>4. CASE MatchFails(s)
      <3>1. slot[s].item \in Items /\ slot[s].tries \in Tries
        BY <2>4, SlotIs, JobIs DEF MatchFails, Tables
      <3>2. MayRetry(slot[s].tries) => slot[s].tries + 1 \in Tries
        BY <3>1, WatchlistAssumption DEF Tries, MayRetry
      <3> QED
        BY <2>4, <3>1, <3>2, <1>3, <1>4 DEF MatchFails, Lose
    <2>5. CASE ChildLoss(s)
      BY <2>5, <1>4 DEF ChildLoss, Lose
    <2>6. CASE Redeliver(s)
      BY <2>6, <1>3, RedeliverSlot
    <2> QED
      BY <2>1, <2>2, <2>3, <2>4, <2>5, <2>6 DEF WorkerStep
  <1>7. CASE (\E j \in Items : Rerun(j)) \/ Crash
    <2>1. CASE Crash
      <3>1. queue'[<<i, m>>] >= queue[<<i, m>>] /\ queue'[<<i, m>>] \in Nat
        BY <2>1, <1>2, CrashQueues
      <3> QED
        BY <1>1, <1>2, <3>1 DEF Awaited
    <2> QED
      BY <1>7, <1>3, <1>5, <2>1 DEF Rerun
  <1>8. CASE \E e \in Entries : AddEntry(e) \/ EditEntry(e) \/ RemoveEntry(e)
    BY <1>8, <1>4 DEF AddEntry, EditEntry, RemoveEntry, SetEntry
  <1> QED
    BY <1>6, <1>7, <1>8 DEF Next

LEMMA MissedStays ==
    ASSUME Next
    PROVE  missed \subseteq missed'
  BY DEF Next, WorkerStep, Extract, ExtractCommit, Match, MatchCommit, MatchFails, Crash,
         ChildLoss, Redeliver, Rerun, AddEntry, EditEntry, RemoveEntry, SetEntry, Queue, Lose

(* Who is being extracted, and what is extracted, changes in two steps. *)
LEMMA ExtractionsStay ==
    ASSUME Tables, Next, \A s \in Slots, i \in Items : ~ Extract(s, i),
           \A s \in Slots : ~ ExtractCommit(s)
    PROVE  /\ UNCHANGED entity
           /\ \A t \in Slots : slot'[t].task = "extract" => slot'[t] = slot[t]
  <1>1. UNCHANGED entity
    BY DEF Next, WorkerStep, Match, MatchCommit, MatchFails, Crash, ChildLoss,
           Redeliver, Rerun, AddEntry, EditEntry, RemoveEntry, SetEntry
  <1>2. ASSUME NEW s \in Slots, NEW what, Busy(s, what), what.task # "extract",
               NEW t \in Slots, slot'[t].task = "extract"
        PROVE  slot'[t] = slot[t]
    BY <1>2, BusyIs DEF Tables
  <1>3. CASE \E s \in Slots : WorkerStep(s)
    <2> PICK s \in Slots : WorkerStep(s)
      BY <1>3
    <2>1. CASE \E i \in Items, n \in Tries : Match(s, i, n)
      <3> PICK i \in Items, n \in Tries : Match(s, i, n)
        BY <2>1
      <3> DEFINE job == [task |-> "match", item |-> i, tries |-> n, found |-> Matched(i),
                         held |-> TRUE,
                         loaded |-> [e \in {f.by : f \in Matched(i)} \ {NoEntry} |-> entry[e].hits]]
      <3>1. UNCHANGED slot \/ Busy(s, job)
        BY DEF Match
      <3>2. job.task # "extract"
        OBVIOUS
      <3> HIDE DEF job
      <3> QED
        BY <1>1, <1>2, <3>1, <3>2
    <2>2. CASE MatchCommit(s) \/ MatchFails(s) \/ ChildLoss(s)
      <3>1. Busy(s, Idle) /\ Idle.task # "extract"
        BY <2>2, IdleIs DEF MatchCommit, MatchFails, ChildLoss
      <3> QED
        BY <1>1, <1>2, <3>1
    <2>3. CASE Redeliver(s)
      BY <1>1, <2>3, RedeliverSlot
    <2> QED
      BY <2>1, <2>2, <2>3 DEF WorkerStep
  <1>4. CASE Crash
    BY <1>1, <1>4, IdleIs DEF Crash
  <1>5. CASE ~ (\E s \in Slots : WorkerStep(s)) /\ ~ Crash
    <2>1. UNCHANGED slot
      BY <1>5 DEF Next, Rerun, AddEntry, EditEntry, RemoveEntry, SetEntry
    <2> QED
      BY <1>1, <2>1
  <1> QED
    BY <1>3, <1>4, <1>5

LEMMA ExtractSlot ==
    ASSUME Tables, NEW s \in Slots, NEW i \in Items, Extract(s, i)
    PROVE  /\ slot'[s].task = "extract" /\ slot'[s].item = i
           /\ \A t \in Slots : t # s => slot'[t] = slot[t]
           /\ entity[i] = {} /\ UNCHANGED entity
           /\ Awaited(i)' \/ i \in missed'
           /\ \A t \in Slots : slot[t].task = "extract" => slot[t].item # i
  <1>1. PICK X \in SUBSET Texts : Busy(s, [task |-> "extract", item |-> i, texts |-> X])
    BY DEF Extract, Extracts
  <1>2. /\ slot'[s] = [task |-> "extract", item |-> i, texts |-> X]
        /\ \A t \in Slots : t # s => slot'[t] = slot[t]
    BY <1>1, BusyIs DEF Tables
  <1>3. 0 \in Tries
    BY WatchlistAssumption DEF Tries
  <1>4. queue'[<<i, 0>>] > 0 \/ i \in missed'
    BY <1>3, QueueIs DEF Extract, Lose, Tables
  <1> QED
    BY <1>2, <1>3, <1>4 DEF Extract, Awaited, UnderExtraction

LEMMA ExtractCommitSlot ==
    ASSUME Tables, NEW s \in Slots, ExtractCommit(s)
    PROVE  /\ slot'[s] = Idle
           /\ \A t \in Slots : t # s => slot'[t] = slot[t]
           /\ slot[s].task = "extract" /\ slot[s].item \in Items
           /\ \A i \in Items : i # slot[s].item => entity'[i] = entity[i]
           /\ UNCHANGED <<entry, alert, queue, run, left, overlaid, missed>>
  <1>1. slot[s].item \in Items
    BY SlotIs DEF ExtractCommit, Tables, Extraction
  <1>2. DOMAIN entity = Items
    BY DEF Tables, TypeOK
  <1> QED
    BY <1>1, <1>2, BusyIs DEF ExtractCommit, Tables

LEMMA NextExtractions == Tables /\ ExtractionsRight /\ Next => ExtractionsRight'
  <1> SUFFICES ASSUME Tables, ExtractionsRight, Next,
                      NEW s \in Slots, NEW i \in Items, slot'[s].task = "extract", slot'[s].item = i
               PROVE  /\ entity'[i] = {}
                      /\ Awaited(i)' \/ i \in missed'
                      /\ \A t \in Slots : slot'[t].task = "extract" /\ slot'[t].item = i => t = s
    BY DEF ExtractionsRight
  <1>1. ASSUME slot[s].task = "extract", slot[s].item = i
        PROVE  /\ entity[i] = {}
               /\ Awaited(i)' \/ i \in missed'
               /\ \A t \in Slots : slot[t].task = "extract" /\ slot[t].item = i => t = s
    <2>1. /\ entity[i] = {}
          /\ Awaited(i) \/ i \in missed
          /\ \A t \in Slots : slot[t].task = "extract" /\ slot[t].item = i => t = s
      BY <1>1 DEF ExtractionsRight
    <2>2. (\E u \in Slots, n \in Tries : Match(u, i, n)) => i \in missed'
      BY <1>1 DEF Match, UnderExtraction
    <2>3. Awaited(i)' \/ i \in missed'
      BY <2>1, <2>2, AwaitedStays, MissedStays
    <2> QED
      BY <2>1, <2>3
  <1>2. CASE \E u \in Slots, j \in Items : Extract(u, j)
    <2> PICK u \in Slots, j \in Items : Extract(u, j)
      BY <1>2
    <2>1. CASE s = u
      BY <2>1, ExtractSlot
    <2>2. CASE s # u
      <3>1. slot'[s] = slot[s] /\ UNCHANGED entity
        BY <2>2, ExtractSlot
      <3>2. slot[s].task = "extract" /\ slot[s].item = i
        BY <3>1
      <3>3. i # j
        BY <3>2, ExtractSlot
      <3>4. \A t \in Slots : slot'[t].task = "extract" /\ slot'[t].item = i => slot'[t] = slot[t]
        BY <3>3, ExtractSlot
      <3>5. /\ entity[i] = {}
            /\ Awaited(i)' \/ i \in missed'
            /\ \A t \in Slots : slot[t].task = "extract" /\ slot[t].item = i => t = s
        BY <3>2, <1>1
      <3> QED
        BY <3>1, <3>4, <3>5
    <2> QED
      BY <2>1, <2>2
  <1>3. CASE \E u \in Slots : ExtractCommit(u)
    <2> PICK u \in Slots : ExtractCommit(u)
      BY <1>3
    <2>1. s # u /\ slot'[s] = slot[s]
      BY ExtractCommitSlot, IdleIs
    <2>2. slot[u].item # i
      BY <2>1, <1>1, ExtractCommitSlot
    <2>3. \A t \in Slots : slot'[t].task = "extract" => slot'[t] = slot[t]
      BY ExtractCommitSlot, IdleIs
    <2> QED
      BY <1>1, <2>1, <2>2, <2>3, ExtractCommitSlot
  <1>4. CASE /\ \A u \in Slots, j \in Items : ~ Extract(u, j)
             /\ \A u \in Slots : ~ ExtractCommit(u)
    <2>1. /\ UNCHANGED entity
          /\ \A t \in Slots : slot'[t].task = "extract" => slot'[t] = slot[t]
      BY <1>4, ExtractionsStay
    <2> QED
      BY <1>1, <2>1
  <1> QED
    BY <1>2, <1>3, <1>4

-----------------------------------------------------------------------------
(* Hit counts. *)

References(e) == {a \in alert : a.entry = e}

(* The alerts a match commits: one for each thing it has found. *)
LEMMA NewAlerts ==
    ASSUME Tables, NEW s \in Slots, MatchCommit(s)
    PROVE  \E new :
             /\ IsFiniteSet(new) /\ alert' = alert \cup new
             /\ \A a \in new : a.found.item = slot[s].item /\ a.run = run[slot[s].item]
             /\ \A e : Cardinality({a \in new : a.entry = e})
                         = Cardinality({f \in slot[s].found : f.by = e})
  <1> DEFINE found == slot[s].found
             told == Recipients(CaseOf[slot[s].item])
             nth == run[slot[s].item]
             g == [f \in found |-> [run |-> nth, found |-> f, entry |-> f.by, told |-> told]]
             new == {g[f] : f \in DOMAIN g}
  <1>1. IsFiniteSet(found)
    BY DEF Tables, JobsRight, MatchCommit
  <1>2. DOMAIN g = found
    OBVIOUS
  <1>3. \A f \in found : g[f].run = nth /\ g[f].found = f /\ g[f].entry = f.by
    OBVIOUS
  <1> HIDE DEF nth
  <1>4. alert' = alert \cup new
    BY DEF MatchCommit, nth
  <1> HIDE DEF g, found
  <1>5. IsFiniteSet(new)
    BY <1>1, <1>2, ImageIs
  <1>6. \A a \in new : a.found.item = slot[s].item /\ a.run = nth
    <2>1. \A f \in found : f.item = slot[s].item
      BY DEF found, Tables, JobsRight, MatchCommit
    <2> QED
      BY <1>2, <1>3, <2>1
  <1>7. ASSUME NEW e
        PROVE  Cardinality({a \in new : a.entry = e}) = Cardinality({f \in found : f.by = e})
    <2> DEFINE F == {f \in found : f.by = e}
               N == {a \in new : a.entry = e}
               h == [f \in F |-> g[f]]
    <2>1. h \in [F -> N] /\ DOMAIN h = F
      BY <1>2, <1>3
    <2>2. \A f1, f2 \in F : h[f1] = h[f2] => f1 = f2
      BY <1>3
    <2>3. \A a \in N : \E f \in F : h[f] = a
      BY <1>2, <1>3
    <2>4. IsFiniteSet(F)
      BY <1>1, FS_Subset
    <2> HIDE DEF F, N, h
    <2>5. ExistsBijection(F, N)
      BY <2>1, <2>2, <2>3 DEF ExistsBijection, Bijection, Injection, Surjection,
                                IsInjective
    <2>6. Cardinality(N) = Cardinality(F)
      BY <2>4, <2>5, FS_Bijection
    <2> QED
      BY <2>6 DEF F, N
  <1> QED
    BY <1>4, <1>5, <1>6, <1>7 DEF found, nth

LEMMA MatchCommitCounts ==
    ASSUME Tables, CountsRight, NEW s \in Slots, MatchCommit(s)
    PROVE  CountsRight'
  <1> DEFINE Of(e) == {f \in slot[s].found : f.by = e}
  <1>1. PICK new :
          /\ IsFiniteSet(new) /\ alert' = alert \cup new
          /\ \A a \in new : a.found.item = slot[s].item /\ a.run = run[slot[s].item]
          /\ \A e : Cardinality({a \in new : a.entry = e}) = Cardinality(Of(e))
    BY NewAlerts
  <1>2. TypeOK /\ Matching(slot[s]) /\ slot[s].item \in Items
    BY SlotIs, JobIs DEF Tables, MatchCommit
  <1>3. /\ IsFiniteSet(alert)
        /\ \A a \in alert : a.run < run[a.found.item] /\ a.run \in Nat /\ a.found.item \in Items
    BY <1>2 DEF CountsRight, TypeOK, Alert, Found
  <1>4. /\ run \in [Items -> Nat] /\ run' \in [Items -> Nat]
        /\ run'[slot[s].item] > run[slot[s].item] /\ \A i \in Items : run'[i] >= run[i]
    <2> DEFINE k == slot[s].item
    <2>1. run \in [Items -> Nat] /\ run' = [run EXCEPT ![k] = @ + 1] /\ k \in Items
      BY <1>2 DEF MatchCommit, TypeOK
    <2> HIDE DEF k
    <2>2. run' \in [Items -> Nat] /\ run'[k] > run[k] /\ \A i \in Items : run'[i] >= run[i]
      BY <2>1
    <2> QED
      BY <2>1, <2>2 DEF k
  <1>5. IsFiniteSet(alert')
    BY <1>1, <1>3, FS_Union
  <1>6. \A a \in alert' : a.run < run'[a.found.item]
    <2>1. \A a \in alert : a.run < run'[a.found.item]
      <3>1. \A x, y, z \in Nat : x < y /\ z >= y => x < z
        OBVIOUS
      <3> QED
        BY <1>3, <1>4, <3>1
    <2>2. \A a \in new : a.run < run'[a.found.item]
      BY <1>1, <1>2, <1>4
    <2> QED
      BY <1>1, <2>1, <2>2
  <1>7. ASSUME NEW e \in Entries \ overlaid', Exists(e)'
        PROVE  entry'[e].hits = Cardinality(References(e)')
    <2> DEFINE A == References(e)
               N == {a \in new : a.entry = e}
    <2>1. References(e)' = A \cup N
      BY <1>1 DEF References
    <2>2. A \cap N = {}
      BY <1>1, <1>3, <1>4 DEF References
    <2>3. IsFiniteSet(A) /\ IsFiniteSet(N)
      BY <1>1, <1>3, FS_Subset DEF References
    <2>4. Cardinality(N) = Cardinality(Of(e)) /\ Cardinality(A) \in Nat /\ Cardinality(N) \in Nat
      BY <1>1, <2>3, FS_CardinalityType
    <2> HIDE DEF A, N, Of
    <2>5. Cardinality(A \cup N) = Cardinality(A) + Cardinality(N) - Cardinality({})
      BY <2>2, <2>3, FS_Union
    <2>6. Cardinality(References(e)') = Cardinality(A) + Cardinality(N)
      BY <2>1, <2>4, <2>5, FS_EmptySet
    <2>7. e \notin overlaid /\ e \in Entries
      BY DEF MatchCommit
    <2>8. Exists(e) => entry[e].hits = Cardinality(A)
      BY <2>7 DEF CountsRight, HitsCounted, A, References
    <2>9. CASE e \in DOMAIN slot[s].loaded
      <3>1. Exists(e) /\ entry[e].hits = slot[s].loaded[e]
        BY <2>7, <2>9 DEF MatchCommit, LoadedExist
      <3>2. entry[e] \in Entry
        BY <1>2, <2>7, <3>1, RowIs
      <3>3. entry'[e] = [entry[e] EXCEPT !.hits = Raised(s, e)]
        BY <2>7, <2>9 DEF MatchCommit
      <3>4. entry'[e].hits = Raised(s, e)
        BY <3>2, <3>3 DEF Entry
      <3>5. Raised(s, e) = slot[s].loaded[e] + Cardinality(Of(e))
        BY DEF Raised, Of
      <3> QED
        BY <2>4, <2>6, <2>8, <3>1, <3>4, <3>5
    <2>10. CASE e \notin DOMAIN slot[s].loaded
      <3>1. entry'[e] = entry[e] /\ Exists(e)
        BY <1>7, <2>7, <2>10 DEF MatchCommit, Exists
      <3>2. Of(e) = {}
        <4>1. e # NoEntry
          BY <2>7, WatchlistAssumption
        <4>2. DOMAIN slot[s].loaded = {f.by : f \in slot[s].found} \ {NoEntry}
          BY <1>2, JobIs
        <4> QED
          BY <2>10, <4>1, <4>2 DEF Of
      <3>3. Cardinality(N) = 0
        BY <2>4, <3>2, FS_EmptySet
      <3> QED
        BY <2>4, <2>6, <2>8, <3>1, <3>3
    <2> QED
      BY <2>9, <2>10
  <1>8. HitsCounted'
    BY <1>7 DEF HitsCounted, References
  <1> QED
    BY <1>5, <1>6, <1>8 DEF CountsRight

LEMMA AddEntryCounts ==
    ASSUME Tables, CountsRight, NEW e \in Entries, AddEntry(e)
    PROVE  CountsRight'
  <1>1. PICK term \in Terms : SetEntry(e, [term |-> term, active |-> TRUE, hits |-> 0])
    BY DEF AddEntry
  <1>2. UNCHANGED <<alert, run, overlaid>> /\ entry[e] = NoRow
    BY <1>1 DEF AddEntry, SetEntry
  <1>3. \A a \in alert : a.entry # e
    BY <1>2, WatchlistAssumption DEF Tables, TypeOK, Exists
  <1>4. ASSUME NEW d \in Entries \ overlaid, Exists(d)'
        PROVE  entry'[d].hits = Cardinality(References(d))
    <2>1. CASE d = e
      <3>1. References(d) = {}
        BY <2>1, <1>3 DEF References
      <3>2. entry'[d].hits = 0
        BY <2>1, <1>1 DEF SetEntry, Tables, TypeOK
      <3> QED
        BY <3>1, <3>2, FS_EmptySet
    <2>2. CASE d # e
      <3>1. entry'[d] = entry[d]
        BY <2>2, <1>1 DEF SetEntry, Tables, TypeOK
      <3> QED
        BY <1>4, <3>1 DEF Exists, CountsRight, HitsCounted, References
    <2> QED
      BY <2>1, <2>2
  <1> QED
    BY <1>2, <1>4 DEF CountsRight, HitsCounted, References

LEMMA EditEntryCounts ==
    ASSUME Tables, CountsRight, NEW e \in Entries, EditEntry(e)
    PROVE  CountsRight'
  <1>1. PICK term \in Terms, active \in BOOLEAN :
           SetEntry(e, [term |-> term, active |-> active, hits |-> entry[e].hits])
    BY DEF EditEntry
  <1>2. UNCHANGED <<alert, run, overlaid>> /\ Exists(e)
    BY <1>1 DEF EditEntry, SetEntry
  <1>3. \A d \in Entries : Exists(d)' => Exists(d) /\ entry'[d].hits = entry[d].hits
    BY <1>1, <1>2 DEF SetEntry, Tables, TypeOK, Exists
  <1> QED
    BY <1>2, <1>3 DEF CountsRight, HitsCounted

LEMMA RemoveEntryCounts ==
    ASSUME Tables, CountsRight, NEW e \in Entries, RemoveEntry(e)
    PROVE  CountsRight'
  <1> DEFINE g == [a \in alert |-> IF a.entry = e THEN [a EXCEPT !.entry = NoEntry] ELSE a]
  <1>1. alert' = {g[a] : a \in DOMAIN g} /\ DOMAIN g = alert
    BY DEF RemoveEntry, Detached
  <1>2. ASSUME NEW a \in alert
        PROVE  /\ g[a].run = a.run /\ g[a].found = a.found
               /\ a.entry # e => g[a] = a
               /\ a.entry = e => g[a].entry = NoEntry
    <2>1. a \in Alert
      BY DEF Tables, TypeOK
    <2> QED
      BY <2>1 DEF Alert
  <1> HIDE DEF g
  <1>3. IsFiniteSet(alert')
    BY <1>1, ImageIs DEF CountsRight
  <1>4. run' = run /\ overlaid' = overlaid /\ entry' = [entry EXCEPT ![e] = Removed]
    BY DEF RemoveEntry, SetEntry
  <1>5. \A a \in alert' : a.run < run'[a.found.item]
    BY <1>1, <1>2, <1>4 DEF CountsRight
  <1>6. ASSUME NEW d \in Entries \ overlaid, Exists(d)'
        PROVE  entry'[d].hits = Cardinality(References(d)')
    <2>1. d # e
      BY <1>4, <1>6 DEF Exists, Tables, TypeOK
    <2>2. entry'[d] = entry[d]
      BY <1>4, <2>1 DEF Tables, TypeOK
    <2>3. d # NoEntry
      BY WatchlistAssumption
    <2>4. References(d)' = References(d)
      BY <1>1, <1>2, <2>1, <2>3 DEF References
    <2> QED
      BY <1>6, <2>2, <2>4 DEF Exists, CountsRight, HitsCounted, References
  <1> QED
    BY <1>3, <1>4, <1>5, <1>6 DEF CountsRight, HitsCounted, References

LEMMA NextCounts == Tables /\ CountsRight /\ Next => CountsRight'
  <1> SUFFICES ASSUME Tables, CountsRight, Next PROVE CountsRight'
    OBVIOUS
  <1>1. CASE UNCHANGED <<alert, entry, run, overlaid>>
    BY <1>1 DEF CountsRight, HitsCounted, Exists
  <1>2. CASE \E s \in Slots : WorkerStep(s)
    <2> PICK s \in Slots : WorkerStep(s)
      BY <1>2
    <2>1. MatchCommit(s) \/ UNCHANGED <<alert, entry, run, overlaid>>
      BY DEF WorkerStep, Extract, ExtractCommit, Match, MatchFails, ChildLoss, Redeliver
    <2> QED
      BY <1>1, <2>1, MatchCommitCounts
  <1>3. CASE (\E i \in Items : Rerun(i)) \/ Crash
    BY <1>1, <1>3 DEF Rerun, Crash
  <1>4. CASE \E e \in Entries : AddEntry(e) \/ EditEntry(e) \/ RemoveEntry(e)
    BY <1>4, AddEntryCounts, EditEntryCounts, RemoveEntryCounts
  <1> QED
    BY <1>2, <1>3, <1>4 DEF Next

-----------------------------------------------------------------------------
(* An answer is not lost. *)

LEMMA ToldStays ==
    ASSUME Next, NEW f, Told(f)
    PROVE  Told(f)'
  <1>1. PICK a \in alert : a.found = f /\ Members[CaseOf[f.item]] \subseteq a.told
    BY DEF Told
  <1>2. CASE alert \subseteq alert'
    BY <1>1, <1>2 DEF Told
  <1>3. CASE \E e \in Entries : RemoveEntry(e)
    <2> PICK e \in Entries : RemoveEntry(e)
      BY <1>3
    <2> DEFINE b == IF a.entry = e THEN [a EXCEPT !.entry = NoEntry] ELSE a
    <2>1. b \in alert'
      BY DEF RemoveEntry, Detached
    <2>2. b.found = a.found /\ b.told = a.told
      OBVIOUS
    <2> HIDE DEF b
    <2> QED
      BY <1>1, <2>1, <2>2 DEF Told
  <1>4. CASE ~ \E e \in Entries : RemoveEntry(e)
    <2>1. alert \subseteq alert'
      BY <1>4 DEF Next, WorkerStep, Extract, ExtractCommit, Match, MatchCommit, MatchFails,
                  Crash, ChildLoss, Redeliver, Rerun, AddEntry, EditEntry
    <2> QED
      BY <1>2, <2>1
  <1> QED
    BY <1>3, <1>4

(* A match under way goes on, commits, fails or dies, is delivered again.   *)
LEMMA MatchStays ==
    ASSUME Tables, Next, NEW s \in Slots, slot[s].task = "match"
    PROVE  \/ slot'[s] = slot[s] \/ MatchCommit(s) \/ MatchFails(s)
           \/ ChildLoss(s) \/ Redeliver(s) \/ Crash
  <1>1. ASSUME NEW u \in Slots, WorkerStep(u)
        PROVE  \/ slot'[s] = slot[s] \/ MatchCommit(s) \/ MatchFails(s)
               \/ ChildLoss(s) \/ Redeliver(s)
    <2>1. UNCHANGED slot \/ \E what : Busy(u, what)
      BY <1>1 DEF WorkerStep, Extract, ExtractCommit, Match, MatchCommit, MatchFails, ChildLoss,
                  Redeliver
    <2>2. CASE u # s
      BY <2>1, <2>2, BusyIs DEF Tables
    <2>3. CASE u = s
      BY <1>1, <2>3, IdleIs DEF WorkerStep, Extract, ExtractCommit, Match
    <2> QED
      BY <2>2, <2>3
  <1>2. CASE ~ (\E u \in Slots : WorkerStep(u)) /\ ~ Crash
    BY <1>2 DEF Next, Rerun, AddEntry, EditEntry, RemoveEntry, SetEntry
  <1> QED
    BY <1>1, <1>2

(* A match takes all there is to say about its item. *)
LEMMA MatchHolds ==
    ASSUME Tables, NEW s \in Slots, NEW i \in Items, NEW n \in Tries, Match(s, i, n),
           NEW f \in Matched(i), f.item = i
    PROVE  OnItsWay(f)'
  <1> DEFINE job == [task |-> "match", item |-> i, tries |-> n, found |-> Matched(i),
                     held |-> TRUE,
                     loaded |-> [e \in {g.by : g \in Matched(i)} \ {NoEntry} |-> entry[e].hits]]
  <1>1. Busy(s, job)
    BY DEF Match
  <1>2. job.task = "match" /\ job.held /\ job.item = i /\ f \in job.found
    OBVIOUS
  <1> HIDE DEF job
  <1>3. slot'[s] = job
    BY <1>1, BusyIs DEF Tables
  <1> QED
    BY <1>2, <1>3 DEF OnItsWay

LEMMA AnswerStays ==
    ASSUME Tables, Next, NEW i \in Items, i \notin missed', NEW f \in Matched(i), Answered(f)
    PROVE  Answered(f)'
  <1>1. f.item = i
    BY MatchedIs DEF Tables
  <1>2. CASE Told(f)
    BY <1>2, ToldStays DEF Answered
  <1>3. CASE Awaited(i)
    <2>1. CASE Awaited(i)'
      BY <2>1, <1>1 DEF Answered, OnItsWay
    <2>2. CASE \E s \in Slots, n \in Tries : Match(s, i, n)
      BY <2>2, <1>1, MatchHolds DEF Answered
    <2> QED
      BY <1>3, <2>1, <2>2, AwaitedStays
  <1>4. ASSUME NEW s \in Slots, slot[s].task = "match", slot[s].held, slot[s].item = i,
               f \in slot[s].found
        PROVE  Answered(f)'
    <2>1. CASE slot'[s] = slot[s]
      BY <2>1, <1>1, <1>4 DEF Answered, OnItsWay
    <2>2. CASE MatchCommit(s)
      <3> DEFINE a == [run |-> run[slot[s].item], found |-> f, entry |-> f.by,
                       told |-> Recipients(CaseOf[slot[s].item])]
      <3>1. a \in alert'
        BY <2>2, <1>4 DEF MatchCommit
      <3>2. a.found = f /\ a.told = Members[CaseOf[i]]
        BY <1>4 DEF Recipients
      <3> HIDE DEF a
      <3> QED
        BY <3>1, <3>2, <1>1 DEF Answered, Told
    <2>3. ASSUME NEW n \in Tries, Queue(i, n)
          PROVE  Answered(f)'
      <3>1. queue'[<<i, n>>] > 0
        BY <2>3, QueueIs DEF Tables
      <3> QED
        BY <3>1, <1>1 DEF Answered, OnItsWay, Awaited
    <2>4. slot[s].tries \in Tries
      BY <1>4, SlotIs, JobIs DEF Tables
    <2>5. CASE MatchFails(s)
      <3>1. CASE MayRetry(slot[s].tries) /\ Queue(slot[s].item, slot[s].tries + 1)
        <4>1. slot[s].tries + 1 \in Tries
          BY <3>1, <2>4, WatchlistAssumption DEF Tries, MayRetry
        <4> QED
          BY <2>3, <3>1, <4>1, <1>4
      <3> QED
        BY <2>5, <3>1, <1>4 DEF MatchFails, Lose
    <2>6. CASE Redeliver(s)
      BY <2>3, <2>4, <2>6, <1>4 DEF Redeliver
    <2>7. CASE ChildLoss(s)
      BY <2>7, <1>4 DEF ChildLoss, Lose
    <2>8. CASE Crash
      BY <2>4, <2>8, <1>1, <1>4, CrashQueues DEF Answered, OnItsWay, Awaited
    <2> QED
      BY <1>4, <2>1, <2>2, <2>5, <2>6, <2>7, <2>8, MatchStays
  <1> QED
    BY <1>1, <1>2, <1>3, <1>4 DEF Answered, OnItsWay

-----------------------------------------------------------------------------
(* Whatever is to be told is told, or on its way. *)

(* What is found in an item is found at once, with the message to come. *)
LEMMA FoundAtOnce ==
    ASSUME Tables, ExtractionsRight, Next, NEW i \in Items, entity'[i] # entity[i]
    PROVE  entity[i] = {} /\ (Awaited(i)' \/ i \in missed')
  <1>1. PICK s \in Slots : ExtractCommit(s)
    <2>1. \A s \in Slots, j \in Items : Extract(s, j) => UNCHANGED entity
      BY DEF Extract
    <2>2. (\A s \in Slots, j \in Items : ~ Extract(s, j)) /\ (\A s \in Slots : ~ ExtractCommit(s))
             => UNCHANGED entity
      BY ExtractionsStay
    <2> QED
      BY <2>1, <2>2
  <1>2. /\ slot[s].task = "extract" /\ slot[s].item = i
        /\ UNCHANGED <<queue, missed>>
    BY <1>1, ExtractCommitSlot
  <1>3. entity[i] = {} /\ (Awaited(i) \/ i \in missed)
    BY <1>2 DEF ExtractionsRight
  <1> QED
    BY <1>2, <1>3 DEF Awaited

LEMMA NextRepeats ==
    ASSUME Tables, ExtractionsRight, RepeatsRight, Next
    PROVE  RepeatsRight'
  <1> SUFFICES ASSUME NEW n \in {Normal(x) : x \in Texts}, NEW k \in Cases,
                      Cardinality(Holders(n, k)') >= Threshold,
                      Holders(n, k)' \cap missed' = {}
               PROVE  \E i \in Holders(n, k)' : Answered(Hit("repeated", i, n, NoEntry))'
    BY DEF RepeatsRight
  <1>1. \A i \in Items : Hit("repeated", i, n, NoEntry).item = i
    BY DEF Hit
  <1>2. CASE \E i \in Holders(n, k)' : entity'[i] # entity[i]
    <2> PICK i \in Holders(n, k)' : entity'[i] # entity[i]
      BY <1>2
    <2>1. i \in Items /\ i \notin missed'
      BY DEF Holders
    <2>2. Awaited(i)'
      BY <2>1, FoundAtOnce
    <2>3. OnItsWay(Hit("repeated", i, n, NoEntry))'
      BY <1>1, <2>1, <2>2 DEF OnItsWay
    <2> QED
      BY <2>3 DEF Answered
  <1>3. CASE \A i \in Holders(n, k)' : entity'[i] = entity[i]
    <2>1. Holders(n, k) = Holders(n, k)'
      <3>1. \A i \in Holders(n, k) : entity[i] # {} /\ i \in Items
        BY DEF Holders, Normals
      <3>2. \A i \in Holders(n, k) : entity'[i] = entity[i]
        BY <3>1, FoundAtOnce
      <3> QED
        BY <1>3, <3>2 DEF Holders, Normals
    <2>2. Cardinality(Holders(n, k)) >= Threshold /\ Holders(n, k) \cap missed = {}
      BY <2>1, MissedStays
    <2>3. PICK i \in Holders(n, k) : Answered(Hit("repeated", i, n, NoEntry))
      BY <2>2 DEF RepeatsRight
    <2>4. i \in Items /\ CaseOf[i] = k /\ n \in Normals(i) /\ i \notin missed'
      BY <2>1, <2>3 DEF Holders
    <2>5. Others(i, n) = Holders(n, k) \ {i}
      BY <2>4 DEF Others, Holders
    <2>6. IsFiniteSet(Holders(n, k))
      BY FiniteAssumption, FS_Subset DEF Holders
    <2>7. Cardinality(Others(i, n)) = Cardinality(Holders(n, k)) - 1
          /\ Cardinality(Holders(n, k)) \in Nat
      BY <2>3, <2>5, <2>6, FS_RemoveElement, FS_CardinalityType
    <2>8. n \in Repeated(i)
      BY <2>2, <2>4, <2>7, WatchlistAssumption DEF Repeated
    <2>9. Hit("repeated", i, n, NoEntry) \in Matched(i)
      BY <2>8 DEF Matched
    <2>10. Answered(Hit("repeated", i, n, NoEntry))'
      BY <2>3, <2>4, <2>9, AnswerStays
    <2> QED
      BY <2>1, <2>3, <2>10
  <1> QED
    BY <1>2, <1>3

LEMMA NextShared ==
    ASSUME Tables, ExtractionsRight, SharedRight, Next
    PROVE  SharedRight'
  <1> SUFFICES ASSUME NEW i \in Items \ missed', NEW j \in Items \ missed', CaseOf[i] # CaseOf[j],
                      NEW n \in Normals(i)' \cap Normals(j)'
               PROVE  \E h \in {i, j} : Answered(Hit("crossCase", h, n, NoEntry))'
    BY DEF SharedRight
  <1>1. \A h \in Items : Hit("crossCase", h, n, NoEntry).item = h
    BY DEF Hit
  <1>2. ASSUME NEW h \in {i, j}, entity'[h] # entity[h]
        PROVE  Answered(Hit("crossCase", h, n, NoEntry))'
    <2>1. Awaited(h)'
      BY <1>2, FoundAtOnce
    <2>2. OnItsWay(Hit("crossCase", h, n, NoEntry))'
      BY <1>1, <2>1 DEF OnItsWay
    <2> QED
      BY <2>2 DEF Answered
  <1>3. CASE entity'[i] = entity[i] /\ entity'[j] = entity[j]
    <2>1. n \in Normals(i) /\ n \in Normals(j) /\ i \notin missed /\ j \notin missed
      BY <1>3, MissedStays DEF Normals
    <2>2. PICK h \in {i, j} : Answered(Hit("crossCase", h, n, NoEntry))
      BY <2>1 DEF SharedRight
    <2>3. n \in CrossCase(h)
      BY <2>1 DEF CrossCase
    <2>4. Hit("crossCase", h, n, NoEntry) \in Matched(h)
      BY <2>3 DEF Matched
    <2>5. Answered(Hit("crossCase", h, n, NoEntry))'
      BY <2>2, <2>4, AnswerStays
    <2> QED
      BY <2>5
  <1> QED
    BY <1>2, <1>3

(* Without an edit the entries that there are stay as they were. *)
LEMMA UneditedStays ==
    ASSUME Tables, Next, Unedited'
    PROVE  /\ Unedited
           /\ \A e \in Entries : Exists(e)' => /\ Exists(e)
                                               /\ entry'[e].term = entry[e].term
                                               /\ entry'[e].active = entry[e].active
  <1>1. ASSUME NEW c \in Causes, Take(c)
        PROVE  Unedited /\ c \notin {"add", "edit"}
    BY <1>1, TakeIs DEF Unedited, Causes
  <1>2. CASE UNCHANGED <<left, entry>>
    BY <1>2 DEF Unedited, Exists
  <1>3. CASE \E s \in Slots : WorkerStep(s)
    <2> PICK s \in Slots : WorkerStep(s)
      BY <1>3
    <2>1. CASE MatchCommit(s)
      <3>1. Unedited
        BY <2>1 DEF MatchCommit, Unedited
      <3>2. \A e \in DOMAIN slot[s].loaded : Exists(e)
        BY <2>1 DEF MatchCommit, LoadedExist
      <3>3. \A e \in Entries : entry'[e] = IF e \in DOMAIN slot[s].loaded
                                           THEN [entry[e] EXCEPT !.hits = Raised(s, e)]
                                           ELSE entry[e]
        BY <2>1 DEF MatchCommit
      <3>4. \A e \in Entries : Exists(e) => entry[e] \in Entry
        BY RowIs DEF Tables
      <3>5. ASSUME NEW e \in Entries, Exists(e)'
            PROVE  Exists(e) /\ entry'[e].term = entry[e].term /\ entry'[e].active = entry[e].active
        <4>1. CASE e \in DOMAIN slot[s].loaded
          <5>1. entry[e] \in Entry /\ entry'[e] = [entry[e] EXCEPT !.hits = Raised(s, e)]
            BY <3>2, <3>3, <3>4, <4>1
          <5>2. entry'[e].term = entry[e].term /\ entry'[e].active = entry[e].active
            BY <5>1 DEF Entry
          <5> QED
            BY <3>2, <4>1, <5>2
        <4>2. CASE e \notin DOMAIN slot[s].loaded
          BY <3>3, <3>5, <4>2 DEF Exists
        <4> QED
          BY <4>1, <4>2
      <3> QED
        BY <3>1, <3>5
    <2>2. CASE ~ MatchCommit(s)
      <3>1. UNCHANGED entry /\ (UNCHANGED left \/ \E c \in Causes : Take(c))
        BY <2>2 DEF WorkerStep, Extract, ExtractCommit, Match, MatchFails, ChildLoss, Redeliver,
                    Causes
      <3> QED
        BY <1>1, <1>2, <3>1 DEF Exists
    <2> QED
      BY <2>1, <2>2
  <1>4. CASE (\E i \in Items : Rerun(i)) \/ Crash
    <2>1. UNCHANGED entry /\ \E c \in Causes : Take(c)
      BY <1>4 DEF Rerun, Crash, Causes
    <2> QED
      BY <1>1, <2>1 DEF Exists
  <1>5. CASE \E e \in Entries : AddEntry(e) \/ EditEntry(e) \/ RemoveEntry(e)
    <2> PICK e \in Entries : AddEntry(e) \/ EditEntry(e) \/ RemoveEntry(e)
      BY <1>5
    <2>1. RemoveEntry(e) /\ Unedited
      BY <1>1 DEF AddEntry, EditEntry, RemoveEntry, Causes
    <2>2. \A d \in Entries : Exists(d)' => entry'[d] = entry[d]
      BY <2>1 DEF RemoveEntry, SetEntry, Exists, Tables, TypeOK
    <2> QED
      BY <2>1, <2>2 DEF Exists
  <1> QED
    BY <1>3, <1>4, <1>5 DEF Next

LEMMA NextWatched ==
    ASSUME Tables, ExtractionsRight, WatchedRight, Next
    PROVE  WatchedRight'
  <1> SUFFICES ASSUME Unedited', NEW i \in Items \ missed', NEW x \in entity'[i], x.type = "email",
                      NEW e \in Watching(x, CaseOf[i])'
               PROVE  Answered(Hit("watchlist", i, Normal(x), e))'
    BY DEF WatchedRight
  <1> DEFINE f == Hit("watchlist", i, Normal(x), e)
  <1>1. f.item = i
    BY DEF Hit
  <1>2. CASE entity'[i] # entity[i]
    <2>1. Awaited(i)'
      BY <1>2, FoundAtOnce
    <2> HIDE DEF f
    <2>2. OnItsWay(f)'
      BY <1>1, <2>1 DEF OnItsWay
    <2>3. Answered(f)'
      BY <2>2 DEF Answered
    <2> QED
      BY <2>3 DEF f
  <1>3. CASE entity'[i] = entity[i]
    <2>1. Unedited /\ e \in Watching(x, CaseOf[i]) /\ i \notin missed /\ x \in entity[i]
      BY <1>3, UneditedStays, MissedStays DEF Watching
    <2>2. Answered(f)
      BY <2>1 DEF WatchedRight
    <2>3. e \in Applicable(i)
      BY <2>1 DEF Watching, Applicable
    <2>4. x \in Texts
      BY <2>1 DEF Tables, TypeOK
    <2>5. Matches(entry[e].term, x)
      <3>1. ~ entry[e].term.regex /\ entry[e].term.list = "email" /\ entry[e].term.text = x
        BY <2>1 DEF Watching
      <3>2. x.type \in TargetTypes("email")
        BY DEF TargetTypes
      <3>3. EntryNormal(x) = Normal(x)
        BY <2>4, NormalIs
      <3> QED
        BY <3>1, <3>2, <3>3 DEF Matches
    <2>6. f \in Matched(i)
      <3>1. <<x, e>> \in {p \in entity[i] \X Applicable(i) : Matches(entry[p[2]].term, p[1])}
        BY <2>1, <2>3, <2>5
      <3> QED
        BY <3>1 DEF Matched
    <2> HIDE DEF f
    <2>7. Answered(f)'
      BY <2>2, <2>6, AnswerStays
    <2> QED
      BY <2>7 DEF f
  <1> QED
    BY <1>2, <1>3

-----------------------------------------------------------------------------
(* The invariant, and what it says once nothing is left to do. *)

LEMMA InitInv == Init => MatchInv
  <1> SUFFICES ASSUME Init PROVE MatchInv
    OBVIOUS
  <1>1. Tables
    BY InitTables
  <1>2. ExtractionsRight
    BY IdleIs DEF Init, ExtractionsRight
  <1>3. CountsRight
    <2>1. \A e \in Entries : Exists(e) => entry[e].hits = 0
      BY DEF Init, Exists
    <2>2. \A e \in Entries : {a \in alert : a.entry = e} = {}
      BY DEF Init
    <2> QED
      BY <2>1, <2>2, FS_EmptySet DEF Init, CountsRight, HitsCounted
  <1>4. \A i \in Items : entity[i] = {} /\ Normals(i) = {}
    BY DEF Init, Normals
  <1>5. RepeatsRight
    <2>1. ASSUME NEW n, NEW k
          PROVE  ~ (Cardinality(Holders(n, k)) >= Threshold)
      <3>1. Holders(n, k) = {}
        BY <1>4 DEF Holders
      <3>2. Cardinality(Holders(n, k)) = 0
        BY <3>1, FS_EmptySet
      <3> QED
        BY <3>2, WatchlistAssumption
    <2> QED
      BY <2>1 DEF RepeatsRight
  <1>6. SharedRight /\ WatchedRight
    BY <1>4 DEF SharedRight, WatchedRight
  <1> QED
    BY <1>1, <1>2, <1>3, <1>5, <1>6 DEF MatchInv

LEMMA NextInv == MatchInv /\ [Next]_vars => MatchInv'
  <1> SUFFICES ASSUME MatchInv, [Next]_vars PROVE MatchInv'
    OBVIOUS
  <1>1. CASE Next
    BY <1>1, NextTables, NextExtractions, NextCounts, NextRepeats, NextShared, NextWatched
       DEF MatchInv
  <1>2. CASE UNCHANGED vars
    <2>1. Tables'
      BY <1>2 DEF MatchInv, Tables, TypeOK, JobsRight, Exists, vars
    <2>2. ExtractionsRight' /\ CountsRight'
      BY <1>2 DEF MatchInv, ExtractionsRight, Awaited, CountsRight, HitsCounted, Exists, vars
    <2>3. \A f : Answered(f) => Answered(f)'
      BY <1>2 DEF Answered, Told, OnItsWay, Awaited, vars
    <2>4. RepeatsRight' /\ SharedRight' /\ WatchedRight'
      BY <1>2, <2>3 DEF MatchInv, RepeatsRight, SharedRight, WatchedRight, Holders, Normals,
                        Unedited, Watching, Exists, vars
    <2> QED
      BY <2>1, <2>2, <2>4 DEF MatchInv
  <1> QED
    BY <1>1, <1>2

LEMMA AlwaysInv == Spec => []MatchInv
  BY InitInv, NextInv, PTL DEF Spec

(* Every row, alert, message and job is in its type, and an alert refers   *)
(* to an entry that exists (ON DELETE SET NULL).                           *)
THEOREM TypeCorrect == Spec => []TypeOK
  <1>1. MatchInv => TypeOK
    BY DEF MatchInv, Tables
  <1> QED
    BY <1>1, AlwaysInv, PTL

(* The hit count of an entry is the number of alerts that refer to it,     *)
(* unless two matches that found it overlapped (increment_hit_count).      *)
THEOREM HitsAlwaysCounted == Spec => []HitsCounted
  <1>1. MatchInv => HitsCounted
    BY DEF MatchInv, CountsRight
  <1> QED
    BY <1>1, AlwaysInv, PTL

(* When nothing waits and nothing runs, nothing is on its way. *)
LEMMA QuietIsTold ==
    ASSUME Tables, Quiet, NEW f, f.item \in Items, Answered(f)
    PROVE  Told(f)
  <1>1. \A s \in Slots : slot[s].task # "match"
    BY IdleIs DEF Quiet
  <1>2. ~ Awaited(f.item)
    <2>1. \A n \in Tries : <<f.item, n>> \in Items \X Tries /\ queue[<<f.item, n>>] = 0
      BY DEF Quiet, Tables, TypeOK
    <2>2. \A n \in Tries : ~ (queue[<<f.item, n>>] > 0)
      BY <2>1
    <2> QED
      BY <2>2 DEF Awaited
  <1> QED
    BY <1>1, <1>2 DEF Answered, OnItsWay

(* The engine, its queue and its workers tell whatever is repeated, shared *)
(* by two cases or watched for, in whatever order the items come, through  *)
(* retries, crashes of the worker and repeated messages, except about items*)
(* whose match came too early, was given up, or lost its message.          *)
THEOREM MatchesAlwaysTold == Spec => []MatchesTold
  <1>1. MatchInv => MatchesTold
    <2> SUFFICES ASSUME MatchInv, Quiet PROVE MatchesTold
      BY DEF MatchesTold, RepeatTold, CrossCaseTold, EmailTold
    <2>1. \A i, n, e, kind : Hit(kind, i, n, e).item = i
      BY DEF Hit
    <2>2. \A i \in Items : \A n, e, kind :
             Answered(Hit(kind, i, n, e)) => Told(Hit(kind, i, n, e))
      BY <2>1, QuietIsTold DEF MatchInv
    <2>3. RepeatTold
      BY <2>2 DEF MatchInv, RepeatsRight, RepeatTold, Holders
    <2>4. CrossCaseTold
      BY <2>2 DEF MatchInv, SharedRight, CrossCaseTold
    <2>5. EmailTold
      BY <2>2 DEF MatchInv, WatchedRight, EmailTold
    <2> QED
      BY <2>3, <2>4, <2>5 DEF MatchesTold
  <1> QED
    BY <1>1, AlwaysInv, PTL

=============================================================================
