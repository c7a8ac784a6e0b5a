-------------------------- MODULE TimelineAnalysis --------------------------
(***************************************************************************)
(* What the analysis makes of the events of a case: services/              *)
(* timeline_analysis.py and the statistics of TimelineService.  Time       *)
(* passes in ticks; titles are told apart by how alike they are.           *)
(***************************************************************************)
EXTENDS Integers, Sequences, FiniteSets, SequencesExt, StableSort

CONSTANTS
    EventIds, Types, Titles,
    CategoryOf,      \* category of each type; none is chosen by hand
    Alike,           \* pairs of titles whose similarity reaches 0.85
    NearlySame,      \* pairs of titles whose similarity reaches 0.9
    LastTick,
    GapThreshold, InactivityThreshold,
    DuplicateWindow, ConflictDistance,
    ClusterWindow, ClusterMinEvents,
    Undated

ASSUME AnalysisAssumption ==
    /\ {LastTick, GapThreshold, InactivityThreshold, DuplicateWindow,
        ConflictDistance, ClusterWindow} \subseteq Nat
    /\ IsFiniteSet(Types) /\ Undated \notin 0..LastTick
    /\ NearlySame \subseteq Alike /\ Alike \subseteq Titles \X Titles
    /\ \A t \in Titles : <<t, t>> \in NearlySame
    /\ GapThreshold <= InactivityThreshold
    /\ DuplicateWindow < ConflictDistance
    /\ ClusterMinEvents \in Nat \ {0}

VARIABLE events   \* as all_for_case returns them

Ticks == 0..LastTick
Event == [id : EventIds, at : Ticks \cup {Undated}, type : Types, title : Titles]

At(s, i) == s[i].at
Ids(s) == {s[i].id : i \in DOMAIN s}

-----------------------------------------------------------------------------
(* Detectors.                                                              *)

(* _dated: stable sort of the events that have a time.                     *)
Dated(s) == SortedBy(s, [i \in {j \in DOMAIN s : s[j].at # Undated} |-> s[i].at])

(* Slip: a pause as long as the threshold counts. *)
GapsClosed(s, threshold) ==
    LET d == Dated(s) IN
    {<<At(d, i), At(d, i + 1)>> : i \in {j \in 1..Len(d) - 1 : At(d, j + 1) - At(d, j) >= threshold}}

(* detect_gaps, detect_inactivity: start and end of each long pause.       *)
Gaps(s, threshold) ==
    LET d == Dated(s) IN
    {<<At(d, i), At(d, i + 1)>> : i \in {j \in 1..Len(d) - 1 : At(d, j + 1) - At(d, j) > threshold}}

(* Only an event that is in no group yet may start or join one.            *)
Fresh(id, used) == id \notin used

Joins(a, b, used) ==
    /\ b.at - a.at <= DuplicateWindow
    /\ Fresh(b.id, used)
    /\ a.type = b.type
    /\ <<a.title, b.title>> \in Alike

(* The event and the later ones that are near and alike.                   *)
GroupFrom(d, i, used) ==
    {d[i].id} \cup {d[j].id : j \in {k \in i + 1..Len(d) : Joins(d[i], d[k], used)}}

Gather(d, groups, i) ==
    LET group == GroupFrom(d, i, UNION groups)
    IN IF Fresh(d[i].id, UNION groups) /\ Cardinality(group) > 1
       THEN groups \cup {group} ELSE groups

(* detect_duplicates: from the earliest event on, each event that is not   *)
(* in a group yet gathers a group.                                         *)
Duplicates(s) ==
    LET d == Dated(s)
        gathered[i \in 0..Len(d)] == IF i = 0 THEN {} ELSE Gather(d, gathered[i - 1], i)
    IN gathered[Len(d)]

(* detect_conflicts: the same thing, told at distant times.                *)
Disagree(a, b) ==
    /\ a.type = b.type
    /\ b.at - a.at >= ConflictDistance
    /\ <<a.title, b.title>> \in NearlySame

Conflicting(d) ==
    {p \in (DOMAIN d) \X (DOMAIN d) : p[1] < p[2] /\ Disagree(d[p[1]], d[p[2]])}

Conflicts(s) ==
    LET d == Dated(s) IN {{d[p[1]].id, d[p[2]].id} : p \in Conflicting(d)}

(* The scan goes on behind a cluster.                                      *)
NextStart(j) == j + 1

(* The last event that is near the i-th.                                   *)
WindowEnd(d, i) == CHOOSE j \in i..Len(d) :
    /\ At(d, j) - At(d, i) <= ClusterWindow
    /\ j = Len(d) \/ At(d, j + 1) - At(d, i) > ClusterWindow

Window(d, i) == {d[k].id : k \in i..WindowEnd(d, i)}
Full(d, i) == WindowEnd(d, i) - i + 1 >= ClusterMinEvents

(* detect_clusters: the scan takes each event that is not behind it as the *)
(* start of a window, and keeps the windows with enough events.            *)
Clusters(s) ==
    LET d == Dated(s)
        scan[i \in 1..Len(d) + 1] ==
            IF i > Len(d) THEN {}
            ELSE IF Full(d, i) THEN {Window(d, i)} \cup scan[NextStart(WindowEnd(d, i))]
            ELSE scan[i + 1]
    IN scan[1]

(* group_related *)
Groups(s) ==
    LET members(cat) == {s[i].id : i \in {j \in DOMAIN s : CategoryOf[s[j].type] = cat}}
    IN {members(CategoryOf[s[i].type]) : i \in DOMAIN s}

Count(s, Test(_)) == Cardinality({i \in DOMAIN s : Test(s[i])})

(* TimelineService.stats *)
Stats(s) ==
    [total |-> Len(s),
     undated |-> Count(s, LAMBDA e : e.at = Undated),
     by_type |-> [t \in Types |-> Count(s, LAMBDA e : e.type = t)],
     times |-> {At(s, i) : i \in {j \in DOMAIN s : s[j].at # Undated}}]

(* analyze: every detector over the same events.                           *)
Analysis(s) ==
    [gaps |-> Gaps(s, GapThreshold), inactivity |-> Gaps(s, InactivityThreshold),
     conflicts |-> Conflicts(s), duplicates |-> Duplicates(s),
     clusters |-> Clusters(s), groups |-> Groups(s)]

-----------------------------------------------------------------------------
(* The events of a case: recorded one by one, given another time, and no   *)
(* longer analysed once they are removed or merged into another one.       *)

AnalysisInit == events = <<>>

(* all_for_case: by time, undated events last, ties in any order.          *)
Ordered(s) ==
    \A i \in 1..Len(s) - 1 :
        s[i + 1].at # Undated => s[i].at # Undated /\ s[i].at <= s[i + 1].at

Record(e) ==
    /\ e.id \notin Ids(events)
    /\ \E i \in 1..Len(events) + 1 :
         /\ Ordered(InsertAt(events, i, e))
         /\ events' = InsertAt(events, i, e)

Drop(i) == events' = RemoveAt(events, i)

AnalysisNext ==
    \/ \E e \in Event : Record(e)
    \/ \E i \in DOMAIN events : Drop(i)

AnalysisSpec == AnalysisInit /\ [][AnalysisNext]_events

-----------------------------------------------------------------------------
(* Properties.                                                             *)

EventOf(id) == events[CHOOSE i \in DOMAIN events : events[i].id = id]
DatedIds == {id \in Ids(events) : EventOf(id).at # Undated}
Distance(a, b) == LET x == EventOf(a).at  y == EventOf(b).at IN IF x <= y THEN y - x ELSE x - y

(* Every silence is reported once: the pauses are the pairs of times with  *)
(* events at both ends, none between and more than the threshold apart,    *)
(* and every period of inactivity lies in the list of gaps (detect_gaps).  *)
SilencesFound(found) ==
    LET times == {EventOf(id).at : id \in DatedIds}
        silent(threshold) == {p \in times \X times :
            p[1] + threshold < p[2] /\ \A z \in times : ~(p[1] < z /\ z < p[2])}
    IN /\ found.gaps = silent(GapThreshold)
       /\ found.inactivity \subseteq found.gaps

(* No burst escapes: whenever enough events lie in one window, one of them *)
(* is in a cluster; clusters are disjoint and each fits in a window        *)
(* (detect_clusters scans greedily).                                       *)
BurstsFound(found) ==
    /\ \A burst \in kSubset(ClusterMinEvents, DatedIds) :
         (\A a, b \in burst : Distance(a, b) <= ClusterWindow) => burst \cap UNION found.clusters # {}
    /\ \A c \in found.clusters : \A a, b \in c : Distance(a, b) <= ClusterWindow
    /\ \A c, e \in found.clusters : c # e => c \cap e = {}

(* Duplicates are gathered although being alike is not transitive: of two  *)
(* events of a type that are near and alike in both directions, one is in  *)
(* a group; no event is in two groups, and no pair is called a duplicate   *)
(* and a conflict at once (detect_duplicates, detect_conflicts).           *)
DuplicatesGathered(found) ==
    LET groups == found.duplicates IN
    /\ \A a, b \in DatedIds :
         /\ a # b /\ Distance(a, b) <= DuplicateWindow
         /\ EventOf(a).type = EventOf(b).type
         /\ {<<EventOf(a).title, EventOf(b).title>>, <<EventOf(b).title, EventOf(a).title>>} \subseteq Alike
         => {a, b} \cap UNION groups # {}
    /\ \A g, h \in groups : g # h => g \cap h = {}
    /\ \A g \in groups, pair \in found.conflicts : ~(pair \subseteq g)

(* The statistics and the groups lose and double nothing: the counts by    *)
(* type add up to the events, as many strokes as there are events; each    *)
(* event is in one group (stats, group_related).                           *)
NothingLost(found) ==
    LET stats == Stats(events)
        strokes == UNION {{t} \X (1..stats.by_type[t]) : t \in Types}
    IN /\ Cardinality(strokes) = stats.total
       /\ stats.undated = stats.total - Cardinality(DatedIds)
       /\ UNION found.groups = Ids(events)
       /\ \A g, h \in found.groups : g # h => g \cap h = {}

(* What is in the events is found, once: silences, bursts and duplicates,  *)
(* and the figures beside them add up (timeline_analysis.py).              *)
DetectorsFind ==
    LET found == Analysis(events) IN
    SilencesFound(found) /\ BurstsFound(found) /\ DuplicatesGathered(found) /\ NothingLost(found)
=============================================================================
