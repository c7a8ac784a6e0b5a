---------------------------- MODULE EvidenceGraph ----------------------------
(***************************************************************************)
(* The relationship graph of a case:                                       *)
(* AIIntelligenceService.get_relationship_graph over the entities that the *)
(* pipeline extracted.  A key stands for an entity type and a normalised   *)
(* value cut to 50 characters.                                             *)
(***************************************************************************)
EXTENDS Naturals, Sequences, FiniteSets, SequencesExt, FiniteSetsExt

CONSTANTS
    Sources,      \* evidence items of the case
    Keys,
    MaxNodes,     \* max_nodes of the request
    FetchLimit,   \* rows fetched: 5 * max_nodes
    MaxEdges,     \* edges returned: 200
    MaxMentions   \* bound: rows of evidence_entities

ASSUME GraphAssumption ==
    MaxEdges \in Nat /\ FetchLimit \in Nat /\ MaxNodes \in 1..FetchLimit

VARIABLE mentions   \* entity rows by falling confidence, ties in any order

Mention == [item : Sources, key : Keys]

FirstOf(s, n) == SubSeq(s, 1, IF Len(s) < n THEN Len(s) ELSE n)
KeysOf(s) == {s[i].key : i \in DOMAIN s}

Fetched(s) == FirstOf(s, FetchLimit)

(* The loop ends with the row that brings the last node.                   *)
Stop(s, i) == Cardinality(KeysOf(FirstOf(s, i - 1))) >= MaxNodes

(* The rows from which nodes and their evidence are collected.             *)
Seen(s) ==
    LET f == Fetched(s) IN
    FirstOf(f, Cardinality({i \in DOMAIN f : ~Stop(f, i)}))

Nodes(s) == KeysOf(Seen(s))

EvidenceCount(s, n) == Cardinality({Seen(s)[i].item : i \in {j \in DOMAIN Seen(s) : Seen(s)[j].key = n}})

(* Slip: each mention of an entity in an item counts. *)
RepeatsNever(s, i) == FALSE

(* A node stands once in the list of an item.                              *)
Repeats(s, i) == \E j \in 1..i - 1 : Fetched(s)[j] = Fetched(s)[i]

(* evidence_to_nodes, over all the fetched rows: the rows that bring a     *)
(* node into the list of their item, which keeps their order.              *)
Places(s) == {i \in DOMAIN Fetched(s) : Fetched(s)[i].key \in Nodes(s) /\ ~Repeats(s, i)}

(* edge_counts: each two places of an item's list count for their nodes.   *)
Together(s, pair) ==
    LET f == Fetched(s) IN
    {p \in Places(s) \X Places(s) :
        p[1] < p[2] /\ f[p[1]].item = f[p[2]].item /\ {f[p[1]].key, f[p[2]].key} = pair}

Weight(s, pair) == Cardinality(Together(s, pair))

(* A single node has no edge.                                              *)
EdgesOf(s) ==
    {pair \in SUBSET Nodes(s) :
        Cardinality(Nodes(s)) >= 2 /\ Cardinality(pair) \in {1, 2} /\ Weight(s, pair) > 0}

(* The heaviest edges are returned, equal ones in any order.               *)
Returned(s) ==
    {kept \in SUBSET EdgesOf(s) :
        /\ Cardinality(kept) = IF Cardinality(EdgesOf(s)) < MaxEdges
                               THEN Cardinality(EdgesOf(s)) ELSE MaxEdges
        /\ \A p \in kept, q \in EdgesOf(s) \ kept : Weight(s, p) >= Weight(s, q)}

-----------------------------------------------------------------------------
(* Extraction adds rows, a second run over an item the same ones again.    *)

GraphInit == mentions = <<>>

Extract(row, i) ==
    /\ Len(mentions) < MaxMentions
    /\ mentions' = InsertAt(mentions, i, row)

GraphNext == \E row \in Mention, i \in 1..Len(mentions) + 1 : Extract(row, i)

GraphSpec == GraphInit /\ [][GraphNext]_mentions

-----------------------------------------------------------------------------
(* The items of the fetched rows that mention an entity.                   *)
MentionedIn(n) == {e \in Sources : [item |-> e, key |-> n] \in ToSet(Fetched(mentions))}

(* The graph says what the evidence says: its nodes are the entities of    *)
(* the surest rows, an edge weighs the number of items that mention both   *)
(* its ends and joins two different nodes, no edge is lost but to the      *)
(* limit, and a node's evidence covers its edges unless the graph is full  *)
(* (get_relationship_graph).                                               *)
GraphFaithful ==
    LET f == Fetched(mentions)
        nodes == Nodes(mentions)
        rank(n) == Min({i \in DOMAIN f : f[i].key = n})
    IN /\ Cardinality(nodes) = Min({MaxNodes, Cardinality(KeysOf(f))})
       /\ \A n \in nodes, k \in KeysOf(f) \ nodes : rank(n) < rank(k)
       /\ \A pair \in EdgesOf(mentions) : Cardinality(pair) = 2
       /\ \A a, b \in nodes : a # b =>
            Weight(mentions, {a, b}) = Cardinality(MentionedIn(a) \cap MentionedIn(b))
       /\ \A kept \in Returned(mentions) :
            Cardinality(EdgesOf(mentions)) <= MaxEdges => kept = EdgesOf(mentions)
       /\ Cardinality(nodes) < MaxNodes =>
            \A pair \in EdgesOf(mentions) : \A n \in pair :
                Weight(mentions, pair) <= EvidenceCount(mentions, n)
=============================================================================
