---------------------------- MODULE ReadingProofs ----------------------------
(* What those are shown who read while others write: the assistant, which  *)
(* reads a conversation and a summary, whoever pages through a list or     *)
(* searches, the relationship graph of a case, the figures on every board  *)
(* and what the analysis finds in a timeline, for any number of requests,  *)
(* rows and events, any length of a prompt or a page.                      *)
EXTENDS CaseAssistant, Listings, CaseSearch, EvidenceGraph, Tallies, TimelineAnalysis,
        SequenceTheorems, FunctionTheorems, FiniteSetTheorems, TLAPS

(***************************************************************************)
(* Orders and prompts.                                                     *)
(***************************************************************************)

(* A set of numbers that is not empty has a least one. *)
LEMMA Least ==
    ASSUME NEW T \in SUBSET Nat, T # {}
    PROVE  \E x \in T : \A y \in T : x <= y
  <1>1. PICK x \in T : \A y \in T : ~ (<<y, x>> \in OpToRel(<, Nat))
    BY NatLessThanWellFounded, WFMin
  <1>2. \A y \in T : ~ (y < x)
    BY <1>1 DEF OpToRel
  <1> QED
    BY <1>2

(* What never falls from one place to the next never falls. *)
LEMMA NeverFalls ==
    ASSUME NEW n \in Nat, NEW f \in [1..n -> Nat],
           \A i \in 1..n - 1 : f[i] <= f[i + 1],
           NEW i \in 1..n, NEW j \in i..n
    PROVE  f[i] <= f[j]
  <1> DEFINE lower == {k \in i..n : f[k] < f[i]}
  <1> SUFFICES ASSUME f[j] < f[i]
               PROVE  FALSE
    OBVIOUS
  <1>1. lower \in SUBSET Nat /\ lower # {}
    <2>1. j \in i..n /\ i..n \subseteq Nat
      OBVIOUS
    <2> QED
      BY <2>1
  <1>2. PICK k \in lower : \A l \in lower : k <= l
    <2> HIDE DEF lower
    <2> QED
      BY <1>1, Least
  <1>3. k \in i..n /\ f[k] < f[i]
    OBVIOUS
  <1>4. k # i /\ k - 1 \in i..n /\ k - 1 \in 1..n - 1
    BY <1>3
  <1>5. f[k - 1] <= f[k]
    <2>1. f[k - 1] <= f[(k - 1) + 1]
      BY <1>4
    <2> QED
      BY <2>1, <1>3
  <1>6. k - 1 \in lower
    BY <1>3, <1>4, <1>5
  <1> QED
    BY <1>2, <1>4, <1>6

(* An order of some messages lists each of them, by time. *)
LEMMA OrdersList ==
    ASSUME NEW S, IsFiniteSet(S), S \subseteq Message, NEW order \in Orders(S)
    PROVE  /\ order \in Seq(S) /\ Len(order) = Cardinality(S) /\ Len(order) \in Nat
           /\ \A m \in S : \E i \in 1..Len(order) : order[i] = m
           /\ \A i, j \in 1..Len(order) : i <= j => order[i].at <= order[j].at
  <1> DEFINE N == Cardinality(S)
  <1>1. N \in Nat
    BY FS_CardinalityType
  <1>2. /\ order \in [1..N -> S]
        /\ \A i, j \in 1..N : i # j => order[i] # order[j]
        /\ \A i \in 1..Len(order) - 1 : order[i].at <= order[i + 1].at
    BY DEF Orders, SetToSeqs
  <1>3. IsFiniteSet(1..N) /\ Cardinality(1..N) = N
    BY <1>1, FS_Interval
  <1> HIDE DEF N
  <1>4. order \in Injection(1..N, S)
    BY <1>2 DEF Injection, IsInjective
  <1>5. order \in Surjection(1..N, S)
    BY <1>3, <1>4, FS_Injection DEF N
  <1>6. order \in Seq(S)
    BY <1>1, <1>2, SeqDef
  <1>7. Len(order) = N
    <2>1. Len(order) \in Nat /\ DOMAIN order = 1..Len(order)
      BY <1>6, LenProperties
    <2> QED
      BY <1>1, <1>2, <2>1
  <1>8. \A i, j \in 1..N : i <= j => order[i].at <= order[j].at
    <2> DEFINE f == [i \in 1..N |-> order[i].at]
    <2>1. f \in [1..N -> Nat]
      BY <1>2, AssistantAssumption DEF Message
    <2>2. \A i \in 1..N - 1 : f[i] <= f[i + 1]
      BY <1>1, <1>2, <1>7
    <2>3. \A i \in 1..N : \A j \in i..N : f[i] <= f[j]
      <3> HIDE DEF f
      <3> QED
        BY <1>1, <2>1, <2>2, NeverFalls
    <2> TAKE i, j \in 1..N
    <2> HAVE i <= j
    <2>4. j \in i..N
      BY <1>1
    <2>5. f[i] <= f[j]
      BY <2>3, <2>4
    <2> QED
      BY <2>5
  <1>9. \A m \in S : \E i \in 1..N : order[i] = m
    BY <1>5 DEF Surjection
  <1> QED
    BY <1>1, <1>6, <1>7, <1>8, <1>9 DEF N

(* A prompt is the end of the order: within the limit, nothing older than  *)
(* what was left out, and the last message last. *)
LEMMA PromptIsEnd ==
    ASSUME NEW S, IsFiniteSet(S), S \subseteq Message, S # {}, NEW order \in Orders(S)
    PROVE  LET kept == ToSet(Newest(order)) IN
           /\ Newest(order) \in Seq(S) /\ Len(Newest(order)) <= HistoryLimit
           /\ kept \subseteq S
           /\ \A m \in S \ kept, n \in kept : m.at <= n.at
           /\ Last(Newest(order)) \in S
           /\ \A m \in S : m.at <= Last(Newest(order)).at
  <1> DEFINE N == Len(order)
             a == IF N > HistoryLimit THEN N - HistoryLimit + 1 ELSE 1
             p == Newest(order)
  <1>1. /\ order \in Seq(S) /\ N \in Nat /\ N = Cardinality(S)
        /\ \A m \in S : \E i \in 1..N : order[i] = m
        /\ \A i, j \in 1..N : i <= j => order[i].at <= order[j].at
    BY OrdersList
  <1>2. N # 0
    BY <1>1
  <1>3. a \in 1..N /\ N - a + 1 <= HistoryLimit
    BY <1>1, <1>2, AssistantAssumption
  <1>4. p = SubSeq(order, a, N)
    BY DEF Newest
  <1>5. \A i \in 1..N : order[i] \in S
    BY <1>1, ElementOfSeq
  <1> HIDE DEF a, N, p
  <1>6. /\ p \in Seq(S) /\ Len(p) = N - a + 1
        /\ \A i \in 1..N - a + 1 : p[i] = order[a + i - 1]
    <2>1. \A i \in a..N : order[i] \in S
      BY <1>1, <1>3, <1>5
    <2>2. a \in Int /\ N \in Int /\ a <= N
      BY <1>1, <1>3
    <2> QED
      BY <1>4, <2>1, <2>2, SubSeqProperties
  <1>7. DOMAIN p = 1..N - a + 1
    BY <1>6, LenProperties
  <1>8. /\ \A n \in ToSet(p) : \E k \in a..N : order[k] = n
        /\ \A k \in a..N : order[k] \in ToSet(p)
    <2>1. ASSUME NEW n \in ToSet(p)
          PROVE  \E k \in a..N : order[k] = n
      <3>1. PICK i \in 1..N - a + 1 : p[i] = n
        BY <1>7 DEF ToSet
      <3>2. a + i - 1 \in a..N
        BY <1>1, <1>3
      <3>3. order[a + i - 1] = n
        BY <1>6, <3>1
      <3> QED
        BY <3>2, <3>3
    <2>2. ASSUME NEW k \in a..N
          PROVE  order[k] \in ToSet(p)
      <3> DEFINE i == k - a + 1
      <3>1. i \in 1..N - a + 1 /\ a + i - 1 = k
        BY <1>1, <1>3
      <3> HIDE DEF i
      <3>2. p[i] = order[k]
        BY <1>6, <3>1
      <3> QED
        BY <1>7, <3>1, <3>2 DEF ToSet
    <2> QED
      BY <2>1, <2>2
  <1>9. Last(p) = order[N]
    <2> DEFINE e == N - a + 1
    <2>1. e \in 1..N - a + 1 /\ a + e - 1 = N /\ Len(p) = e
      BY <1>1, <1>3, <1>6
    <2> HIDE DEF e
    <2>2. p[e] = order[N]
      BY <1>6, <2>1
    <2> QED
      BY <2>1, <2>2 DEF Last
  <1>10. \A m \in S \ ToSet(p) : \E i \in 1..N : order[i] = m /\ i < a
    <2> TAKE m \in S \ ToSet(p)
    <2>1. PICK i \in 1..N : order[i] = m
      BY <1>1
    <2>2. i \notin a..N
      BY <1>8, <2>1
    <2>3. i < a
      BY <1>1, <1>3, <2>2
    <2> QED
      BY <2>1, <2>3
  <1>11. \A m \in S \ ToSet(p), n \in ToSet(p) : m.at <= n.at
    <2> TAKE m \in S \ ToSet(p), n \in ToSet(p)
    <2>1. PICK i \in 1..N : order[i] = m /\ i < a
      BY <1>10
    <2>2. PICK k \in a..N : order[k] = n
      BY <1>8
    <2>3. k \in 1..N /\ i <= k
      BY <1>1, <1>3, <2>1, <2>2
    <2> QED
      BY <1>1, <2>1, <2>2, <2>3
  <1>12. \A m \in S : m.at <= Last(p).at
    <2> TAKE m \in S
    <2>1. PICK i \in 1..N : order[i] = m
      BY <1>1
    <2>2. i \in 1..N /\ N \in 1..N /\ i <= N
      <3>1. N \in 1..N
        BY <1>1, <1>2
      <3> QED
        BY <1>1, <3>1
    <2>3. order[i].at <= order[N].at
      BY <1>1, <2>2
    <2> QED
      BY <1>9, <2>1, <2>3
  <1>13. ToSet(p) \subseteq S /\ Last(p) \in S
    <2>1. N \in 1..N /\ \A k \in a..N : k \in 1..N
      BY <1>1, <1>2, <1>3
    <2>2. \A k \in a..N : order[k] \in S
      BY <1>5, <2>1
    <2>3. \A n \in ToSet(p) : n \in S
      BY <1>8, <2>2
    <2>4. order[N] \in S
      BY <1>5, <2>1
    <2> QED
      BY <1>9, <2>3, <2>4
  <1> QED
    BY <1>3, <1>6, <1>11, <1>12, <1>13 DEF p

(***************************************************************************)
(* The inductive invariant.                                                *)
(***************************************************************************)

(* What a prompt owes to the conversation it was read from.                *)
PromptRight(r) ==
    LET kept == ToSet(r.prompt)
        omitted == r.read \ kept
        later == {m \in r.read : m.at > r.at}
    IN /\ Len(r.prompt) <= HistoryLimit
       /\ \A m \in omitted, n \in kept : m.at <= n.at
       /\ Cardinality({m.chat : m \in omitted} \cap {m.chat : m \in kept}) <= 1
       /\ later = {} => Last(r.prompt) = r.question

(* A request bears the instant at which it began.                          *)
TurnRight(r, b, g) ==
    /\ r.at \in 1..b
    /\ r.kind = "chat" => r.question = Line(r, "user") /\ PromptRight(r)
    /\ r.kind = "save" => r.answer \in g

(* Every message has the instant of its chat, and its counterpart.         *)
MessagesRight ==
    /\ IsFiniteSet(said) /\ said \subseteq Message
    /\ \A m \in said : m.chat = m.at /\ m.at <= begun
    /\ \A m \in said : \E n \in said : n.chat = m.chat /\ n.role # m.role

(* No two requests share an instant, and none has said anything yet.       *)
InstantsDiffer ==
    /\ \A t, u \in Turns : turn[t] # Idle /\ turn[u] # Idle /\ t # u => turn[t].at # turn[u].at
    /\ \A t \in Turns, m \in said : turn[t] # Idle => m.at # turn[t].at

AssistantInv ==
    /\ DOMAIN turn = Turns /\ begun \in 0..MaxBegun /\ given \subseteq Summary
    /\ \A t \in Turns : turn[t] # Idle => TurnRight(turn[t], begun, given)
    /\ MessagesRight
    /\ InstantsDiffer
    /\ SummaryWhole

LEMMA AssistantInitInv == AssistantInit => AssistantInv
  BY FS_EmptySet, AssistantAssumption
     DEF AssistantInit, AssistantInv, MessagesRight, InstantsDiffer, SummaryWhole

(* The invariant says what the run checks.                                 *)
LEMMA AssistantInvCoheres == AssistantInv => AssistantCoherent
  <1> SUFFICES ASSUME AssistantInv
               PROVE  AssistantCoherent
    OBVIOUS
  <1>1. ExchangesTogether
    <2>1. ASSUME NEW m \in said, NEW n \in said, NEW x \in said,
                 m.chat = n.chat, m.at <= x.at, x.at <= n.at
          PROVE  x.chat = m.chat
      <3>1. m.at = m.chat /\ n.at = n.chat /\ x.at = x.chat
        BY DEF AssistantInv, MessagesRight
      <3>2. m.at \in Nat /\ n.at \in Nat /\ x.at \in Nat
        BY DEF AssistantInv, MessagesRight, Message
      <3> QED
        BY <2>1, <3>1, <3>2
    <2> QED
      BY <2>1 DEF AssistantInv, MessagesRight, ExchangesTogether
  <1>2. PromptsRecent
    <2>1. ASSUME NEW t \in Turns, Doing(t, "chat")
          PROVE  PromptRight(turn[t])
      BY <2>1 DEF AssistantInv, TurnRight, Doing
    <2> QED
      BY <2>1 DEF PromptsRecent, PromptRight
  <1> QED
    BY <1>1, <1>2 DEF AssistantInv, AssistantCoherent

(* A request that moves on keeps its instant. *)
LEMMA MovesOn ==
    ASSUME AssistantInv, NEW t \in Turns, turn[t] # Idle,
           NEW r, r.at = turn[t].at, TurnRight(r, begun, given'),
           turn' = [turn EXCEPT ![t] = r],
           UNCHANGED <<said, begun>>,
           given \subseteq given', given' \subseteq Summary, SummaryWhole'
    PROVE  AssistantInv'
  <1>1. /\ DOMAIN turn' = Turns /\ turn'[t] = r
        /\ \A u \in Turns : u # t => turn'[u] = turn[u]
    BY DEF AssistantInv
  <1>2. \A u \in Turns : turn'[u] # Idle => TurnRight(turn'[u], begun, given')
    BY <1>1 DEF AssistantInv, TurnRight
  <1>3. InstantsDiffer'
    BY <1>1 DEF AssistantInv, InstantsDiffer
  <1> QED
    BY <1>1, <1>2, <1>3 DEF AssistantInv, MessagesRight

LEMMA ArriveKeeps ==
    ASSUME AssistantInv, NEW t \in Turns, Arrive(t)
    PROVE  AssistantInv'
  <1> DEFINE r == [kind |-> "arrived", at |-> begun']
  <1>1. /\ begun' = begun + 1 /\ begun' \in 0..MaxBegun /\ begun \in Nat
        /\ turn[t] = Idle /\ turn' = [turn EXCEPT ![t] = r]
        /\ UNCHANGED <<said, summary, given, blended>>
    BY AssistantAssumption DEF Arrive, AssistantInv
  <1>2. /\ DOMAIN turn' = Turns /\ turn'[t] = r
        /\ \A u \in Turns : u # t => turn'[u] = turn[u]
    BY <1>1 DEF AssistantInv
  <1>3. \A u \in Turns : turn[u] # Idle => turn[u].at \in 1..begun
    BY DEF AssistantInv, TurnRight
  <1>4. \A u \in Turns : turn'[u] # Idle => TurnRight(turn'[u], begun', given')
    <2> TAKE u \in Turns
    <2> HAVE turn'[u] # Idle
    <2>1. CASE u = t
      <3>1. r.at \in 1..begun' /\ r.kind = "arrived"
        BY <1>1
      <3> QED
        BY <1>2, <2>1, <3>1 DEF TurnRight
    <2>2. CASE u # t
      <3>1. turn[u].at \in 1..begun'
        BY <1>1, <1>2, <1>3, <2>2
      <3> QED
        BY <1>1, <1>2, <2>2, <3>1 DEF AssistantInv, TurnRight
    <2> QED
      BY <2>1, <2>2
  <1>5. MessagesRight'
    <2>1. \A m \in said : m.at \in Nat /\ m.at <= begun
      BY DEF AssistantInv, MessagesRight, Message
    <2> QED
      BY <1>1, <2>1 DEF AssistantInv, MessagesRight
  <1>6. InstantsDiffer'
    <2>1. r.at = begun'
      OBVIOUS
    <2>2. \A m \in said : m.at \in Nat /\ m.at <= begun
      BY DEF AssistantInv, MessagesRight, Message
    <2> HIDE DEF r
    <2> QED
      BY <1>1, <1>2, <1>3, <2>1, <2>2 DEF AssistantInv, InstantsDiffer
  <1>7. SummaryWhole'
    BY <1>1 DEF AssistantInv, SummaryWhole
  <1> QED
    BY <1>1, <1>2, <1>4, <1>5, <1>6, <1>7 DEF AssistantInv

(* A request that leaves takes nothing with it. *)
LEMMA LeavesBe ==
    ASSUME AssistantInv, NEW t \in Turns, Done(t), UNCHANGED begun, UNCHANGED given
    PROVE  /\ DOMAIN turn' = Turns /\ turn'[t] = Idle
           /\ \A u \in Turns : turn'[u] # Idle => u # t /\ turn'[u] = turn[u]
           /\ \A u \in Turns : turn'[u] # Idle => TurnRight(turn'[u], begun', given')
  <1>1. DOMAIN turn' = Turns /\ turn'[t] = Idle
    BY DEF AssistantInv, Done
  <1>2. \A u \in Turns : u # t => turn'[u] = turn[u]
    BY DEF AssistantInv, Done
  <1> QED
    BY <1>1, <1>2 DEF AssistantInv, TurnRight

(* The prompt is right when it is written. *)
LEMMA PromptIsRight ==
    ASSUME AssistantInv, NEW t \in Turns, turn[t] # Idle,
           NEW order \in Orders(said \cup {Line(turn[t], "user")}),
           NEW r, r.at = turn[t].at, r.question = Line(turn[t], "user"),
           r.read = said, r.prompt = Newest(order)
    PROVE  PromptRight(r)
  <1> DEFINE q == r.question
             S == said \cup {q}
             kept == ToSet(r.prompt)
             omitted == r.read \ kept
             cut == {m.chat : m \in omitted} \cap {m.chat : m \in kept}
  <1>1. q \in Message /\ q.chat = q.at /\ q.at = turn[t].at
    <2>1. turn[t].at \in 1..MaxBegun
      BY AssistantAssumption DEF AssistantInv, TurnRight
    <2> QED
      BY <2>1 DEF Line, Stamp, Message, Roles
  <1>2. /\ IsFiniteSet(S) /\ S \subseteq Message /\ S # {}
        /\ \A m \in S : m.chat = m.at /\ m.at \in Nat
    BY <1>1, FS_AddElement DEF AssistantInv, MessagesRight, Message
  <1>3. /\ Len(r.prompt) <= HistoryLimit /\ kept \subseteq S
        /\ \A m \in S \ kept, n \in kept : m.at <= n.at
        /\ Last(r.prompt) \in S /\ \A m \in S : m.at <= Last(r.prompt).at
    <2> HIDE DEF S
    <2>1. order \in Orders(S)
      BY DEF S
    <2> QED
      BY <1>2, <2>1, PromptIsEnd
  <1>4. \A m \in omitted, n \in kept : m.at <= n.at
    BY <1>3
  <1>5. Cardinality(cut) <= 1
    <2>1. ASSUME NEW c \in cut, NEW d \in cut
          PROVE  c <= d /\ c \in Nat
      <3>1. PICK m \in omitted : m.chat = c
        OBVIOUS
      <3>2. PICK n \in kept : n.chat = d
        OBVIOUS
      <3>3. m \in S /\ n \in S
        BY <1>3
      <3> QED
        BY <1>2, <1>4, <3>1, <3>2, <3>3
    <2> HIDE DEF cut
    <2>2. CASE cut = {}
      BY <2>2, FS_EmptySet
    <2>3. ASSUME NEW c \in cut
          PROVE  Cardinality(cut) <= 1
      <3>1. \A d \in cut : d = c
        BY <2>1
      <3>2. cut = {c}
        BY <3>1
      <3> QED
        BY <3>2, FS_Singleton
    <2> QED
      BY <2>2, <2>3
  <1>6. ASSUME {m \in r.read : m.at > r.at} = {}
        PROVE  Last(r.prompt) = q
    <2> DEFINE l == Last(r.prompt)
    <2>1. l \in S /\ q.at <= l.at /\ l.at \in Nat /\ q.at \in Nat
      BY <1>2, <1>3
    <2>2. ASSUME l \in said
          PROVE  FALSE
      <3>1. l.at # q.at
        BY <1>1, <2>2 DEF AssistantInv, InstantsDiffer
      <3>2. l.at > r.at
        BY <1>1, <2>1, <3>1
      <3> QED
        BY <1>6, <2>2, <3>2
    <2> QED
      BY <2>1, <2>2
  <1> QED
    BY <1>3, <1>4, <1>5, <1>6 DEF PromptRight

LEMMA AskKeeps ==
    ASSUME AssistantInv, NEW t \in Turns, Ask(t)
    PROVE  AssistantInv'
  <1>1. PICK order \in Orders(said \cup {Line(turn[t], "user")}) :
            turn' = [turn EXCEPT ![t] =
                [kind |-> "chat", at |-> turn[t].at, question |-> Line(turn[t], "user"),
                 read |-> said, prompt |-> Newest(order)]]
    BY DEF Ask
  <1> DEFINE r == [kind |-> "chat", at |-> turn[t].at, question |-> Line(turn[t], "user"),
                   read |-> said, prompt |-> Newest(order)]
  <1>2. turn[t] # Idle /\ UNCHANGED <<said, summary, given, begun, blended>>
    BY DEF Ask, Doing
  <1>3. /\ r.kind = "chat" /\ r.at = turn[t].at /\ r.read = said
        /\ r.question = Line(turn[t], "user") /\ r.prompt = Newest(order)
    OBVIOUS
  <1>4. turn' = [turn EXCEPT ![t] = r]
    BY <1>1
  <1> HIDE DEF r
  <1>5. PromptRight(r)
    BY <1>2, <1>3, PromptIsRight
  <1>6. Line(r, "user") = Line(turn[t], "user")
    BY <1>3 DEF Line, Stamp
  <1>7. TurnRight(r, begun, given')
    BY <1>2, <1>3, <1>5, <1>6 DEF AssistantInv, TurnRight
  <1>8. SummaryWhole' /\ given' \subseteq Summary
    BY <1>2 DEF AssistantInv, SummaryWhole
  <1> QED
    BY <1>2, <1>3, <1>4, <1>7, <1>8, MovesOn

LEMMA ReplyKeeps ==
    ASSUME AssistantInv, NEW t \in Turns, Reply(t)
    PROVE  AssistantInv'
  <1> DEFINE q == Line(turn[t], "user")
             a == Line(turn[t], "assistant")
  <1>1. /\ turn[t] # Idle /\ said' = said \cup {q, a} /\ Done(t)
        /\ UNCHANGED <<summary, given, begun, blended>>
    BY DEF Reply, Doing, AssistantInv, TurnRight
  <1>2. turn[t].at \in 1..begun /\ begun \in Nat /\ begun <= MaxBegun
    BY <1>1, AssistantAssumption DEF AssistantInv, TurnRight
  <1>3. /\ q \in Message /\ q.chat = turn[t].at /\ q.at = turn[t].at /\ q.role = "user"
        /\ a \in Message /\ a.chat = turn[t].at /\ a.at = turn[t].at /\ a.role = "assistant"
    BY <1>2, AssistantAssumption DEF Line, Stamp, Message, Roles
  <1> HIDE DEF q, a
  <1>4. MessagesRight'
    <2>1. IsFiniteSet(said')
      <3>1. IsFiniteSet(said \cup {q})
        BY FS_AddElement DEF AssistantInv, MessagesRight
      <3>2. said' = (said \cup {q}) \cup {a}
        BY <1>1
      <3> QED
        BY <3>1, <3>2, FS_AddElement
    <2>2. said' \subseteq Message /\ \A m \in said' : m.chat = m.at /\ m.at <= begun'
      BY <1>1, <1>2, <1>3 DEF AssistantInv, MessagesRight
    <2>3. \A m \in said' : \E n \in said' : n.chat = m.chat /\ n.role # m.role
      BY <1>1, <1>3 DEF AssistantInv, MessagesRight
    <2> QED
      BY <2>1, <2>2, <2>3 DEF MessagesRight
  <1>5. /\ DOMAIN turn' = Turns
        /\ \A u \in Turns : turn'[u] # Idle => u # t /\ turn'[u] = turn[u]
        /\ \A u \in Turns : turn'[u] # Idle => TurnRight(turn'[u], begun', given')
    BY <1>1, LeavesBe
  <1>6. InstantsDiffer'
    <2>1. \A u, v \in Turns : turn'[u] # Idle /\ turn'[v] # Idle /\ u # v => turn'[u].at # turn'[v].at
      BY <1>5 DEF AssistantInv, InstantsDiffer
    <2>2. \A u \in Turns, m \in said' : turn'[u] # Idle => m.at # turn'[u].at
      BY <1>1, <1>3, <1>5 DEF AssistantInv, InstantsDiffer
    <2> QED
      BY <2>1, <2>2 DEF InstantsDiffer
  <1>7. SummaryWhole' /\ given' \subseteq Summary /\ begun' \in 0..MaxBegun
    BY <1>1 DEF AssistantInv, SummaryWhole
  <1> QED
    BY <1>4, <1>5, <1>6, <1>7 DEF AssistantInv

LEMMA SummariseKeeps ==
    ASSUME AssistantInv, NEW t \in Turns, Summarise(t)
    PROVE  AssistantInv'
  <1> DEFINE r == [kind |-> "summarise", at |-> turn[t].at]
  <1>1. /\ turn[t] # Idle /\ turn' = [turn EXCEPT ![t] = r]
        /\ UNCHANGED <<said, summary, given, begun, blended>>
    BY DEF Summarise, Doing
  <1>2. r.kind = "summarise" /\ r.at = turn[t].at
    OBVIOUS
  <1> HIDE DEF r
  <1>3. TurnRight(r, begun, given') /\ SummaryWhole' /\ given' \subseteq Summary
    BY <1>1, <1>2 DEF AssistantInv, TurnRight, SummaryWhole
  <1> QED
    BY <1>1, <1>2, <1>3, MovesOn

LEMMA LookUpKeeps ==
    ASSUME AssistantInv, NEW t \in Turns, NEW answer \in Summary, LookUp(t, answer)
    PROVE  AssistantInv'
  <1> DEFINE r == [kind |-> "save", at |-> turn[t].at, answer |-> answer, existing |-> summary]
  <1>1. /\ turn[t] # Idle /\ turn' = [turn EXCEPT ![t] = r] /\ given' = given \cup {answer}
        /\ UNCHANGED <<said, summary, begun, blended>>
    BY DEF LookUp, Doing
  <1>2. r.kind = "save" /\ r.at = turn[t].at /\ r.answer = answer
    OBVIOUS
  <1> HIDE DEF r
  <1>3. TurnRight(r, begun, given')
    BY <1>1, <1>2 DEF AssistantInv, TurnRight
  <1>4. given \subseteq given' /\ given' \subseteq Summary
    BY <1>1 DEF AssistantInv
  <1>5. SummaryWhole'
    BY <1>1, <1>4 DEF AssistantInv, SummaryWhole
  <1> QED
    BY <1>1, <1>2, <1>3, <1>4, <1>5, MovesOn

(* What is left when only a request goes.                                  *)
LEMMA GoesAlone ==
    ASSUME AssistantInv, NEW t \in Turns, Done(t),
           UNCHANGED <<said, begun, given>>, SummaryWhole'
    PROVE  AssistantInv'
  <1>1. /\ DOMAIN turn' = Turns
        /\ \A u \in Turns : turn'[u] # Idle => u # t /\ turn'[u] = turn[u]
        /\ \A u \in Turns : turn'[u] # Idle => TurnRight(turn'[u], begun', given')
    BY LeavesBe
  <1>2. InstantsDiffer'
    BY <1>1 DEF AssistantInv, InstantsDiffer
  <1> QED
    BY <1>1, <1>2 DEF AssistantInv, MessagesRight

(* An update sets the columns in which the answer differs from what was    *)
(* loaded: with nobody in between, the summary becomes the answer. *)
LEMMA SaveKeeps ==
    ASSUME AssistantInv, NEW t \in Turns, Save(t)
    PROVE  AssistantInv'
  <1> DEFINE r == turn[t]
             over == [c \in Columns |-> IF Answered(r, c) THEN r.answer[c] ELSE summary[c]]
  <1>1. /\ turn[t] # Idle /\ r.kind = "save" /\ Done(t)
        /\ summary' = IF summary = NoSummary THEN r.answer
                      ELSE IF r.existing = NoSummary THEN summary ELSE over
        /\ blended' = IF r.existing = NoSummary THEN blended ELSE summary # r.existing
        /\ UNCHANGED <<said, given, begun>>
    BY DEF Save, Doing
  <1>2. r.answer \in given /\ r.answer \in Summary
    BY <1>1 DEF AssistantInv, TurnRight
  <1>3. /\ r.answer = [c \in Columns |-> r.answer[c]]
        /\ \A c \in Columns : over[c] = IF r.answer[c] # r.existing[c] THEN r.answer[c] ELSE summary[c]
    BY <1>2 DEF Summary, Columns, Answered
  <1>4. summary = r.existing => over = r.answer
    BY <1>3 DEF Answered
  <1> HIDE DEF r, over
  <1>5. SummaryWhole'
    <2>1. summary' # NoSummary /\ ~blended' => summary' \in given
      BY <1>1, <1>2, <1>4 DEF AssistantInv, SummaryWhole
    <2>2. ASSUME summary' # NoSummary, NEW c \in Columns
          PROVE  \E g \in given : summary'[c] = g[c]
      <3>1. CASE summary = NoSummary
        BY <1>1, <1>2, <3>1
      <3>2. CASE summary # NoSummary /\ r.existing = NoSummary
        BY <1>1, <3>2 DEF AssistantInv, SummaryWhole
      <3>3. CASE summary # NoSummary /\ r.existing # NoSummary
        BY <1>1, <1>2, <1>3, <3>3 DEF AssistantInv, SummaryWhole
      <3> QED
        BY <3>1, <3>2, <3>3
    <2> QED
      BY <1>1, <2>1, <2>2 DEF SummaryWhole
  <1> QED
    BY <1>1, <1>5, GoesAlone

LEMMA GiveUpKeeps ==
    ASSUME AssistantInv, NEW t \in Turns, GiveUp(t)
    PROVE  AssistantInv'
  <1>1. Done(t) /\ UNCHANGED <<said, summary, given, begun, blended>>
    BY DEF GiveUp
  <1>2. SummaryWhole'
    BY <1>1 DEF AssistantInv, SummaryWhole
  <1> QED
    BY <1>1, <1>2, GoesAlone

LEMMA AssistantStepInv == AssistantInv /\ [AssistantNext]_assistantVars => AssistantInv'
  <1> SUFFICES ASSUME AssistantInv, [AssistantNext]_assistantVars
               PROVE  AssistantInv'
    OBVIOUS
  <1>1. ASSUME UNCHANGED <<said, summary, given, turn, begun, blended>>
        PROVE  AssistantInv'
    BY <1>1 DEF AssistantInv, MessagesRight, InstantsDiffer, SummaryWhole
  <1>2. ASSUME RemoveCase
        PROVE  AssistantInv'
    BY <1>1, <1>2 DEF RemoveCase
  <1>3. ASSUME NEW t \in Turns,
               Arrive(t) \/ Ask(t) \/ Reply(t) \/ Summarise(t) \/ Save(t) \/ GiveUp(t)
        PROVE  AssistantInv'
    BY <1>3, ArriveKeeps, AskKeeps, ReplyKeeps, SummariseKeeps, SaveKeeps, GiveUpKeeps
  <1>4. ASSUME NEW t \in Turns, NEW answer \in Summary, LookUp(t, answer)
        PROVE  AssistantInv'
    BY <1>4, LookUpKeeps
  <1>5. CASE UNCHANGED assistantVars
    BY <1>1, <1>5 DEF assistantVars
  <1> QED
    BY <1>2, <1>3, <1>4, <1>5 DEF AssistantNext

(* What the assistant shows and is told is coherent, whatever overlaps: a  *)
(* question and its reply stand together, a prompt is the end of the       *)
(* conversation, and a summary that no overlap has mixed is one answer of  *)
(* the model (chat, regenerate_case_summary).                              *)
THEOREM AssistantAlwaysCoherent == AssistantSpec => []AssistantCoherent
  <1>1. AssistantInit => AssistantInv
    BY AssistantInitInv
  <1>2. AssistantInv /\ [AssistantNext]_assistantVars => AssistantInv'
    BY AssistantStepInv
  <1>3. AssistantInv => AssistantCoherent
    BY AssistantInvCoheres
  <1> QED
    BY <1>1, <1>2, <1>3, PTL DEF AssistantSpec

(***************************************************************************)
(* Pages.                                                                  *)
(***************************************************************************)

LEMMA MinOfTwo ==
    ASSUME NEW a \in Nat, NEW b \in Nat
    PROVE  Min({a, b}) = IF a <= b THEN a ELSE b
  <1> DEFINE m == IF a <= b THEN a ELSE b
  <1>1. m \in {a, b} /\ \A y \in {a, b} : m <= y
    OBVIOUS
  <1>2. \A x \in {a, b} : (\A y \in {a, b} : x <= y) => x = m
    OBVIOUS
  <1> HIDE DEF m
  <1>3. Min({a, b}) = m
    BY <1>1, <1>2 DEF Min
  <1> QED
    BY <1>3 DEF m

LEMMA MaxOfTwo ==
    ASSUME NEW a \in Int, NEW b \in Int
    PROVE  Max({a, b}) = IF a >= b THEN a ELSE b
  <1> DEFINE m == IF a >= b THEN a ELSE b
  <1>1. m \in {a, b} /\ \A y \in {a, b} : m >= y
    OBVIOUS
  <1>2. \A x \in {a, b} : (\A y \in {a, b} : x >= y) => x = m
    OBVIOUS
  <1> HIDE DEF m
  <1>3. Max({a, b}) = m
    BY <1>1, <1>2 DEF Max
  <1> QED
    BY <1>3 DEF m

(* As many pages as are told hold every row. *)
LEMMA PagesHold ==
    ASSUME NEW total \in Nat
    PROVE  /\ PagesFor(total) \in Nat \ {0}
           /\ \A n \in Nat : PagesFor(total) <= n => total <= n * PageLength
  <1> DEFINE L == PageLength
             x == total + L - 1
             d == x \div L
  <1>1. L \in Nat \ {0} /\ x \in Nat
    BY ListingAssumption
  <1>2. d \in Int /\ d * L <= x /\ x < (d + 1) * L
    <2> HIDE DEF x, L
    <2> QED
      BY <1>1
  <1> HIDE DEF d
  <1>3. PagesFor(total) = IF 1 >= d THEN 1 ELSE d
    BY <1>2, MaxOfTwo DEF PagesFor, d
  <1>4. total <= d * L
    <2>1. (d + 1) * L = d * L + L
      BY <1>1, <1>2
    <2>2. d * L \in Int
      BY <1>1, <1>2
    <2> QED
      BY <1>1, <1>2, <2>1, <2>2
  <1>5. ASSUME NEW n \in Nat, d <= n
        PROVE  d * L <= n * L
    BY <1>1, <1>2, <1>5
  <1>6. \A n \in Nat : d <= n => total <= n * L
    <2> TAKE n \in Nat
    <2> HAVE d <= n
    <2>1. d * L \in Int /\ n * L \in Int
      BY <1>1, <1>2
    <2> QED
      BY <1>1, <1>4, <1>5, <2>1
  <1> QED
    BY <1>2, <1>3, <1>6

(* The rows up to this one, itself among them.                             *)
Ahead(r) == {q \in Listed : Before(place[q], place[r])}

ListTypes ==
    /\ place \in [Rows -> 1..LastKey \cup {NoRow}]
    /\ reader \in [does : {"rests", "asks", "fetches", "done"}, page : Nat \ {0},
                   pages : Nat \ {0}, shown : SUBSET Rows]
    /\ reader.does = "rests" => reader.page = 1
    /\ steady \subseteq Listed
    /\ \A r \in steady : \A q \in Listed \ {r} : place[q] # place[r]

(* A steady row was shown or lies ahead.                                   *)
NoneMissed ==
    \A r \in steady :
        r \in reader.shown \/ Cardinality(Ahead(r)) > Offset(reader.page)

CountRight ==
    reader.does = "fetches" /\ ~torn => reader.pages = PagesFor(Cardinality(Listed))

ListInv ==
    /\ ListTypes
    /\ reader.does # "done" => NoneMissed /\ CountRight
    /\ PagesMissNothing

LEMMA ListedFinite ==
    /\ IsFiniteSet(Listed) /\ Cardinality(Listed) \in Nat
    /\ \A S \in SUBSET Listed :
         IsFiniteSet(S) /\ Cardinality(S) \in Nat /\ Cardinality(S) <= Cardinality(Listed)
  <1>1. Listed \in SUBSET Rows /\ IsFiniteSet(Rows)
    BY ListingAssumption DEF Listed
  <1>2. IsFiniteSet(Listed)
    BY <1>1, FS_Subset
  <1> QED
    BY <1>2, FS_Subset, FS_CardinalityType

LEMMA PlacesCompare ==
    ASSUME NEW p \in Nat, NEW q \in Nat
    PROVE  /\ Before(p, q) \/ Before(q, p)
           /\ Before(p, q) /\ Before(q, p) => p = q
           /\ Before(p, p)
  BY DEF Before

LEMMA FirstRowsAre ==
    ASSUME NEW n \in Nat, NEW A \in FirstRows(n)
    PROVE  /\ A \subseteq Listed /\ IsFiniteSet(A) /\ Cardinality(A) \in Nat /\ Cardinality(A) <= n
           /\ Cardinality(A) = n \/ A = Listed
           /\ \A a \in A, b \in Listed \ A : Before(place[a], place[b])
  <1>1. /\ A \subseteq Listed /\ Cardinality(A) = Min({n, Cardinality(Listed)})
        /\ \A a \in A, b \in Listed \ A : Before(place[a], place[b])
    BY DEF FirstRows, kSubset
  <1>2. Cardinality(A) = IF n <= Cardinality(Listed) THEN n ELSE Cardinality(Listed)
    BY <1>1, ListedFinite, MinOfTwo
  <1>3. IsFiniteSet(A) /\ Cardinality(A) \in Nat
    BY <1>1, ListedFinite
  <1>4. Cardinality(A) = Cardinality(Listed) => A = Listed
    BY <1>1, ListedFinite, FS_Subset
  <1> QED
    BY <1>1, <1>2, <1>3, <1>4, ListedFinite

(* The first rows hold a steady row as soon as they reach it, no earlier.  *)
LEMMA SteadyInFirst ==
    ASSUME ListTypes, NEW r \in steady, NEW n \in Nat, NEW A \in FirstRows(n)
    PROVE  r \in A <=> Cardinality(Ahead(r)) <= n
  <1>1. /\ A \subseteq Listed /\ IsFiniteSet(A) /\ Cardinality(A) \in Nat /\ Cardinality(A) <= n
        /\ Cardinality(A) = n \/ A = Listed
        /\ \A a \in A, b \in Listed \ A : Before(place[a], place[b])
    BY FirstRowsAre
  <1>2. r \in Listed /\ \A q \in Listed \ {r} : place[q] # place[r]
    BY DEF ListTypes
  <1>3. \A q \in Listed : place[q] \in Nat
    BY ListingAssumption DEF ListTypes, Listed
  <1>4. /\ Ahead(r) \subseteq Listed /\ r \in Ahead(r)
        /\ IsFiniteSet(Ahead(r)) /\ Cardinality(Ahead(r)) \in Nat
    BY <1>2, <1>3, PlacesCompare, ListedFinite DEF Ahead
  <1>5. ASSUME r \in A
        PROVE  Cardinality(Ahead(r)) <= n
    <2>1. ASSUME NEW q \in Ahead(r), q \notin A
          PROVE  FALSE
      <3>1. q \in Listed /\ Before(place[q], place[r]) /\ Before(place[r], place[q])
        BY <1>1, <1>5, <2>1 DEF Ahead
      <3>2. place[q] = place[r]
        BY <1>2, <1>3, <3>1, PlacesCompare
      <3> QED
        BY <1>2, <1>5, <2>1, <3>1, <3>2
    <2>2. Ahead(r) \in SUBSET A
      BY <2>1
    <2>3. Cardinality(Ahead(r)) <= Cardinality(A)
      BY <1>1, <2>2, FS_Subset
    <2> QED
      BY <1>1, <1>4, <2>3
  <1>6. ASSUME r \notin A
        PROVE  Cardinality(Ahead(r)) > n
    <2>1. A \in SUBSET (Ahead(r) \ {r})
      BY <1>1, <1>2, <1>6 DEF Ahead
    <2>2. IsFiniteSet(Ahead(r) \ {r}) /\ Cardinality(Ahead(r) \ {r}) = Cardinality(Ahead(r)) - 1
      BY <1>4, FS_RemoveElement
    <2>3. Cardinality(A) <= Cardinality(Ahead(r)) - 1
      BY <2>1, <2>2, FS_Subset
    <2>4. Cardinality(A) = n
      BY <1>1, <1>2, <1>6
    <2> QED
      BY <1>4, <2>3, <2>4
  <1> QED
    BY <1>4, <1>5, <1>6

LEMMA ListInitInv == ListInit => ListInv
  <1> SUFFICES ASSUME ListInit
               PROVE  ListInv
    OBVIOUS
  <1>1. /\ place = [r \in Rows |-> NoRow] /\ steady = {}
        /\ reader = [does |-> "rests", page |-> 1, pages |-> 1, shown |-> {}]
    BY DEF ListInit
  <1>2. Listed = {} /\ reader.does = "rests" /\ reader.shown = {} /\ reader.page = 1
    BY <1>1 DEF Listed
  <1>3. ListTypes
    BY <1>1, <1>2 DEF ListTypes
  <1> QED
    BY <1>1, <1>2, <1>3 DEF ListInv, NoneMissed, CountRight, PagesMissNothing

(* The rows ahead of a row are not fewer for a writer that takes none      *)
(* away. *)
LEMMA AheadGrows ==
    ASSUME NEW r, Ahead(r) \subseteq Ahead(r)'
    PROVE  Cardinality(Ahead(r)) <= Cardinality(Ahead(r)')
  <1>1. Ahead(r)' \in SUBSET Rows /\ IsFiniteSet(Rows)
    BY ListingAssumption DEF Ahead, Listed
  <1>2. IsFiniteSet(Ahead(r)')
    BY <1>1, FS_Subset
  <1> QED
    BY <1>2, FS_Subset

LEMMA AheadCounts ==
    ASSUME NEW r
    PROVE  Cardinality(Ahead(r)) \in Nat
  <1>1. Ahead(r) \in SUBSET Listed
    BY DEF Ahead
  <1> QED
    BY <1>1, ListedFinite

(* What a writer may do while a list is read. *)
LEMMA WriterKeeps ==
    ASSUME ListInv, ListTypes', reader.does # "done", UNCHANGED <<list, reader>>,
           steady' \subseteq steady, Disturbs,
           \A r \in steady' : Ahead(r) \subseteq Ahead(r)'
    PROVE  ListInv'
  <1>1. NoneMissed'
    <2> SUFFICES ASSUME NEW r \in steady'
                 PROVE  (r \in reader.shown \/ Cardinality(Ahead(r)) > Offset(reader.page))'
      BY DEF NoneMissed
    <2>1. r \in reader.shown \/ Cardinality(Ahead(r)) > Offset(reader.page)
      BY DEF ListInv, NoneMissed
    <2>2. Cardinality(Ahead(r)) <= Cardinality(Ahead(r)')
      BY AheadGrows
    <2>3. reader.page \in Nat \ {0} /\ Offset(reader.page) \in Int
      BY ListingAssumption DEF ListInv, ListTypes, Offset
    <2>4. Cardinality(Ahead(r)) \in Nat /\ Cardinality(Ahead(r)') \in Nat
      <3>1. Cardinality(Ahead(r)) \in Nat
        BY AheadCounts
      <3>2. Ahead(r)' \in SUBSET Rows /\ IsFiniteSet(Rows)
        BY ListingAssumption DEF Ahead, Listed
      <3> QED
        BY <3>1, <3>2, FS_Subset, FS_CardinalityType
    <2>5. reader' = reader /\ Offset(reader'.page) = Offset(reader.page)
      OBVIOUS
    <2>6. CASE r \in reader.shown
      BY <2>5, <2>6
    <2>7. CASE Cardinality(Ahead(r)) > Offset(reader.page)
      <3>1. Cardinality(Ahead(r)') > Offset(reader.page)
        BY <2>2, <2>3, <2>4, <2>7
      <3> QED
        BY <2>5, <3>1 DEF Offset
    <2> QED
      BY <2>1, <2>6, <2>7
  <1>2. CountRight'
    BY DEF CountRight, Disturbs
  <1>3. PagesMissNothing'
    BY DEF PagesMissNothing
  <1> QED
    BY <1>1, <1>2, <1>3 DEF ListInv

LEMMA SteadyIs ==
    ASSUME ListTypes
    PROVE  /\ \A q \in Listed : place[q] \in Nat /\ q \in Rows
           /\ \A s \in steady : s \in Listed /\ \A q \in Listed \ {s} : place[q] # place[s]
  BY ListingAssumption DEF ListTypes, Listed

(* A row that comes to a place p, from elsewhere in the list or not.       *)
LEMMA PlacedRight ==
    ASSUME ListTypes, NEW r \in Rows, NEW p \in 1..LastKey,
           place' = [place EXCEPT ![r] = p], UNCHANGED reader,
           steady' \subseteq steady \ Shared(p), r \notin steady'
    PROVE  /\ ListTypes' /\ place'[r] = p /\ p \in Nat /\ Listed' = Listed \cup {r}
           /\ \A q \in Rows : q # r => place'[q] = place[q]
  <1>1. p \in Nat /\ p # NoRow
    BY ListingAssumption
  <1>2. /\ place' \in [Rows -> 1..LastKey \cup {NoRow}] /\ place'[r] = p
        /\ \A q \in Rows : q # r => place'[q] = place[q]
    BY <1>1 DEF ListTypes
  <1>3. Listed' = Listed \cup {r}
    BY <1>1, <1>2 DEF Listed
  <1>4. steady' \subseteq Listed'
    BY <1>3 DEF ListTypes
  <1>5. ASSUME NEW s \in steady', NEW q \in Listed' \ {s}
        PROVE  place'[q] # place'[s]
    <2>1. s \in steady /\ s \in Listed /\ s # r /\ place[s] # p /\ place'[s] = place[s]
      BY <1>2, SteadyIs DEF Shared
    <2>2. CASE q = r
      BY <1>2, <2>1, <2>2
    <2>3. CASE q # r
      BY <1>2, <1>3, <1>5, <2>1, <2>3, SteadyIs
    <2> QED
      BY <2>2, <2>3
  <1>6. ListTypes'
    BY <1>2, <1>4, <1>5 DEF ListTypes
  <1> QED
    BY <1>1, <1>2, <1>3, <1>6

LEMMA InsertKeeps ==
    ASSUME ListInv, NEW r \in Rows, NEW p \in 1..LastKey, Insert(r, p)
    PROVE  ListInv'
  <1>1. /\ reader.does # "done" /\ place[r] = NoRow
        /\ place' = [place EXCEPT ![r] = p]
        /\ steady' = steady \ Shared(p) /\ Disturbs /\ UNCHANGED <<list, reader>>
    BY DEF Insert
  <1>2. ListTypes
    BY DEF ListInv
  <1>3. r \notin Listed /\ r \notin steady'
    BY <1>1, <1>2, SteadyIs DEF Listed
  <1>4. /\ ListTypes' /\ place'[r] = p /\ p \in Nat /\ Listed' = Listed \cup {r}
        /\ \A q \in Rows : q # r => place'[q] = place[q]
    BY <1>1, <1>2, <1>3, PlacedRight
  <1>5. ASSUME NEW s \in steady'
        PROVE  Ahead(s) \subseteq Ahead(s)'
    <2>1. s \in Listed /\ s # r
      BY <1>1, <1>2, <1>3, SteadyIs
    <2> QED
      BY <1>1, <1>2, <1>3, <1>4, <2>1, SteadyIs DEF Ahead, Before
  <1> QED
    BY <1>1, <1>4, <1>5, WriterKeeps

LEMMA TouchKeeps ==
    ASSUME ListInv, NEW r \in Rows, NEW p \in 1..LastKey, Touch(r, p)
    PROVE  ListInv'
  <1>1. /\ reader.does # "done" /\ r \in Listed
        /\ place' = [place EXCEPT ![r] = p]
        /\ steady' = steady \ ({r} \cup Shared(p) \cup (Behind(place[r]) \ Behind(p)))
        /\ Disturbs /\ UNCHANGED <<list, reader>>
    BY DEF Touch
  <1>2. ListTypes /\ r \notin steady' /\ steady' \subseteq steady \ Shared(p)
    BY <1>1 DEF ListInv
  <1>3. /\ ListTypes' /\ place'[r] = p /\ p \in Nat /\ Listed' = Listed
        /\ \A q \in Rows : q # r => place'[q] = place[q]
    <2>1. Listed' = Listed \cup {r}
      BY <1>1, <1>2, PlacedRight
    <2>2. ListTypes' /\ place'[r] = p /\ p \in Nat
      BY <1>1, <1>2, PlacedRight
    <2>3. \A q \in Rows : q # r => place'[q] = place[q]
      BY <1>1, <1>2, PlacedRight
    <2> QED
      BY <1>1, <2>1, <2>2, <2>3
  <1>4. ASSUME NEW s \in steady', NEW q \in Ahead(s)
        PROVE  q \in Ahead(s)'
    <2>1. /\ s \in Listed /\ s # r /\ s \in Rows /\ place[s] \in Nat /\ place'[s] = place[s]
          /\ \A x \in Listed \ {s} : place[x] # place[s]
      BY <1>2, <1>3, SteadyIs
    <2>2. q \in Listed /\ q \in Rows /\ place[q] \in Nat /\ Before(place[q], place[s])
      BY <1>2, <1>4, SteadyIs DEF Ahead
    <2>3. CASE q # r
      <3>1. place'[q] = place[q]
        BY <1>3, <2>2, <2>3
      <3>2. Before(place[q], place[s])'
        BY <1>1, <2>1, <2>2, <3>1 DEF Before
      <3> QED
        BY <1>3, <2>2, <3>2 DEF Ahead
    <2>4. CASE q = r
      <3>1. ~Before(place[s], place[r])
        BY <1>1, <2>1, <2>2, <2>4, PlacesCompare
      <3>2. s \in Behind(place[r])
        BY <2>1, <3>1 DEF Behind
      <3>3. ~Before(place[s], p)
        BY <1>1, <3>2 DEF Behind
      <3>4. Before(p, place[s])
        BY <1>1, <1>3, <2>1, <3>3, PlacesCompare
      <3>5. Before(place[q], place[s])'
        BY <1>1, <1>3, <2>1, <2>4, <3>4 DEF Before
      <3> QED
        BY <1>3, <2>2, <3>5 DEF Ahead
    <2> QED
      BY <2>3, <2>4
  <1> QED
    BY <1>1, <1>2, <1>3, <1>4, WriterKeeps

LEMMA LeaveKeeps ==
    ASSUME ListInv, NEW r \in Rows, Leave(r)
    PROVE  ListInv'
  <1>1. /\ reader.does # "done" /\ r \in Listed /\ place' = [place EXCEPT ![r] = NoRow]
        /\ steady' = steady \ ({r} \cup Behind(place[r]))
        /\ Disturbs /\ UNCHANGED <<list, reader>>
    BY DEF Leave
  <1>2. /\ place' \in [Rows -> 1..LastKey \cup {NoRow}] /\ place'[r] = NoRow
        /\ \A q \in Rows : q # r => place'[q] = place[q]
    BY <1>1 DEF ListInv, ListTypes
  <1>3. Listed' = Listed \ {r}
    BY <1>2 DEF Listed
  <1>4. ListTypes /\ ListTypes'
    BY <1>1, <1>2, <1>3 DEF ListInv, ListTypes, Listed
  <1>5. ASSUME NEW s \in steady', NEW q \in Ahead(s)
        PROVE  q \in Ahead(s)'
    <2>1. /\ s \in Listed /\ s # r /\ s \in Rows /\ place[s] \in Nat /\ place'[s] = place[s]
          /\ \A x \in Listed \ {s} : place[x] # place[s]
      BY <1>1, <1>2, <1>4, SteadyIs
    <2>2. q \in Listed /\ q \in Rows /\ place[q] \in Nat /\ Before(place[q], place[s])
      BY <1>4, <1>5, SteadyIs DEF Ahead
    <2>3. Before(place[s], place[r])
      BY <1>1, <2>1 DEF Behind
    <2>4. q # r
      BY <1>1, <2>1, <2>2, <2>3, PlacesCompare
    <2>5. Before(place[q], place[s])'
      BY <1>1, <1>2, <2>1, <2>2, <2>4 DEF Before
    <2> QED
      BY <1>3, <2>2, <2>4, <2>5 DEF Ahead
  <1> QED
    BY <1>1, <1>4, <1>5, WriterKeeps

LEMMA OpenKeeps ==
    ASSUME ListInv, Open
    PROVE  ListInv'
  <1>1. /\ reader.does = "rests" /\ reader' = [reader EXCEPT !.does = "asks"]
        /\ steady' = {r \in Listed : \A q \in Listed \ {r} : place[q] # place[r]}
        /\ UNCHANGED <<list, place, torn>>
    BY DEF Open, Started, ListInv, ListTypes
  <1>2. Listed' = Listed /\ reader'.page = 1 /\ reader'.does = "asks" /\ reader'.shown = reader.shown
    BY <1>1 DEF ListInv, ListTypes, Listed
  <1>3. ListTypes'
    BY <1>1, <1>2 DEF ListInv, ListTypes
  <1>4. ASSUME NEW r \in steady'
        PROVE  Cardinality(Ahead(r))' > Offset(1)
    <2>1. r \in Listed /\ place[r] \in Nat /\ Ahead(r)' = Ahead(r)
      BY <1>1, <1>2, ListingAssumption DEF ListInv, ListTypes, Listed, Ahead, Before
    <2>2. r \in Ahead(r) /\ Ahead(r) \in SUBSET Listed
      BY <2>1, PlacesCompare DEF Ahead
    <2>3. IsFiniteSet(Ahead(r)) /\ Cardinality(Ahead(r)) \in Nat
      BY <2>2, ListedFinite
    <2>4. Cardinality(Ahead(r)) # 0
      BY <2>2, <2>3, FS_EmptySet
    <2>5. Offset(1) = 0
      BY ListingAssumption DEF Offset
    <2> QED
      BY <2>1, <2>3, <2>4, <2>5
  <1>5. NoneMissed'
    BY <1>2, <1>4 DEF NoneMissed, Offset
  <1> QED
    BY <1>2, <1>3, <1>5 DEF ListInv, CountRight, PagesMissNothing

LEMMA CountKeeps ==
    ASSUME ListInv, CountRows
    PROVE  ListInv'
  <1> DEFINE pages == PagesFor(Cardinality(Listed))
  <1>1. /\ reader.does = "asks" /\ reader' = [reader EXCEPT !.does = "fetches", !.pages = pages]
        /\ UNCHANGED <<list, place, steady>>
    BY DEF CountRows
  <1>2. pages \in Nat \ {0}
    BY ListedFinite, PagesHold
  <1>3. Listed' = Listed /\ \A r \in steady : Ahead(r)' = Ahead(r)
    BY <1>1 DEF Listed, Ahead, Before
  <1> HIDE DEF pages
  <1>4. /\ reader'.page = reader.page /\ reader'.does = "fetches"
        /\ reader'.shown = reader.shown /\ reader'.pages = pages
    BY <1>1 DEF ListInv, ListTypes
  <1>5. ListTypes'
    BY <1>1, <1>2, <1>3, <1>4 DEF ListInv, ListTypes
  <1>6. NoneMissed'
    BY <1>1, <1>3, <1>4 DEF ListInv, NoneMissed, Offset
  <1>7. CountRight'
    BY <1>3, <1>4 DEF CountRight, pages
  <1> QED
    BY <1>4, <1>5, <1>6, <1>7 DEF ListInv, PagesMissNothing

(* A steady row ahead is on this page or on a later one; and after as many *)
(* pages as were told, nothing is ahead. *)
LEMMA FetchKeeps ==
    ASSUME ListInv, FetchPage
    PROVE  ListInv'
  <1> DEFINE n == Offset(reader.page)
             next == Offset(reader.page + 1)
             last == ~(reader.page < reader.pages)
  <1>1. PICK rows \in PagesAt(reader.page) :
            reader' = [reader EXCEPT
                !.shown = @ \cup rows,
                !.page = @ + 1,
                !.does = IF reader.page < reader.pages THEN "asks" ELSE "done"]
    BY DEF FetchPage
  <1>2. reader.does = "fetches" /\ UNCHANGED <<list, place, steady, torn>>
    BY DEF FetchPage
  <1>3. ListTypes /\ reader.page \in Nat \ {0} /\ reader.pages \in Nat \ {0}
    BY DEF ListInv, ListTypes
  <1>4. n \in Nat /\ n + PageLength = next /\ next \in Nat /\ next = reader.page * PageLength
    <2>1. PageLength \in Nat
      BY ListingAssumption
    <2>2. (reader.page - 1) * PageLength = reader.page * PageLength - PageLength
      BY <1>3, <2>1
    <2>3. reader.page - 1 \in Nat
      BY <1>3
    <2>4. (reader.page - 1) * PageLength \in Nat /\ reader.page * PageLength \in Nat
      BY <1>3, <2>1, <2>3
    <2>5. (reader.page + 1) - 1 = reader.page
      BY <1>3
    <2> QED
      BY <2>1, <2>2, <2>4, <2>5 DEF Offset
  <1> HIDE DEF n, next
  <1>5. PICK A \in FirstRows(n), B \in FirstRows(next) : A \subseteq B /\ rows = B \ A
    BY <1>4 DEF PagesAt, n
  <1>6. rows \subseteq Listed
    BY DEF PagesAt
  <1>7. /\ reader'.shown = reader.shown \cup rows /\ reader'.page = reader.page + 1
        /\ reader'.pages = reader.pages /\ reader'.does = IF last THEN "done" ELSE "asks"
    BY <1>1, <1>3 DEF ListTypes
  <1>8. Listed' = Listed /\ \A r \in steady : Ahead(r)' = Ahead(r)
    BY <1>2 DEF Listed, Ahead, Before
  <1>9. ASSUME NEW r \in steady
        PROVE  r \in reader'.shown \/ Cardinality(Ahead(r)) > next
    <2>1. r \in reader.shown \/ Cardinality(Ahead(r)) > n
      BY <1>2, <1>9 DEF ListInv, NoneMissed, n
    <2>2. Cardinality(Ahead(r)) \in Nat
      BY AheadCounts
    <2>3. r \in A => Cardinality(Ahead(r)) <= n
      BY <1>3, <1>4, SteadyInFirst
    <2>4. r \notin B => ~(Cardinality(Ahead(r)) <= next)
      BY <1>3, <1>4, SteadyInFirst
    <2> QED
      BY <1>4, <1>5, <1>7, <2>1, <2>2, <2>3, <2>4
  <1>10. ListTypes'
    <2>1. reader' \in [does : {"rests", "asks", "fetches", "done"}, page : Nat \ {0},
                       pages : Nat \ {0}, shown : SUBSET Rows]
      <3>1. /\ reader \in [does : {"rests", "asks", "fetches", "done"}, page : Nat \ {0},
                            pages : Nat \ {0}, shown : SUBSET Rows]
            /\ reader.page + 1 \in Nat \ {0}
        BY <1>3 DEF ListTypes
      <3>2. reader.shown \cup rows \in SUBSET Rows
        BY <1>6, <3>1 DEF Listed
      <3> QED
        BY <1>1, <3>1, <3>2
    <2>2. reader'.does # "rests"
      BY <1>7
    <2> QED
      BY <1>2, <1>3, <1>8, <2>1, <2>2 DEF ListTypes
  <1>11. NoneMissed'
    <2>1. Offset(reader'.page) = next
      BY <1>7 DEF next
    <2>2. \A r \in steady' : Cardinality(Ahead(r)') = Cardinality(Ahead(r))
      BY <1>2, <1>8
    <2>3. \A r \in steady' : r \in reader'.shown \/ Cardinality(Ahead(r)') > Offset(reader'.page)
      BY <1>2, <1>9, <2>1, <2>2
    <2> QED
      BY <1>2, <2>3 DEF NoneMissed, Offset
  <1>12. ASSUME last, ~torn, NEW r \in steady
         PROVE  r \in reader'.shown
    <2>1. reader.pages = PagesFor(Cardinality(Listed))
      BY <1>2, <1>12 DEF ListInv, CountRight
    <2>2. Cardinality(Listed) <= reader.page * PageLength
      BY <1>3, <1>12, <2>1, ListedFinite, PagesHold
    <2>3. Cardinality(Ahead(r)) <= Cardinality(Listed) /\ Cardinality(Ahead(r)) \in Nat
      BY ListedFinite DEF Ahead
    <2> QED
      BY <1>4, <1>9, <1>12, <2>2, <2>3, ListedFinite
  <1>13. PagesMissNothing'
    BY <1>2, <1>7, <1>12 DEF PagesMissNothing
  <1>14. CountRight'
    BY <1>7 DEF CountRight
  <1> QED
    BY <1>10, <1>11, <1>13, <1>14 DEF ListInv

LEMMA ListStepInv == ListInv /\ [ListNext]_listVars => ListInv'
  <1> SUFFICES ASSUME ListInv, [ListNext]_listVars
               PROVE  ListInv'
    OBVIOUS
  <1>1. ASSUME Open \/ CountRows \/ FetchPage
        PROVE  ListInv'
    BY <1>1, OpenKeeps, CountKeeps, FetchKeeps
  <1>2. ASSUME NEW r \in Rows, Leave(r)
        PROVE  ListInv'
    BY <1>2, LeaveKeeps
  <1>3. ASSUME NEW r \in Rows, NEW p \in 1..LastKey, Insert(r, p) \/ Touch(r, p)
        PROVE  ListInv'
    BY <1>3, InsertKeeps, TouchKeeps
  <1>4. CASE UNCHANGED listVars
    BY <1>4 DEF listVars, ListInv, ListTypes, NoneMissed, CountRight, PagesMissNothing,
                Listed, Ahead, Before, Offset
  <1> QED
    BY <1>1, <1>2, <1>3, <1>4 DEF ListNext

(* Whoever pages through a list sees every row that was listed from the    *)
(* start, stayed alone where it was, and behind no row that dropped out or *)
(* fell behind it, whatever else was added or moved meanwhile, unless that *)
(* was between the last count and its page (the offset queries).           *)
THEOREM PagesNeverMiss == ListSpec => []PagesMissNothing
  <1>1. ListInit => ListInv
    BY ListInitInv
  <1>2. ListInv /\ [ListNext]_listVars => ListInv'
    BY ListStepInv
  <1>3. ListInv => PagesMissNothing
    BY DEF ListInv
  <1> QED
    BY <1>1, <1>2, <1>3, PTL DEF ListSpec

(***************************************************************************)
(* Searches.                                                               *)
(***************************************************************************)

(* At most n of a set: all of it, or n. *)
LEMMA AtMostAre ==
    ASSUME NEW S, IsFiniteSet(S), NEW n \in Nat, NEW T \in AtMost(S, n)
    PROVE  /\ T \subseteq S /\ Cardinality(T) \in Nat
           /\ T = S \/ Cardinality(T) = n
  <1>1. T \in SUBSET S /\ Cardinality(T) = Min({n, Cardinality(S)})
    BY DEF AtMost
  <1>2. Cardinality(S) \in Nat /\ Cardinality(T) \in Nat
    BY <1>1, FS_Subset, FS_CardinalityType
  <1>3. Cardinality(T) = n \/ Cardinality(T) = Cardinality(S)
    BY <1>1, <1>2, MinOfTwo
  <1>4. Cardinality(T) = Cardinality(S) => T = S
    BY <1>1, FS_Subset
  <1> QED
    BY <1>1, <1>2, <1>3, <1>4

LEMMA KnownFinite ==
    ASSUME NEW S \in SUBSET Known
    PROVE  IsFiniteSet(S)
  BY SearchAssumption, FS_Subset DEF Known

(* A hit that only the index gives has no case that could be the user's.   *)
LEMMA SearchesStayInside == OnlyOpenCases
  <1> SUFFICES ASSUME NEW found \in Found
               PROVE  /\ found[1] \subseteq Accessible
                      /\ \A i \in found[2] \cup found[3] : item[i].case \in Accessible
                      /\ \A i \in found[2] : item[i].live
    BY DEF OnlyOpenCases
  <1>1. PICK cs \in CasesFound, ev \in EvidenceFound, ex \in ExtractsFound :
            found = <<cs, ev \cup Merged(ev), ex>>
    BY DEF Found
  <1>2. Merged(ev) = {}
    BY SearchAssumption DEF Merged, HitCase, Accessible
  <1>3. found[1] = cs /\ found[2] = ev /\ found[3] = ex
    BY <1>1, <1>2
  <1>4. cs \subseteq Accessible
    BY DEF CasesFound, AtMost
  <1>5. ev \subseteq {i \in Within(Known) : item[i].live /\ Like(i)}
    BY DEF EvidenceFound, AtMost
  <1>6. ex \subseteq {i \in Within(Known) : item[i].read}
    BY DEF ExtractsFound, AtMost
  <1> QED
    BY <1>3, <1>4, <1>5, <1>6 DEF Within

(* With hits of the index, an indexed item is one of them; without, LIKE   *)
(* finds what the index would. *)
LEMMA SearchesFindWords == WordsFound
  <1> SUFFICES ASSUME NEW i \in Known, item[i].live, item[i].occurs \in {"name", "text"},
                      item[i].read,
                      i \in indexed \/ {j \in Matching(Known) : item[j].case = item[i].case} = {},
                      NEW result \in InCase(item[i].case)
               PROVE  i \in result \/ Cardinality(result) >= Min({IndexSize, Fallback})
    BY DEF WordsFound
  <1> DEFINE ofCase == {j \in Known : item[j].case = item[i].case}
             hits == Matching(ofCase)
             like == {j \in ofCase : item[j].live /\ Like(j)}
             least == Min({IndexSize, Fallback})
  <1>1. IndexSize \in Nat /\ Fallback \in Nat
    BY SearchAssumption
  <1>2. least \in Nat /\ least <= IndexSize /\ least <= Fallback
    BY <1>1, MinOfTwo
  <1>3. IsFiniteSet(hits) /\ IsFiniteSet(like)
    BY KnownFinite DEF Matching
  <1>4. result \in IF hits # {} THEN AtMost(hits, IndexSize) ELSE AtMost(like, Fallback)
    BY DEF InCase
  <1>5. i \in like
    BY DEF Like
  <1>6. hits # {} => i \in hits
    BY DEF Matching
  <1> HIDE DEF hits, like, least
  <1>7. CASE hits # {}
    <2>1. result = hits \/ Cardinality(result) = IndexSize
      BY <1>1, <1>3, <1>4, <1>7, AtMostAre
    <2> QED
      BY <1>1, <1>2, <1>6, <1>7, <2>1 DEF least
  <1>8. CASE hits = {}
    <2>1. result = like \/ Cardinality(result) = Fallback
      BY <1>1, <1>3, <1>4, <1>8, AtMostAre
    <2> QED
      BY <1>1, <1>2, <1>5, <2>1 DEF least
  <1> QED
    BY <1>7, <1>8

(***************************************************************************)
(* Sorting.                                                                *)
(***************************************************************************)

(* No two entries of a list have one place, and the places are those of a  *)
(* list. *)
LEMMA PlacesDiffer ==
    ASSUME NEW D, IsFiniteSet(D), D \subseteq Nat, NEW key \in [D -> Nat]
    PROVE  /\ \A i \in D : SortPlace(key, i) \in 1..Cardinality(D)
           /\ \A i, j \in D : (key[i] < key[j] \/ (key[i] = key[j] /\ i < j))
                              => SortPlace(key, i) < SortPlace(key, j)
  <1>1. DOMAIN key = D /\ Cardinality(D) \in Nat
    BY FS_CardinalityType
  <1>2. \A i, j \in D : j \in Smaller(key, i) <=> (key[j] < key[i] \/ (key[j] = key[i] /\ j < i))
    BY <1>1 DEF Smaller
  <1>3. \A i : Smaller(key, i) \subseteq D
    BY <1>1 DEF Smaller
  <1>4. \A i : IsFiniteSet(Smaller(key, i)) /\ Cardinality(Smaller(key, i)) \in Nat
    BY <1>3, FS_Subset, FS_CardinalityType
  <1>5. ASSUME NEW i \in D
        PROVE  SortPlace(key, i) \in 1..Cardinality(D)
    <2>1. i \notin Smaller(key, i)
      BY <1>2
    <2>2. IsFiniteSet(D \ {i}) /\ Cardinality(D \ {i}) = Cardinality(D) - 1
      BY FS_RemoveElement
    <2>3. Smaller(key, i) \subseteq D \ {i}
      BY <1>3, <2>1
    <2>4. Cardinality(Smaller(key, i)) <= Cardinality(D \ {i})
      BY <2>2, <2>3, FS_Subset
    <2> QED
      BY <1>1, <1>4, <2>2, <2>4 DEF SortPlace
  <1>6. ASSUME NEW i \in D, NEW j \in D, key[i] < key[j] \/ (key[i] = key[j] /\ i < j)
        PROVE  SortPlace(key, i) < SortPlace(key, j)
    <2>1. i \in Smaller(key, j) /\ i \notin Smaller(key, i)
      BY <1>2, <1>6
    <2>2. Smaller(key, i) \subseteq Smaller(key, j)
      <3> SUFFICES ASSUME NEW k \in Smaller(key, i)
                   PROVE  k \in Smaller(key, j)
        OBVIOUS
      <3>1. k \in D
        BY <1>3
      <3>2. key[k] \in Nat /\ key[i] \in Nat /\ key[j] \in Nat /\ k \in Nat /\ i \in Nat /\ j \in Nat
        BY <3>1
      <3>3. key[k] < key[i] \/ (key[k] = key[i] /\ k < i)
        BY <1>2, <3>1
      <3>4. key[k] < key[j] \/ (key[k] = key[j] /\ k < j)
        BY <1>6, <3>2, <3>3
      <3> QED
        BY <1>2, <3>1, <3>4
    <2>3. Cardinality(Smaller(key, i)) <= Cardinality(Smaller(key, j))
      BY <1>4, <2>2, FS_Subset
    <2>4. Cardinality(Smaller(key, i)) # Cardinality(Smaller(key, j))
      BY <1>4, <2>1, <2>2, FS_Subset
    <2>5. /\ Cardinality(Smaller(key, i)) \in Nat /\ Cardinality(Smaller(key, j)) \in Nat
          /\ Cardinality(Smaller(key, i)) < Cardinality(Smaller(key, j))
      BY <1>4, <2>3, <2>4
    <2> QED
      BY <2>5 DEF SortPlace
  <1> QED
    BY <1>5, <1>6

(* A list sorted by a key: in another order, each entry that has a key     *)
(* once, by rising key, entries of one key in the order they had. *)
Arranges(sorted, entries, key, D) ==
    \E p \in [1..Cardinality(D) -> D] :
        /\ sorted = [k \in 1..Cardinality(D) |-> entries[p[k]]]
        /\ \A i \in D : \E k \in 1..Cardinality(D) : p[k] = i
        /\ \A k, l \in 1..Cardinality(D) : k < l =>
            \/ key[p[k]] < key[p[l]]
            \/ (key[p[k]] = key[p[l]] /\ p[k] < p[l])

(* What is sorted is the list in another order: each entry that has a key  *)
(* once, by rising key, entries of one key in the order they had. *)
LEMMA SortArranges ==
    ASSUME NEW D, IsFiniteSet(D), D \subseteq Nat, NEW key \in [D -> Nat], NEW entries
    PROVE  Arranges(SortedBy(entries, key), entries, key, D)
  <1> DEFINE n == Cardinality(D)
             placeOf == [i \in D |-> SortPlace(key, i)]
             p == [k \in 1..n |-> CHOOSE i \in D : SortPlace(key, i) = k]
  <1>1. DOMAIN key = D /\ n \in Nat
    BY FS_CardinalityType
  <1>2. /\ \A i \in D : SortPlace(key, i) \in 1..n
        /\ \A i, j \in D : (key[i] < key[j] \/ (key[i] = key[j] /\ i < j))
                           => SortPlace(key, i) < SortPlace(key, j)
    BY PlacesDiffer
  <1>3. \A i, j \in D : SortPlace(key, i) = SortPlace(key, j) => i = j
    <2> SUFFICES ASSUME NEW i \in D, NEW j \in D, SortPlace(key, i) = SortPlace(key, j), i # j
                 PROVE  FALSE
      OBVIOUS
    <2>1. i \in Nat /\ j \in Nat /\ key[i] \in Nat /\ key[j] \in Nat
      OBVIOUS
    <2>2. \/ key[i] < key[j] \/ (key[i] = key[j] /\ i < j)
          \/ key[j] < key[i] \/ (key[j] = key[i] /\ j < i)
      BY <2>1
    <2>3. SortPlace(key, i) < SortPlace(key, j) \/ SortPlace(key, j) < SortPlace(key, i)
      BY <1>2, <2>2
    <2>4. SortPlace(key, i) \in Nat
      BY <1>1, <1>2
    <2> QED
      BY <2>3, <2>4
  <1>4. placeOf \in Injection(D, 1..n)
    <2>1. placeOf \in [D -> 1..n]
      BY <1>2
    <2>2. \A i, j \in D : placeOf[i] = placeOf[j] => i = j
      BY <1>3
    <2> HIDE DEF placeOf
    <2> QED
      BY <2>1, <2>2 DEF Injection, IsInjective
  <1>5. \A k \in 1..n : \E i \in D : SortPlace(key, i) = k
    <2>1. IsFiniteSet(1..n) /\ Cardinality(1..n) = n
      BY <1>1, FS_Interval
    <2>2. placeOf \in Surjection(D, 1..n)
      <3> HIDE DEF placeOf
      <3> QED
        BY <1>4, <2>1, FS_Injection
    <2>3. \A k \in 1..n : \E i \in D : placeOf[i] = k
      <3> HIDE DEF placeOf
      <3> QED
        BY <2>2 DEF Surjection
    <2> QED
      BY <2>3
  <1>6. \A k \in 1..n : p[k] \in D /\ SortPlace(key, p[k]) = k
    <2> TAKE k \in 1..n
    <2>1. p[k] = CHOOSE i \in D : SortPlace(key, i) = k
      OBVIOUS
    <2> HIDE DEF p
    <2> QED
      BY <1>5, <2>1
  <1>7. SortedBy(entries, key) = [k \in 1..n |-> entries[p[k]]]
    <2>1. SortedBy(entries, key) =
            [k \in 1..n |-> entries[CHOOSE i \in D : SortPlace(key, i) = k]]
      BY <1>1 DEF SortedBy
    <2> QED
      BY <2>1
  <1>8. p \in [1..n -> D]
    BY <1>6
  <1> HIDE DEF p, n, placeOf
  <1>9. \A i \in D : \E k \in 1..n : p[k] = i
    BY <1>2, <1>3, <1>6
  <1>10. ASSUME NEW k \in 1..n, NEW l \in 1..n, k < l
         PROVE  key[p[k]] < key[p[l]] \/ (key[p[k]] = key[p[l]] /\ p[k] < p[l])
    <2>1. p[k] \in D /\ p[l] \in D
      BY <1>6
    <2>2. /\ p[k] \in Nat /\ p[l] \in Nat /\ key[p[k]] \in Nat /\ key[p[l]] \in Nat
          /\ k \in Nat /\ l \in Nat
      <3>1. \A i \in D : i \in Nat /\ key[i] \in Nat
        OBVIOUS
      <3>2. k \in Nat /\ l \in Nat
        BY <1>1
      <3> QED
        BY <2>1, <3>1, <3>2
    <2>3. ~ (SortPlace(key, p[l]) < SortPlace(key, p[k]))
      BY <1>6, <1>10, <2>2
    <2>4. ~ (key[p[l]] < key[p[k]] \/ (key[p[l]] = key[p[k]] /\ p[l] < p[k]))
      BY <1>2, <2>1, <2>3
    <2>5. p[k] # p[l]
      BY <1>6, <1>10, <2>2
    <2> QED
      BY <2>2, <2>4, <2>5
  <1> QED
    BY <1>7, <1>8, <1>9, <1>10 DEF n, Arranges

(***************************************************************************)
(* Pages of a result.                                                      *)
(***************************************************************************)

(* A list of lists, put together step by step: the first list, and each    *)
(* next one behind what there is. *)
PutTogether(F, seqs) ==
    LET n == Len(seqs) IN
    /\ n \in Nat \ {0} /\ F = [i \in 1..n |-> F[i]]
    /\ F[1] = seqs[1] /\ \A i \in 2..n : F[i] = F[i - 1] \o seqs[i]

LEMMA FlattensTo ==
    ASSUME NEW F, NEW seqs, PutTogether(F, seqs)
    PROVE  FlattenSeq(seqs) = F[Len(seqs)]
  <1> DEFINE n == Len(seqs)
             Step(g) == [i \in 1..n |-> IF i = 1 THEN seqs[i] ELSE g[i - 1] \o seqs[i]]
             flat == CHOOSE g : g = Step(g)
  <1> HIDE DEF n
  <1>1. /\ n \in Nat \ {0} /\ F = [i \in 1..n |-> F[i]]
        /\ F[1] = seqs[1] /\ \A i \in 2..n : F[i] = F[i - 1] \o seqs[i]
    BY DEF PutTogether, n
  <1>n. n \in Nat \ {0} /\ 1 \in 1..n /\ \A i \in 1..n : i # 1 => i \in 2..n /\ i - 1 \in 1..n /\ ~ (i <= i - 1)
    <2>1. n \in Nat \ {0}
      BY <1>1
    <2> QED
      BY <2>1
  <1>f. F[1] = seqs[1] /\ \A i \in 2..n : F[i] = F[i - 1] \o seqs[i]
    BY <1>1
  <1>2. F = Step(F)
    <2>1. \A i \in 1..n : F[i] = Step(F)[i]
      <3> TAKE i \in 1..n
      <3>1. CASE i = 1
        BY <3>1, <1>f
      <3>2. CASE i # 1
        BY <3>2, <1>n, <1>f
      <3> QED
        BY <3>1, <3>2
    <2>2. F = [i \in 1..n |-> F[i]]
      BY <1>1
    <2> QED
      BY <2>1, <2>2
  <1>3. ASSUME NEW g, g = Step(g)
        PROVE  g = F
    <2> DEFINE T == {i \in 1..n : g[i] # F[i]}
    <2>1. \A i \in 1..n : g[i] = IF i = 1 THEN seqs[i] ELSE g[i - 1] \o seqs[i]
      <3>1. \A h : h = Step(g) => \A i \in 1..n : h[i] = IF i = 1 THEN seqs[i] ELSE g[i - 1] \o seqs[i]
        OBVIOUS
      <3> HIDE DEF Step
      <3> QED
        BY <3>1, <1>3
    <2>2. T = {}
      <3> SUFFICES ASSUME T # {}
                   PROVE  FALSE
        OBVIOUS
      <3>1. T \in SUBSET Nat
        OBVIOUS
      <3>2. PICK i \in T : \A j \in T : i <= j
        <4> HIDE DEF T
        <4> QED
          BY <3>1, Least
      <3>3. i \in 1..n /\ g[i] # F[i]
        BY <3>2
      <3>4. i # 1
        <4>1. CASE i = 1
          BY <2>1, <3>3, <1>f, <4>1
        <4> QED
          BY <4>1
      <3>5. i - 1 \in 1..n /\ i \in 2..n /\ ~ (i <= i - 1)
        BY <3>3, <3>4, <1>n
      <3>6. g[i - 1] = F[i - 1]
        <4>1. i - 1 \notin T
          <5> HIDE DEF T
          <5> QED
            BY <3>2, <3>5
        <4> QED
          BY <4>1, <3>5
      <3>7. g[i] = g[i - 1] \o seqs[i] /\ F[i] = F[i - 1] \o seqs[i]
        BY <2>1, <3>3, <3>4, <3>5, <1>f
      <3> QED
        BY <3>3, <3>6, <3>7
    <2>3. DOMAIN g = 1..n /\ g = [i \in DOMAIN g |-> g[i]]
      <3>1. \A h : h = Step(g) => DOMAIN h = 1..n /\ h = [i \in DOMAIN h |-> h[i]]
        OBVIOUS
      <3> HIDE DEF Step
      <3> QED
        BY <3>1, <1>3
    <2>4. F = [i \in 1..n |-> F[i]]
      BY <1>1
    <2> QED
      BY <2>2, <2>3, <2>4
  <1>4. flat = F
    <2> HIDE DEF Step
    <2>1. flat = Step(flat)
      BY <1>2
    <2> QED
      BY <2>1, <1>3
  <1>5. FlattenSeq(seqs) = flat[n]
    BY <1>1 DEF FlattenSeq, n
  <1> QED
    BY <1>4, <1>5 DEF n

(* The pages of a result: no gap before the last, and its end in it. *)
LEMMA PagesReach ==
    ASSUME NEW n \in Nat
    PROVE  /\ Pages(n) \in Nat \ {0} /\ n <= Pages(n) * PageSize
           /\ \A k \in 1..Pages(n) : (k - 1) * PageSize \in 0..n
  <1> DEFINE L == PageSize
             x == n + L - 1
             d == x \div L
  <1>1. L \in Nat \ {0} /\ x \in Nat
    BY SearchAssumption
  <1>2. d \in Int /\ d * L <= x /\ x < (d + 1) * L
    <2> HIDE DEF x, L
    <2> QED
      BY <1>1
  <1> HIDE DEF d
  <1>3. Pages(n) = IF 1 >= d THEN 1 ELSE d
    BY <1>2, MaxOfTwo DEF Pages, d
  <1>4. n <= d * L /\ (d - 1) * L < n
    <2>1. (d + 1) * L = d * L + L /\ (d - 1) * L = d * L - L /\ d * L \in Int
      BY <1>1, <1>2
    <2> QED
      BY <1>1, <1>2, <2>1
  <1>5. n <= Pages(n) * L
    <2>1. CASE 1 >= d
      <3>1. d * L <= 1 * L
        BY <1>1, <1>2, <2>1
      <3>2. d * L \in Int /\ 1 * L \in Int
        BY <1>1, <1>2
      <3> QED
        BY <1>3, <1>4, <2>1, <3>1, <3>2
    <2>2. CASE ~ (1 >= d)
      BY <1>3, <1>4, <2>2
    <2> QED
      BY <2>1, <2>2
  <1>6. ASSUME NEW k \in 1..Pages(n)
        PROVE  (k - 1) * L \in 0..n
    <2>1. CASE 1 >= d
      <3>1. k = 1
        BY <1>3, <2>1
      <3>2. (k - 1) * L = 0
        BY <1>1, <3>1
      <3> QED
        BY <3>2
    <2>2. CASE ~ (1 >= d)
      <3>1. k \in 1..d /\ d \in Nat
        BY <1>2, <1>3, <2>2
      <3>2. (k - 1) * L <= (d - 1) * L /\ (k - 1) * L >= 0 /\ (k - 1) * L \in Int /\ (d - 1) * L \in Int
        BY <1>1, <3>1
      <3> QED
        BY <1>4, <3>2
    <2> QED
      BY <2>1, <2>2
  <1> QED
    BY <1>2, <1>3, <1>5, <1>6

(* The pages, one after the other, are the result. *)
LEMMA PagesAreWhole ==
    ASSUME NEW V, NEW s \in Seq(V)
    PROVE  FlattenSeq([k \in 1..Pages(Len(s)) |-> Page(s, k)]) = s
  <1> DEFINE n == Len(s)
             L == PageSize
             P == Pages(n)
             upTo(k) == Min({n, k * L})
             pages == [k \in 1..P |-> Page(s, k)]
             F == [k \in 1..P |-> SubSeq(s, 1, upTo(k))]
  <1>1. n \in Nat /\ L \in Nat \ {0}
    BY SearchAssumption
  <1> HIDE DEF n, L
  <1>2. /\ P \in Nat \ {0} /\ n <= P * L
        /\ \A k \in 1..P : (k - 1) * L \in 0..n
    BY <1>1, PagesReach DEF L
  <1> HIDE DEF P
  <1>3. \A k \in 1..P : /\ upTo(k) = (IF n <= k * L THEN n ELSE k * L)
                        /\ upTo(k) \in (k - 1) * L..n
    <2> TAKE k \in 1..P
    <2>1. k \in Nat /\ k * L \in Nat /\ (k - 1) * L <= k * L /\ (k - 1) * L \in 0..n
      BY <1>1, <1>2
    <2>2. upTo(k) = IF n <= k * L THEN n ELSE k * L
      BY <1>1, <2>1, MinOfTwo
    <2> HIDE DEF upTo
    <2> QED
      BY <1>1, <2>1, <2>2
  <1>4. \A k \in 1..P : pages[k] = SubSeq(s, (k - 1) * L + 1, upTo(k))
    BY DEF Page, n, L
  <1> HIDE DEF upTo
  <1>5. F \in [1..P -> Seq(V)]
    <2> SUFFICES ASSUME NEW k \in 1..P
                 PROVE  SubSeq(s, 1, upTo(k)) \in Seq(V)
      OBVIOUS
    <2>1. upTo(k) \in Int /\ upTo(k) <= n
      BY <1>1, <1>2, <1>3
    <2>2. \A i \in 1..upTo(k) : s[i] \in V
      BY <2>1 DEF n
    <2> QED
      BY <2>1, <2>2, SubSeqProperties
  <1>6. F[1] = pages[1]
    <2>1. 1 \in 1..P /\ (1 - 1) * L + 1 = 1
      BY <1>1, <1>2
    <2>2. pages[1] = SubSeq(s, (1 - 1) * L + 1, upTo(1))
      BY <1>4, <2>1
    <2>3. F[1] = SubSeq(s, 1, upTo(1))
      BY <2>1
    <2> QED
      BY <2>1, <2>2, <2>3
  <1>7. ASSUME NEW k \in 2..P
        PROVE  F[k] = F[k - 1] \o pages[k]
    <2>1. k \in 1..P /\ k - 1 \in 1..P
      BY <1>2
    <2>2. (k - 1) * L \in 0..n /\ upTo(k) \in (k - 1) * L..n
      BY <1>2, <1>3, <2>1
    <2>3. upTo(k - 1) = (k - 1) * L
      BY <1>1, <1>3, <2>1, <2>2
    <2>4. SubSeq(s, 1, (k - 1) * L) \o SubSeq(s, (k - 1) * L + 1, upTo(k)) = SubSeq(s, 1, upTo(k))
      <3> DEFINE a == (k - 1) * L
                 b == upTo(k)
      <3>1. 1 \in 1..Len(s) + 1 /\ a \in 1 - 1..Len(s) /\ b \in a..Len(s)
        BY <1>1, <2>2 DEF n
      <3> HIDE DEF a, b
      <3>2. SubSeq(s, 1, a) \o SubSeq(s, a + 1, b) = SubSeq(s, 1, b)
        BY <3>1, ConcatAdjacentSubSeq
      <3> QED
        BY <3>2 DEF a, b
    <2>5. F[k] = SubSeq(s, 1, upTo(k)) /\ F[k - 1] = SubSeq(s, 1, upTo(k - 1))
      BY <2>1
    <2>6. pages[k] = SubSeq(s, (k - 1) * L + 1, upTo(k))
      BY <1>4, <2>1
    <2> QED
      BY <2>3, <2>4, <2>5, <2>6
  <1>8. Len(pages) = P
    BY <1>2
  <1>9. FlattenSeq(pages) = F[P]
    <2> HIDE DEF pages, F
    <2>1. \A k \in 2..P : F[k] = F[k - 1] \o pages[k]
      BY <1>7
    <2>2. F = [k \in 1..P |-> F[k]]
      BY <1>5
    <2>3. PutTogether(F, pages)
      BY <1>2, <1>6, <1>8, <2>1, <2>2 DEF PutTogether
    <2> QED
      BY <1>8, <2>3, FlattensTo
  <1>10. F[P] = s
    <2>1. P \in 1..P /\ upTo(P) = n
      BY <1>1, <1>2, <1>3
    <2>2. F[P] = SubSeq(s, 1, upTo(P))
      BY <2>1
    <2> QED
      BY <2>1, <2>2, SubSeqFull DEF n
  <1> QED
    BY <1>9, <1>10 DEF n, P

(***************************************************************************)
(* What a search found, in one list.                                       *)
(***************************************************************************)

(* A finite set as a list: each element, once. *)
LEMMA SetListed ==
    ASSUME NEW S, IsFiniteSet(S)
    PROVE  /\ SetToSeq(S) \in Seq(S) /\ Len(SetToSeq(S)) = Cardinality(S)
           /\ ToSet(SetToSeq(S)) = S
  <1> DEFINE n == Cardinality(S)
             s == SetToSeq(S)
  <1>1. n \in Nat /\ \E f \in Bijection(1..n, S) : TRUE
    BY FS_CardinalityType DEF ExistsBijection
  <1>2. \E f \in [1..n -> S] : IsInjective(f)
    BY <1>1 DEF Bijection, Injection
  <1> HIDE DEF n
  <1>3. s \in [1..n -> S] /\ IsInjective(s)
    BY <1>2 DEF SetToSeq, n
  <1> HIDE DEF s
  <1>4. s \in Seq(S) /\ Len(s) = n /\ DOMAIN s = 1..n
    BY <1>1, <1>3
  <1>5. s \in Surjection(1..n, S)
    <2>1. s \in Injection(1..n, S)
      BY <1>3 DEF Injection
    <2>2. Cardinality(1..n) = Cardinality(S)
      BY <1>1, FS_Interval DEF n
    <2> QED
      BY <2>1, <2>2, FS_Injection
  <1>6. ToSet(s) = S
    BY <1>3, <1>4, <1>5 DEF ToSet, Surjection
  <1> QED
    BY <1>4, <1>6 DEF s, n

(* Two lists, one after the other. *)
LEMMA Joined ==
    ASSUME NEW V, NEW s \in Seq(V), NEW t \in Seq(V)
    PROVE  /\ s \o t \in Seq(V) /\ Len(s \o t) = Len(s) + Len(t)
           /\ ToSet(s \o t) = ToSet(s) \cup ToSet(t)
  <1>1. /\ s \o t \in Seq(V) /\ Len(s \o t) = Len(s) + Len(t)
        /\ Len(s) \in Nat /\ Len(t) \in Nat
        /\ \A i \in 1..Len(s) + Len(t) :
             (s \o t)[i] = IF i <= Len(s) THEN s[i] ELSE t[i - Len(s)]
    BY ConcatProperties
  <1>2. \A x : x \in ToSet(s \o t) => x \in ToSet(s) \cup ToSet(t)
    <2> TAKE x
    <2> HAVE x \in ToSet(s \o t)
    <2>1. PICK i \in 1..Len(s) + Len(t) : x = (s \o t)[i]
      BY <1>1 DEF ToSet
    <2>2. CASE i <= Len(s)
      BY <1>1, <2>1, <2>2 DEF ToSet
    <2>3. CASE ~ (i <= Len(s))
      <3>1. i - Len(s) \in DOMAIN t
        BY <1>1, <2>1, <2>3
      <3> QED
        BY <1>1, <2>1, <2>3, <3>1 DEF ToSet
    <2> QED
      BY <2>2, <2>3
  <1>3. \A x : x \in ToSet(s) => x \in ToSet(s \o t)
    <2> TAKE x
    <2> HAVE x \in ToSet(s)
    <2>1. PICK i \in 1..Len(s) : x = s[i]
      BY DEF ToSet
    <2>2. i \in DOMAIN (s \o t) /\ (s \o t)[i] = x
      BY <1>1, <2>1
    <2> QED
      BY <2>2 DEF ToSet
  <1>4. \A x : x \in ToSet(t) => x \in ToSet(s \o t)
    <2> TAKE x
    <2> HAVE x \in ToSet(t)
    <2>1. PICK i \in 1..Len(t) : x = t[i]
      BY DEF ToSet
    <2>2. i + Len(s) \in 1..Len(s) + Len(t) /\ ~ (i + Len(s) <= Len(s)) /\ i + Len(s) - Len(s) = i
      BY <1>1
    <2>3. i + Len(s) \in DOMAIN (s \o t) /\ (s \o t)[i + Len(s)] = x
      BY <1>1, <2>1, <2>2
    <2> QED
      BY <2>3 DEF ToSet
  <1> QED
    BY <1>1, <1>2, <1>3, <1>4

(* The three lists, one after the other: everything found, once. *)
LEMMA AllListed ==
    ASSUME NEW found, \A k \in 1..3 : IsFiniteSet(found[k])
    PROVE  LET V == UNION {{k} \X found[k] : k \in 1..3} IN
           /\ AllItems(found) \in Seq(V) /\ ToSet(AllItems(found)) = V
           /\ Len(AllItems(found)) =
                Cardinality(found[1]) + Cardinality(found[2]) + Cardinality(found[3])
  <1> DEFINE V == UNION {{k} \X found[k] : k \in 1..3}
             r(k) == SetToSeq({k} \X found[k])
  <1>1. ASSUME NEW k \in 1..3
        PROVE  /\ r(k) \in Seq(V) /\ ToSet(r(k)) = {k} \X found[k]
               /\ Len(r(k)) = Cardinality(found[k]) /\ Len(r(k)) \in Nat
    <2>1. IsFiniteSet({k}) /\ Cardinality({k}) = 1 /\ IsFiniteSet(found[k])
      BY FS_Singleton
    <2>2. /\ IsFiniteSet({k} \X found[k])
          /\ Cardinality({k} \X found[k]) = 1 * Cardinality(found[k])
          /\ Cardinality(found[k]) \in Nat
      BY <2>1, FS_Product, FS_CardinalityType
    <2> HIDE DEF V
    <2>3. /\ r(k) \in Seq({k} \X found[k]) /\ Len(r(k)) = Cardinality({k} \X found[k])
          /\ ToSet(r(k)) = {k} \X found[k]
      BY <2>2, SetListed
    <2> HIDE DEF r
    <2>4. {k} \X found[k] \subseteq V
      BY DEF V
    <2>5. r(k) \in Seq(V)
      BY <2>3, <2>4
    <2> QED
      BY <2>2, <2>3, <2>5
  <1>2. V = {1} \X found[1] \cup {2} \X found[2] \cup {3} \X found[3]
    <2>1. 1..3 = {1, 2, 3}
      OBVIOUS
    <2>2. V = UNION {{k} \X found[k] : k \in {1, 2, 3}}
      BY <2>1
    <2> QED
      BY <2>2
  <1> HIDE DEF V, r
  <1>3. AllItems(found) = (r(1) \o r(2)) \o r(3)
    BY DEF AllItems, r
  <1>4. /\ r(1) \in Seq(V) /\ r(2) \in Seq(V) /\ r(3) \in Seq(V)
        /\ ToSet(r(1)) = {1} \X found[1] /\ ToSet(r(2)) = {2} \X found[2]
        /\ ToSet(r(3)) = {3} \X found[3]
        /\ Len(r(1)) = Cardinality(found[1]) /\ Len(r(2)) = Cardinality(found[2])
        /\ Len(r(3)) = Cardinality(found[3])
    BY <1>1
  <1> DEFINE q == r(1) \o r(2)
  <1>5. /\ q \in Seq(V) /\ Len(q) = Len(r(1)) + Len(r(2))
        /\ ToSet(q) = ToSet(r(1)) \cup ToSet(r(2))
    BY <1>4, Joined
  <1> HIDE DEF q
  <1>6. /\ q \o r(3) \in Seq(V) /\ Len(q \o r(3)) = Len(q) + Len(r(3))
        /\ ToSet(q \o r(3)) = ToSet(q) \cup ToSet(r(3))
    BY <1>4, <1>5, Joined
  <1>7. AllItems(found) = q \o r(3)
    BY <1>3 DEF q
  <1> QED
    BY <1>2, <1>4, <1>5, <1>6, <1>7 DEF V

(* A score is between 1 and 3. *)
LEMMA ScoresAre == \A r : Score(r) \in 1..3
  BY DEF Score

(* Ranking loses nothing, repeats nothing and puts the best first. *)
LEMMA RankedIs ==
    ASSUME NEW V, NEW found, AllItems(found) \in Seq(V)
    PROVE  /\ Ranked(found) \in Seq(V) /\ Len(Ranked(found)) = Len(AllItems(found))
           /\ ToSet(Ranked(found)) = ToSet(AllItems(found))
           /\ \A i \in 1..Len(Ranked(found)) - 1 :
                Score(Ranked(found)[i]) >= Score(Ranked(found)[i + 1])
  <1> DEFINE all == AllItems(found)
             n == Len(all)
             D == DOMAIN all
             key == [i \in D |-> 3 - Score(all[i])]
             s == Ranked(found)
  <1>1. n \in Nat /\ D = 1..n /\ all \in [1..n -> V]
    OBVIOUS
  <1>2. IsFiniteSet(D) /\ Cardinality(D) = n /\ D \subseteq Nat
    <2> HIDE DEF n, D
    <2>1. IsFiniteSet(1..n) /\ Cardinality(1..n) = IF 1 > n THEN 0 ELSE n - 1 + 1
      BY <1>1, FS_Interval
    <2> QED
      BY <1>1, <2>1
  <1> HIDE DEF n, D
  <1>3. key \in [D -> Nat]
    <2> SUFFICES ASSUME NEW i \in D PROVE 3 - Score(all[i]) \in Nat
      OBVIOUS
    <2>1. Score(all[i]) \in 1..3
      BY ScoresAre
    <2> QED
      BY <2>1
  <1>4. s = SortedBy(all, key)
    BY DEF Ranked, D
  <1> HIDE DEF s, all
  <1>5. PICK p \in [1..n -> D] :
             /\ SortedBy(all, key) = [k \in 1..n |-> all[p[k]]]
             /\ \A i \in D : \E k \in 1..n : p[k] = i
             /\ \A k, l \in 1..n : k < l =>
                  (key[p[k]] < key[p[l]] \/ (key[p[k]] = key[p[l]] /\ p[k] < p[l]))
    <2> HIDE DEF key
    <2>1. Arranges(SortedBy(all, key), all, key, D)
      BY <1>2, <1>3, SortArranges
    <2> QED
      BY <1>2, <2>1 DEF Arranges
  <1>6. s \in [1..n -> V] /\ \A k \in 1..n : s[k] = all[p[k]]
    BY <1>1, <1>4, <1>5
  <1>7. s \in Seq(V) /\ Len(s) = n /\ DOMAIN s = 1..n
    BY <1>1, <1>6
  <1>8. ToSet(s) = ToSet(all)
    <2>1. \A k \in 1..n : s[k] \in ToSet(all)
      BY <1>1, <1>5, <1>6 DEF ToSet, D
    <2>2. \A i \in D : all[i] \in ToSet(s)
      <3> TAKE i \in D
      <3>1. PICK k \in 1..n : p[k] = i
        BY <1>5
      <3>2. s[k] = all[i]
        BY <1>6, <3>1
      <3> QED
        BY <1>7, <3>2 DEF ToSet
    <2> QED
      BY <1>7, <2>1, <2>2 DEF ToSet, D
  <1>9. ASSUME NEW i \in 1..n - 1
        PROVE  Score(s[i]) >= Score(s[i + 1])
    <2>1. i \in 1..n /\ i + 1 \in 1..n /\ i < i + 1
      BY <1>1
    <2>2. key[p[i]] <= key[p[i + 1]]
      <3>1. key[p[i]] \in Nat /\ key[p[i + 1]] \in Nat
        BY <1>3, <1>5, <2>1
      <3>2. key[p[i]] < key[p[i + 1]] \/ key[p[i]] = key[p[i + 1]]
        BY <1>5, <2>1
      <3> QED
        BY <3>1, <3>2
    <2>3. key[p[i]] = 3 - Score(s[i]) /\ key[p[i + 1]] = 3 - Score(s[i + 1])
      BY <1>5, <1>6, <2>1
    <2>4. Score(s[i]) \in 1..3 /\ Score(s[i + 1]) \in 1..3
      BY ScoresAre
    <2> QED
      BY <2>2, <2>3, <2>4
  <1> QED
    BY <1>7, <1>8, <1>9 DEF s, all, n

(* What is found is finitely many. *)
LEMMA FoundFinite ==
    ASSUME NEW found \in Found
    PROVE  \A k \in 1..3 : IsFiniteSet(found[k])
  <1>1. PICK cs \in CasesFound, ev \in EvidenceFound, ex \in ExtractsFound :
            found = <<cs, ev \cup Merged(ev), ex>>
    BY DEF Found
  <1>2. cs \subseteq Cases /\ ev \subseteq Items /\ ex \subseteq Items
    BY DEF CasesFound, EvidenceFound, ExtractsFound, AtMost, Accessible, Within, Known
  <1>3. Merged(ev) \subseteq Items
    BY DEF Merged, Matching, Known
  <1>4. IsFiniteSet(cs) /\ IsFiniteSet(ev \cup Merged(ev)) /\ IsFiniteSet(ex)
    BY <1>2, <1>3, SearchAssumption, FS_Subset
  <1> QED
    BY <1>1, <1>4

(* The result and its pages. *)
LEMMA SearchesShowAll == ResultsComplete
  <1> SUFFICES ASSUME NEW found \in Found
               PROVE  LET s == Ranked(found) IN
                      /\ FlattenSeq([k \in 1..Pages(Len(s)) |-> Page(s, k)]) = s
                      /\ ToSet(s) = UNION {{k} \X found[k] : k \in 1..3}
                      /\ Len(s) = Cardinality(found[1]) + Cardinality(found[2]) + Cardinality(found[3])
                      /\ \A i \in 1..Len(s) - 1 : Score(s[i]) >= Score(s[i + 1])
    BY DEF ResultsComplete
  <1> DEFINE V == UNION {{k} \X found[k] : k \in 1..3}
  <1>1. /\ AllItems(found) \in Seq(V) /\ ToSet(AllItems(found)) = V
        /\ Len(AllItems(found)) =
             Cardinality(found[1]) + Cardinality(found[2]) + Cardinality(found[3])
    BY FoundFinite, AllListed
  <1> HIDE DEF V
  <1>2. /\ Ranked(found) \in Seq(V) /\ Len(Ranked(found)) = Len(AllItems(found))
        /\ ToSet(Ranked(found)) = ToSet(AllItems(found))
        /\ \A i \in 1..Len(Ranked(found)) - 1 :
             Score(Ranked(found)[i]) >= Score(Ranked(found)[i + 1])
    BY <1>1, RankedIs
  <1> DEFINE s == Ranked(found)
  <1> HIDE DEF s
  <1>3. FlattenSeq([k \in 1..Pages(Len(s)) |-> Page(s, k)]) = s
    <2>1. s \in Seq(V)
      BY <1>2 DEF s
    <2> QED
      BY <2>1, PagesAreWhole
  <1> QED
    BY <1>1, <1>2, <1>3 DEF s, V

(* For any number of cases and items, any limits and whatever the index    *)
(* holds: a search over all cases shows nothing of a case that is closed   *)
(* to the user and nothing removed; its pages, put together, are all that  *)
(* was found, once and best first; and losing the index loses no words     *)
(* (SearchService.search, search_evidence). *)
THEOREM SearchesAgree == SearchSpec => []SearchAgrees
  <1>1. SearchAgrees
    BY SearchesStayInside, SearchesFindWords, SearchesShowAll DEF SearchAgrees
  <1> QED
    BY <1>1, PTL

(***************************************************************************)
(* The relationship graph.                                                 *)
(***************************************************************************)

(* The first rows of a list: as many as there are up to the number asked   *)
(* for, in their places. *)
LEMMA FirstOfIs ==
    ASSUME NEW S, NEW s \in Seq(S), NEW n \in Nat
    PROVE  /\ FirstOf(s, n) \in Seq(S)
           /\ Len(FirstOf(s, n)) = IF Len(s) < n THEN Len(s) ELSE n
           /\ DOMAIN FirstOf(s, n) = 1..(IF Len(s) < n THEN Len(s) ELSE n)
           /\ \A i \in 1..(IF Len(s) < n THEN Len(s) ELSE n) : FirstOf(s, n)[i] = s[i]
  <1> DEFINE l == IF Len(s) < n THEN Len(s) ELSE n
  <1>1. l \in Nat /\ l <= Len(s) /\ \A i \in 1..l : s[i] \in S
    OBVIOUS
  <1>2. /\ SubSeq(s, 1, l) \in Seq(S)
        /\ Len(SubSeq(s, 1, l)) = IF 1 <= l THEN l - 1 + 1 ELSE 0
        /\ \A i \in 1..l - 1 + 1 : SubSeq(s, 1, l)[i] = s[1 + i - 1]
    <2> HIDE DEF l
    <2> QED
      BY <1>1, SubSeqProperties
  <1>3. Len(SubSeq(s, 1, l)) = l
    BY <1>1, <1>2
  <1>4. \A i \in 1..l : SubSeq(s, 1, l)[i] = s[i]
    BY <1>1, <1>2
  <1>5. DOMAIN SubSeq(s, 1, l) = 1..l
    BY <1>2, <1>3
  <1> QED
    BY <1>2, <1>3, <1>4, <1>5 DEF FirstOf

(* The keys of a list of rows are finitely many. *)
LEMMA KeysFinite ==
    ASSUME NEW S, NEW s \in Seq(S)
    PROVE  IsFiniteSet(KeysOf(s)) /\ Cardinality(KeysOf(s)) \in Nat
  <1>1. IsFiniteSet(DOMAIN s)
    <2>1. DOMAIN s = 1..Len(s) /\ Len(s) \in Nat
      OBVIOUS
    <2> QED
      BY <2>1, FS_Interval
  <1> DEFINE key == [i \in DOMAIN s |-> s[i].key]
  <1>2. key \in Surjection(DOMAIN s, KeysOf(s))
    BY DEF Surjection, KeysOf
  <1> QED
    BY <1>1, <1>2, FS_Surjection, FS_CardinalityType

(* The next row brings its key, if it is new. *)
LEMMA NextRowBrings ==
    ASSUME NEW S, NEW f \in Seq(S), NEW i \in 1..Len(f)
    PROVE  LET c(k) == Cardinality(KeysOf(FirstOf(f, k)))
           IN c(i - 1) <= c(i) /\ c(i) <= c(i - 1) + 1
  <1> DEFINE A == KeysOf(FirstOf(f, i - 1))
             B == KeysOf(FirstOf(f, i))
  <1>1. /\ i - 1 \in Nat /\ i \in Nat /\ Len(f) \in Nat
        /\ (IF Len(f) < i THEN Len(f) ELSE i) = i
        /\ (IF Len(f) < i - 1 THEN Len(f) ELSE i - 1) = i - 1
    OBVIOUS
  <1>2. /\ FirstOf(f, i) \in Seq(S) /\ DOMAIN FirstOf(f, i) = 1..i
        /\ \A j \in 1..i : FirstOf(f, i)[j] = f[j]
    BY <1>1, FirstOfIs
  <1>3. /\ FirstOf(f, i - 1) \in Seq(S) /\ DOMAIN FirstOf(f, i - 1) = 1..i - 1
        /\ \A j \in 1..i - 1 : FirstOf(f, i - 1)[j] = f[j]
    BY <1>1, FirstOfIs
  <1>4. B = A \cup {f[i].key}
    <2>1. \A x : x \in B <=> \E j \in 1..i : x = f[j].key
      BY <1>2 DEF KeysOf
    <2>2. \A x : x \in A <=> \E j \in 1..i - 1 : x = f[j].key
      BY <1>3 DEF KeysOf
    <2>3. \A j : j \in 1..i <=> j \in 1..i - 1 \/ j = i
      BY <1>1
    <2> HIDE DEF A, B
    <2> QED
      BY <2>1, <2>2, <2>3
  <1>5. IsFiniteSet(A) /\ Cardinality(A) \in Nat
    BY <1>3, KeysFinite
  <1> HIDE DEF A, B
  <1>6. Cardinality(B) = IF f[i].key \in A THEN Cardinality(A) ELSE Cardinality(A) + 1
    BY <1>4, <1>5, FS_AddElement
  <1>7. Cardinality(A) <= Cardinality(B) /\ Cardinality(B) <= Cardinality(A) + 1
    BY <1>5, <1>6
  <1> QED
    BY <1>7 DEF A, B

(* Places that go without a gap from the first are as many as the last. *)
LEMMA FromTheFirst ==
    ASSUME NEW n \in Nat, NEW T \in SUBSET (1..n),
           \A i \in T : \A j \in 1..i : j \in T
    PROVE  Cardinality(T) \in 0..n /\ T = 1..Cardinality(T)
  <1> DEFINE out == (1..n + 1) \ T
  <1>1. out \in SUBSET Nat /\ out # {}
    <2>1. n + 1 \in 1..n + 1 /\ n + 1 \notin T /\ 1..n + 1 \subseteq Nat
      OBVIOUS
    <2> QED
      BY <2>1
  <1>2. PICK x \in out : \A y \in out : x <= y
    <2> HIDE DEF out
    <2> QED
      BY <1>1, Least
  <1>3. x \in 1..n + 1 /\ x \notin T
    BY <1>2
  <1>4. \A j \in 1..x - 1 : j \in T
    <2> SUFFICES ASSUME NEW j \in 1..x - 1, j \notin T
                 PROVE  FALSE
      OBVIOUS
    <2>1. j \in out
      BY <1>3
    <2>2. x <= j
      BY <1>2, <2>1
    <2> QED
      BY <2>2, <1>3
  <1>5. \A j \in T : j \in 1..x - 1
    <2> SUFFICES ASSUME NEW j \in T, j \notin 1..x - 1
                 PROVE  FALSE
      OBVIOUS
    <2>1. x \in 1..j
      BY <1>3
    <2> QED
      BY <2>1, <1>3
  <1>6. T = 1..x - 1
    BY <1>4, <1>5
  <1>7. Cardinality(1..x - 1) = x - 1
    BY <1>3, FS_Interval
  <1> QED
    BY <1>3, <1>6, <1>7

(* A count that climbs by one at most: it is below a limit at the places   *)
(* before the one where it first reaches the limit, or at all of them. *)
LEMMA ReachesLimit ==
    ASSUME NEW n \in Nat, NEW c \in [0..n -> Nat], NEW M \in Nat \ {0},
           c[0] = 0,
           \A i \in 1..n : c[i - 1] <= c[i] /\ c[i] <= c[i - 1] + 1,
           NEW T \in SUBSET (1..n), \A i \in 1..n : i \in T <=> ~ (c[i - 1] >= M)
    PROVE  LET m == Cardinality(T) IN
           m \in 0..n /\ c[m] = (IF M <= c[n] THEN M ELSE c[n]) /\ (c[m] < M => m = n)
  <1> DEFINE m == Cardinality(T)
             g == [i \in 1..n + 1 |-> c[i - 1]]
  <1>1. \A i \in 0..n : \A j \in i..n : c[i] <= c[j]
    <2>1. n + 1 \in Nat /\ g \in [1..n + 1 -> Nat]
      OBVIOUS
    <2>2. \A i \in 1..(n + 1) - 1 : g[i] <= g[i + 1]
      <3> TAKE i \in 1..(n + 1) - 1
      <3>1. i \in 1..n /\ i \in 1..n + 1 /\ i + 1 \in 1..n + 1 /\ i + 1 - 1 = i
        OBVIOUS
      <3>2. g[i] = c[i - 1] /\ g[i + 1] = c[i]
        BY <3>1
      <3> QED
        BY <3>1, <3>2
    <2>3. \A i \in 1..n + 1 : \A j \in i..n + 1 : g[i] <= g[j]
      <3> HIDE DEF g
      <3> QED
        BY <2>1, <2>2, NeverFalls
    <2> TAKE i \in 0..n
    <2> TAKE j \in i..n
    <2>4. i + 1 \in 1..n + 1 /\ j + 1 \in i + 1..n + 1 /\ j + 1 \in 1..n + 1
      OBVIOUS
    <2>5. g[i + 1] <= g[j + 1]
      <3> HIDE DEF g
      <3> QED
        BY <2>3, <2>4
    <2>6. g[i + 1] = c[i] /\ g[j + 1] = c[j]
      <3>1. i + 1 - 1 = i /\ j + 1 - 1 = j
        OBVIOUS
      <3>2. g[i + 1] = c[i + 1 - 1] /\ g[j + 1] = c[j + 1 - 1]
        BY <2>4
      <3> QED
        BY <3>1, <3>2
    <2> HIDE DEF g
    <2> QED
      BY <2>5, <2>6
  <1>2. m \in 0..n /\ T = 1..m
    <2>1. \A i \in T : \A j \in 1..i : j \in T
      <3> TAKE i \in T
      <3> TAKE j \in 1..i
      <3>1. i \in 1..n /\ j \in 1..n /\ i - 1 \in 0..n /\ j - 1 \in 0..n /\ i - 1 \in j - 1..n
        OBVIOUS
      <3>2. c[j - 1] <= c[i - 1]
        BY <3>1, <1>1
      <3>3. c[j - 1] \in Nat /\ c[i - 1] \in Nat /\ ~ (c[i - 1] >= M)
        BY <3>1
      <3>4. ~ (c[j - 1] >= M)
        <4>1. \A x, y \in Nat : x <= y /\ ~ (y >= M) => ~ (x >= M)
          OBVIOUS
        <4> QED
          BY <3>2, <3>3, <4>1
      <3> QED
        BY <3>1, <3>4
    <2> QED
      BY <2>1, FromTheFirst
  <1>3. \A i \in 1..n : i \in 1..m <=> c[i - 1] < M
    <2> TAKE i \in 1..n
    <2>1. c[i - 1] \in Nat
      OBVIOUS
    <2>2. i \in T <=> ~ (c[i - 1] >= M)
      OBVIOUS
    <2> HIDE DEF m
    <2> QED
      BY <2>1, <2>2, <1>2
  <1> HIDE DEF m
  <1>4. c[m] \in Nat /\ c[n] \in Nat /\ c[m] <= c[n]
    BY <1>1, <1>2
  <1>5. c[m] <= M
    <2>1. CASE m = 0
      BY <2>1
    <2>2. CASE m # 0
      <3>1. m \in 1..n /\ m \in 1..m
        BY <2>2, <1>2
      <3>2. c[m - 1] < M /\ c[m] <= c[m - 1] + 1 /\ c[m - 1] \in Nat
        BY <3>1, <1>3
      <3> QED
        BY <3>2, <1>4
    <2> QED
      BY <2>1, <2>2
  <1>6. m < n => c[m] >= M
    <2> SUFFICES ASSUME m < n
                 PROVE  c[m] >= M
      OBVIOUS
    <2>1. PICK k \in 1..n : k = m + 1
      BY <1>2
    <2>2. k \notin 1..m /\ k - 1 = m
      BY <2>1, <1>2
    <2>3. ~ (c[k - 1] < M)
      BY <2>1, <2>2, <1>3, Zenon
    <2>4. ~ (c[m] < M)
      BY <2>2, <2>3
    <2> QED
      BY <2>4, <1>4
  <1>7. m \in 0..n /\ c[m] = (IF M <= c[n] THEN M ELSE c[n]) /\ (c[m] < M => m = n)
    <2>1. CASE m = n
      BY <2>1, <1>2, <1>4, <1>5
    <2>2. CASE m < n
      BY <2>2, <1>2, <1>4, <1>5, <1>6
    <2> QED
      BY <2>1, <2>2, <1>2
  <1> QED
    BY <1>7 DEF m

LEMMA FetchedIs ==
    ASSUME NEW s \in Seq(Mention)
    PROVE  /\ Fetched(s) \in Seq(Mention) /\ Len(Fetched(s)) \in Nat
           /\ DOMAIN Fetched(s) = 1..Len(Fetched(s))
           /\ \A i \in 1..Len(Fetched(s)) : Fetched(s)[i] \in Mention
  <1>1. Fetched(s) \in Seq(Mention)
    BY FirstOfIs, GraphAssumption DEF Fetched
  <1> HIDE DEF Fetched
  <1> QED
    BY <1>1

(* The rows seen are the first ones; they bring as many nodes as are       *)
(* allowed, and where they bring fewer they are all that were fetched. *)
LEMMA SeenAre ==
    ASSUME NEW s \in Seq(Mention)
    PROVE  LET f == Fetched(s) IN
           /\ Cardinality(Nodes(s)) \in Nat
           /\ Cardinality(Nodes(s)) = Min({MaxNodes, Cardinality(KeysOf(f))})
           /\ \E m \in 0..Len(f) :
                Seen(s) = FirstOf(f, m) /\ (Cardinality(Nodes(s)) < MaxNodes => m = Len(f))
  <1> DEFINE f == Fetched(s)
             n == Len(f)
             c == [k \in 0..n |-> Cardinality(KeysOf(FirstOf(f, k)))]
             T == {i \in DOMAIN f : ~Stop(f, i)}
             m == Cardinality(T)
  <1>1. f \in Seq(Mention) /\ n \in Nat /\ DOMAIN f = 1..n
    BY FetchedIs
  <1>2. MaxNodes \in Nat \ {0}
    BY GraphAssumption
  <1>3. c \in [0..n -> Nat]
    <2>1. \A k \in 0..n : Cardinality(KeysOf(FirstOf(f, k))) \in Nat
      <3> TAKE k \in 0..n
      <3>1. k \in Nat
        BY <1>1
      <3>2. FirstOf(f, k) \in Seq(Mention)
        <4> HIDE DEF f
        <4> QED
          BY <1>1, <3>1, FirstOfIs
      <3> HIDE DEF f
      <3> QED
        BY <3>2, KeysFinite
    <2> HIDE DEF f, n
    <2> QED
      BY <2>1
  <1>4. \A i \in 1..n : c[i - 1] <= c[i] /\ c[i] <= c[i - 1] + 1
    <2> TAKE i \in 1..n
    <2>1. LET d(k) == Cardinality(KeysOf(FirstOf(f, k)))
          IN d(i - 1) <= d(i) /\ d(i) <= d(i - 1) + 1
      <3> HIDE DEF f
      <3> QED
        BY <1>1, NextRowBrings
    <2>2. i \in 0..n /\ i - 1 \in 0..n
      BY <1>1
    <2>3. /\ c[i] = Cardinality(KeysOf(FirstOf(f, i)))
          /\ c[i - 1] = Cardinality(KeysOf(FirstOf(f, i - 1)))
      <3> HIDE DEF f, n
      <3> QED
        BY <2>2
    <2> HIDE DEF c, f, n
    <2> QED
      BY <2>1, <2>3
  <1>5. c[0] = 0
    <2>1. FirstOf(f, 0) \in Seq(Mention) /\ DOMAIN FirstOf(f, 0) = 1..0
      <3> HIDE DEF f
      <3> QED
        BY <1>1, FirstOfIs
    <2>2. KeysOf(FirstOf(f, 0)) = {}
      BY <2>1 DEF KeysOf
    <2>3. Cardinality(KeysOf(FirstOf(f, 0))) = 0
      BY <2>2, FS_EmptySet
    <2>4. 0 \in 0..n
      BY <1>1
    <2> HIDE DEF f, n
    <2> QED
      BY <2>3, <2>4
  <1>6. c[n] = Cardinality(KeysOf(f))
    <2>1. FirstOf(f, n) = f
      <3> HIDE DEF f
      <3>1. SubSeq(f, 1, Len(f)) = f
        BY <1>1, SubSeqFull
      <3> QED
        BY <3>1, <1>1 DEF FirstOf
    <2>2. n \in 0..n
      BY <1>1
    <2>3. c[n] = Cardinality(KeysOf(FirstOf(f, n)))
      <3> HIDE DEF f, n
      <3> QED
        BY <2>2
    <2> QED
      BY <2>1, <2>3
  <1>7. \A i \in 1..n : Stop(f, i) <=> c[i - 1] >= MaxNodes
    <2> TAKE i \in 1..n
    <2>1. i - 1 \in 0..n
      BY <1>1
    <2>2. c[i - 1] = Cardinality(KeysOf(FirstOf(f, i - 1)))
      <3> HIDE DEF f, n
      <3> QED
        BY <2>1
    <2> HIDE DEF c, f, n
    <2> QED
      BY <2>2 DEF Stop
  <1>8. m \in 0..n /\ c[m] = (IF MaxNodes <= c[n] THEN MaxNodes ELSE c[n]) /\ (c[m] < MaxNodes => m = n)
    <2>1. T \in SUBSET (1..n) /\ \A i \in 1..n : i \in T <=> ~ (c[i - 1] >= MaxNodes)
      <3> HIDE DEF c, n, f
      <3> QED
        BY <1>1, <1>7
    <2> HIDE DEF c, n, f, T
    <2>2. n \in Nat
      BY <1>1
    <2> QED
      BY <2>1, <2>2, <1>2, <1>3, <1>4, <1>5, ReachesLimit, ZenonT(40)
  <1>9. Seen(s) = FirstOf(f, m) /\ Cardinality(Nodes(s)) = c[m]
    <2>1. Seen(s) = FirstOf(f, m) /\ Nodes(s) = KeysOf(FirstOf(f, m))
      BY DEF Seen, Nodes
    <2>2. c[m] = Cardinality(KeysOf(FirstOf(f, m)))
      <3> HIDE DEF f, n, m, T
      <3> QED
        BY <1>8
    <2> QED
      BY <2>1, <2>2
  <1> HIDE DEF c, T, m, f, n
  <1>10. c[n] \in Nat /\ c[m] \in Nat
    BY <1>1, <1>3, <1>8
  <1>11. Min({MaxNodes, c[n]}) = IF MaxNodes <= c[n] THEN MaxNodes ELSE c[n]
    BY <1>2, <1>10, MinOfTwo
  <1>12. /\ Cardinality(Nodes(s)) \in Nat
         /\ Cardinality(Nodes(s)) = Min({MaxNodes, Cardinality(KeysOf(f))})
         /\ m \in 0..n /\ Seen(s) = FirstOf(f, m)
         /\ (Cardinality(Nodes(s)) < MaxNodes => m = n)
    BY <1>6, <1>8, <1>9, <1>10, <1>11
  <1> QED
    BY <1>12 DEF f, n

(* A node stands before an entity that is none. *)
LEMMA NodesRankFirst ==
    ASSUME NEW s \in Seq(Mention)
    PROVE  LET f == Fetched(s)
               rank(n) == Min({i \in DOMAIN f : f[i].key = n})
           IN /\ Nodes(s) \subseteq KeysOf(f)
              /\ \A n \in Nodes(s), k \in KeysOf(f) \ Nodes(s) : rank(n) < rank(k)
  <1> DEFINE f == Fetched(s)
             at(n) == {i \in DOMAIN f : f[i].key = n}
  <1>1. f \in Seq(Mention) /\ Len(f) \in Nat /\ DOMAIN f = 1..Len(f)
    BY FetchedIs
  <1> HIDE DEF f
  <1>2. PICK m \in 0..Len(f) : Seen(s) = FirstOf(f, m)
    BY SeenAre DEF f
  <1>3. DOMAIN Seen(s) = 1..m /\ \A i \in 1..m : Seen(s)[i] = f[i]
    <2>1. m \in Nat /\ m <= Len(f) /\ Len(f) \in Nat
      BY <1>1
    <2>2. (IF Len(f) < m THEN Len(f) ELSE m) = m
      BY <2>1
    <2>3. /\ DOMAIN FirstOf(f, m) = 1..(IF Len(f) < m THEN Len(f) ELSE m)
          /\ \A i \in 1..(IF Len(f) < m THEN Len(f) ELSE m) : FirstOf(f, m)[i] = f[i]
      BY <2>1, <1>1, FirstOfIs
    <2> QED
      BY <2>2, <2>3, <1>2
  <1>4. \A n : n \in Nodes(s) <=> \E i \in 1..m : f[i].key = n
    BY <1>3 DEF Nodes, KeysOf
  <1>5. \A n : n \in KeysOf(f) <=> \E i \in 1..Len(f) : f[i].key = n
    BY <1>1 DEF KeysOf
  <1>6. \A n \in KeysOf(f) : Min(at(n)) \in at(n) /\ \A i \in at(n) : Min(at(n)) <= i
    <2> TAKE n \in KeysOf(f)
    <2>1. at(n) \in SUBSET Nat /\ at(n) # {}
      BY <1>1, <1>5
    <2> HIDE DEF at
    <2>2. \E x \in at(n) : \A y \in at(n) : x <= y
      BY <2>1, Least
    <2> QED
      BY <2>2 DEF Min
  <1>7. Nodes(s) \subseteq KeysOf(f)
    BY <1>1, <1>2, <1>4, <1>5
  <1>8. ASSUME NEW n \in Nodes(s), NEW k \in KeysOf(f) \ Nodes(s)
        PROVE  Min(at(n)) < Min(at(k))
    <2>1. PICK i \in 1..m : f[i].key = n
      BY <1>4
    <2>2. i \in at(n)
      BY <2>1, <1>1, <1>2
    <2>3. Min(at(n)) <= i
      BY <2>2, <1>6, <1>7
    <2>4. Min(at(k)) \in at(k)
      BY <1>6
    <2>5. Min(at(k)) \in 1..Len(f) /\ f[Min(at(k))].key = k
      BY <2>4, <1>1
    <2>6. Min(at(k)) \notin 1..m
      BY <2>5, <1>4
    <2>7. Min(at(n)) \in 1..Len(f)
      BY <1>1, <1>6, <1>7
    <2> HIDE DEF at
    <2> QED
      BY <2>1, <2>3, <2>5, <2>6, <2>7, <1>1, <1>2
  <1> QED
    BY <1>7, <1>8 DEF f

(* The places of the lists: each node of an item once. *)
LEMMA PlacesAre ==
    ASSUME NEW s \in Seq(Mention)
    PROVE  LET f == Fetched(s) IN
           /\ Places(s) \subseteq 1..Len(f) /\ IsFiniteSet(Places(s))
           /\ \A i, j \in Places(s) : f[i] = f[j] => i = j
           /\ \A n \in Nodes(s), e \in Sources :
                (\E i \in DOMAIN f : f[i] = [item |-> e, key |-> n])
                => \E i \in Places(s) : f[i] = [item |-> e, key |-> n]
           /\ \A i \in Places(s) : f[i].key \in Nodes(s)
  <1> DEFINE f == Fetched(s)
  <1>1. f \in Seq(Mention) /\ Len(f) \in Nat /\ DOMAIN f = 1..Len(f)
    BY FetchedIs
  <1>2. \A i : i \in Places(s) <=>
            /\ i \in 1..Len(f) /\ f[i].key \in Nodes(s)
            /\ \A j \in 1..i - 1 : f[j] # f[i]
    BY <1>1 DEF Places, Repeats
  <1> HIDE DEF f
  <1>3. Places(s) \subseteq 1..Len(f)
    BY <1>2
  <1>4. IsFiniteSet(Places(s))
    <2>1. IsFiniteSet(1..Len(f))
      BY <1>1, FS_Interval
    <2> QED
      BY <2>1, <1>3, FS_Subset
  <1>5. ASSUME NEW i \in Places(s), NEW j \in Places(s), f[i] = f[j]
        PROVE  i = j
    <2>1. i \in 1..Len(f) /\ j \in 1..Len(f)
      BY <1>3
    <2>2. ~ (i \in 1..j - 1) /\ ~ (j \in 1..i - 1)
      BY <1>2, <1>5
    <2> QED
      BY <2>1, <2>2, <1>1
  <1>6. ASSUME NEW n \in Nodes(s), NEW e \in Sources,
               \E i \in DOMAIN f : f[i] = [item |-> e, key |-> n]
        PROVE  \E i \in Places(s) : f[i] = [item |-> e, key |-> n]
    <2> DEFINE T == {i \in 1..Len(f) : f[i] = [item |-> e, key |-> n]}
    <2>1. T \in SUBSET Nat /\ T # {}
      BY <1>1, <1>6
    <2>2. PICK i \in T : \A j \in T : i <= j
      <3> HIDE DEF T
      <3> QED
        BY <2>1, Least
    <2>3. i \in 1..Len(f) /\ f[i] = [item |-> e, key |-> n] /\ f[i].key = n
      BY <2>2
    <2>4. \A j \in 1..i - 1 : f[j] # f[i]
      <3> SUFFICES ASSUME NEW j \in 1..i - 1, f[j] = f[i]
                   PROVE  FALSE
        OBVIOUS
      <3>1. j \in T
        BY <2>3, <1>1
      <3>2. i <= j
        BY <2>2, <3>1
      <3> QED
        BY <3>2, <2>3
    <2>5. i \in Places(s)
      BY <1>2, <2>3, <2>4
    <2> QED
      BY <2>3, <2>5
  <1>7. \A i \in Places(s) : f[i].key \in Nodes(s)
    BY <1>2
  <1> QED
    BY <1>3, <1>4, <1>5, <1>6, <1>7 DEF f

LEMMA TwoOf ==
    ASSUME NEW a, NEW b, a # b
    PROVE  Cardinality({a, b}) = 2
  <1>1. IsFiniteSet({a}) /\ Cardinality({a}) = 1
    BY FS_Singleton
  <1>2. Cardinality({a} \cup {b}) = Cardinality({a}) + 1
    BY <1>1, FS_AddElement
  <1>3. {a} \cup {b} = {a, b}
    OBVIOUS
  <1> QED
    BY <1>1, <1>2, <1>3

(* The items that mention a node, as places of it. *)
LEMMA MentionsAre ==
    ASSUME mentions \in Seq(Mention)
    PROVE  LET f == Fetched(mentions) IN
           \A n : \A e : e \in MentionedIn(n) <=>
               e \in Sources /\ \E i \in DOMAIN f : f[i] = [item |-> e, key |-> n]
  BY DEF MentionedIn, ToSet

(* Two nodes stand together once in each item that mentions both. *)
LEMMA WeightsCount ==
    ASSUME mentions \in Seq(Mention),
           NEW a \in Nodes(mentions), NEW b \in Nodes(mentions), a # b
    PROVE  Weight(mentions, {a, b}) = Cardinality(MentionedIn(a) \cap MentionedIn(b))
  <1> DEFINE f == Fetched(mentions)
             P == Places(mentions)
             W == Together(mentions, {a, b})
             M == MentionedIn(a) \cap MentionedIn(b)
             of == [p \in W |-> f[p[1]].item]
  <1>1. /\ f \in Seq(Mention) /\ Len(f) \in Nat /\ DOMAIN f = 1..Len(f)
        /\ \A i \in 1..Len(f) : f[i] \in Mention
    BY FetchedIs
  <1>2. /\ P \subseteq 1..Len(f) /\ IsFiniteSet(P)
        /\ \A i, j \in P : f[i] = f[j] => i = j
        /\ \A n \in Nodes(mentions), e \in Sources :
             (\E i \in DOMAIN f : f[i] = [item |-> e, key |-> n])
             => \E i \in P : f[i] = [item |-> e, key |-> n]
    BY PlacesAre
  <1>3. \A p : p \in W <=>
          /\ p \in P \X P /\ p[1] < p[2] /\ f[p[1]].item = f[p[2]].item
          /\ {f[p[1]].key, f[p[2]].key} = {a, b}
    BY DEF Together
  <1>4. \A n : \A e : e \in MentionedIn(n) <=>
           e \in Sources /\ \E i \in DOMAIN f : f[i] = [item |-> e, key |-> n]
    BY MentionsAre
  <1> HIDE DEF f, P, W
  <1>5. \A i \in P : f[i].item \in Sources /\ f[i] = [item |-> f[i].item, key |-> f[i].key]
    BY <1>1, <1>2 DEF Mention
  <1>6. ASSUME NEW p \in W
        PROVE  /\ p[1] \in P /\ p[2] \in P /\ p = <<p[1], p[2]>> /\ p[1] < p[2]
               /\ f[p[1]].item = f[p[2]].item
               /\ \/ f[p[1]].key = a /\ f[p[2]].key = b
                  \/ f[p[1]].key = b /\ f[p[2]].key = a
    <2>1. p \in P \X P /\ p[1] < p[2] /\ f[p[1]].item = f[p[2]].item
      BY <1>3
    <2>2. {f[p[1]].key, f[p[2]].key} = {a, b}
      BY <1>3
    <2>3. \/ f[p[1]].key = a /\ f[p[2]].key = b
          \/ f[p[1]].key = b /\ f[p[2]].key = a
      <3> DEFINE k == f[p[1]].key
                 l == f[p[2]].key
      <3>1. a \in {k, l} /\ b \in {k, l}
        BY <2>2
      <3> HIDE DEF k, l
      <3>2. (k = a /\ l = b) \/ (k = b /\ l = a)
        BY <3>1
      <3> QED
        BY <3>2 DEF k, l
    <2>4. p[1] \in P /\ p[2] \in P /\ p = <<p[1], p[2]>>
      BY <2>1
    <2> QED
      BY <2>1, <2>3, <2>4
  <1>7. of \in [W -> M]
    <2> SUFFICES ASSUME NEW p \in W
                 PROVE  f[p[1]].item \in M
      OBVIOUS
    <2> DEFINE e == f[p[1]].item
    <2>1. \A i \in P : i \in DOMAIN f
      BY <1>1, <1>2
    <2>2. p[1] \in P /\ p[2] \in P /\ f[p[1]].item = e /\ f[p[2]].item = e
      BY <1>6
    <2>3. /\ f[p[1]] = [item |-> e, key |-> f[p[1]].key]
          /\ f[p[2]] = [item |-> e, key |-> f[p[2]].key]
      BY <2>2, <1>5
    <2>4. e \in Sources
      BY <2>2, <1>5
    <2>5. \/ f[p[1]].key = a /\ f[p[2]].key = b
          \/ f[p[1]].key = b /\ f[p[2]].key = a
      BY <1>6
    <2> HIDE DEF e
    <2>6. \E i \in DOMAIN f : f[i] = [item |-> e, key |-> a]
      BY <2>1, <2>2, <2>3, <2>5
    <2>7. \E i \in DOMAIN f : f[i] = [item |-> e, key |-> b]
      BY <2>1, <2>2, <2>3, <2>5
    <2>8. e \in M
      BY <2>4, <2>6, <2>7, <1>4
    <2> QED
      BY <2>8 DEF e
  <1>8. \A p, q \in W : of[p] = of[q] => p = q
    <2> SUFFICES ASSUME NEW p \in W, NEW q \in W, f[p[1]].item = f[q[1]].item
                 PROVE  p = q
      OBVIOUS
    <2>1. /\ p[1] \in P /\ p[2] \in P /\ p = <<p[1], p[2]>> /\ p[1] < p[2]
          /\ q[1] \in P /\ q[2] \in P /\ q = <<q[1], q[2]>> /\ q[1] < q[2]
          /\ f[p[1]].item = f[p[2]].item /\ f[q[1]].item = f[q[2]].item
      BY <1>6
    <2>2. \A i, j \in P : f[i].item = f[j].item /\ f[i].key = f[j].key => i = j
      <3> TAKE i, j \in P
      <3> HAVE f[i].item = f[j].item /\ f[i].key = f[j].key
      <3>1. f[i] = f[j]
        BY <1>5
      <3> QED
        BY <3>1, <1>2
    <2>3. /\ \/ f[p[1]].key = a /\ f[p[2]].key = b
             \/ f[p[1]].key = b /\ f[p[2]].key = a
          /\ \/ f[q[1]].key = a /\ f[q[2]].key = b
             \/ f[q[1]].key = b /\ f[q[2]].key = a
      BY <1>6
    <2>4. \/ p[1] = q[1] /\ p[2] = q[2]
          \/ p[1] = q[2] /\ p[2] = q[1]
      <3>1. \/ f[p[1]].key = f[q[1]].key /\ f[p[2]].key = f[q[2]].key
            \/ f[p[1]].key = f[q[2]].key /\ f[p[2]].key = f[q[1]].key
        BY <2>3
      <3>2. PICK i \in P, j \in P, k \in P, l \in P : i = p[1] /\ j = p[2] /\ k = q[1] /\ l = q[2]
        BY <2>1
      <3>3. /\ f[i].item = f[j].item /\ f[k].item = f[l].item /\ f[i].item = f[k].item
            /\ \/ f[i].key = f[k].key /\ f[j].key = f[l].key
               \/ f[i].key = f[l].key /\ f[j].key = f[k].key
        BY <2>1, <3>1, <3>2
      <3>4. (i = k /\ j = l) \/ (i = l /\ j = k)
        BY <2>2, <3>3
      <3> QED
        BY <3>2, <3>4
    <2>5. p[1] \in Nat /\ p[2] \in Nat /\ q[1] \in Nat /\ q[2] \in Nat
      BY <2>1, <1>2, <1>1
    <2>6. p[1] = q[1] /\ p[2] = q[2]
      BY <2>1, <2>4, <2>5
    <2> QED
      BY <2>1, <2>6
  <1>9. \A e \in M : \E p \in W : of[p] = e
    <2> TAKE e \in M
    <2>1. e \in Sources /\ e \in MentionedIn(a) /\ e \in MentionedIn(b)
      BY <1>4
    <2>2. PICK i \in P : f[i] = [item |-> e, key |-> a]
      BY <2>1, <1>2, <1>4
    <2>3. PICK j \in P : f[j] = [item |-> e, key |-> b]
      BY <2>1, <1>2, <1>4
    <2>4. /\ f[i].item = e /\ f[i].key = a /\ f[j].item = e /\ f[j].key = b /\ i # j
      BY <2>2, <2>3
    <2>5. i \in Nat /\ j \in Nat
      BY <1>1, <1>2
    <2>6. PICK p \in P \X P : (p = <<i, j>> \/ p = <<j, i>>) /\ p[1] < p[2]
      <3>1. <<i, j>> \in P \X P /\ <<j, i>> \in P \X P
        OBVIOUS
      <3>2. i < j \/ j < i
        BY <2>4, <2>5
      <3> QED
        BY <3>1, <3>2
    <2>7. /\ f[p[1]].item = f[p[2]].item /\ f[p[1]].item = e
          /\ {f[p[1]].key, f[p[2]].key} = {a, b}
      BY <2>4, <2>6
    <2>8. p \in W
      BY <1>3, <2>6, <2>7
    <2> QED
      BY <2>7, <2>8
  <1>10. IsFiniteSet(M)
    <2> DEFINE items == [i \in P |-> f[i].item]
               T == {f[i].item : i \in P}
    <2>1. items \in Surjection(P, T)
      BY DEF Surjection
    <2>2. IsFiniteSet(T)
      <3> HIDE DEF items, T
      <3> QED
        BY <2>1, <1>2, FS_Surjection
    <2>3. M \subseteq T
      <3> SUFFICES ASSUME NEW e \in M
                   PROVE  e \in T
        OBVIOUS
      <3>1. PICK i \in P : f[i] = [item |-> e, key |-> a]
        BY <1>2, <1>4
      <3> QED
        BY <3>1
    <2> HIDE DEF T
    <2> QED
      BY <2>2, <2>3, FS_Subset
  <1>11. of \in Bijection(W, M)
    <2> HIDE DEF of, M
    <2> QED
      BY <1>7, <1>8, <1>9, Zenon DEF Bijection, Injection, Surjection, IsInjective
  <1>12. Cardinality(W) = Cardinality(M)
    <2> HIDE DEF of, M
    <2>1. of \in Injection(W, M) /\ of \in Surjection(W, M)
      BY <1>11 DEF Bijection
    <2> QED
      BY <2>1, <1>10, FS_Injection
  <1> QED
    BY <1>12 DEF Weight, W, M

(* An edge has two ends, as no list of an item holds a node twice. *)
LEMMA EdgesJoinTwo ==
    ASSUME NEW s \in Seq(Mention), NEW pair \in EdgesOf(s)
    PROVE  \E a, b \in Nodes(s) : a # b /\ pair = {a, b}
  <1> DEFINE f == Fetched(s)
  <1>1. Together(s, pair) # {}
    <2>1. Cardinality(Together(s, pair)) > 0
      BY DEF EdgesOf, Weight
    <2>2. ASSUME Together(s, pair) = {}
          PROVE  FALSE
      <3>1. Cardinality(Together(s, pair)) = 0
        BY <2>2, FS_EmptySet
      <3> QED
        BY <2>1, <3>1
    <2> QED
      BY <2>2
  <1>2. PICK p \in Places(s) \X Places(s) :
               /\ p[1] < p[2] /\ f[p[1]].item = f[p[2]].item
               /\ {f[p[1]].key, f[p[2]].key} = pair
    BY <1>1 DEF Together
  <1>3. /\ Places(s) \subseteq 1..Len(f)
        /\ \A i, j \in Places(s) : f[i] = f[j] => i = j
        /\ \A i \in Places(s) : f[i].key \in Nodes(s)
    BY PlacesAre
  <1>4. Len(f) \in Nat /\ \A i \in 1..Len(f) : f[i] \in Mention
    BY FetchedIs
  <1> HIDE DEF f
  <1>5. PICK i \in Places(s), j \in Places(s) : i = p[1] /\ j = p[2]
    BY <1>2
  <1>6. i < j /\ f[i].item = f[j].item /\ {f[i].key, f[j].key} = pair
    BY <1>2, <1>5
  <1>7. f[i].key # f[j].key
    <2> SUFFICES ASSUME f[i].key = f[j].key
                 PROVE  FALSE
      OBVIOUS
    <2>1. f[i] \in Mention /\ f[j] \in Mention
      BY <1>3, <1>4
    <2>2. f[i] = f[j]
      BY <2>1, <1>6 DEF Mention
    <2>3. i = j
      BY <2>2, <1>3
    <2> QED
      BY <2>3, <1>3, <1>4, <1>6
  <1> QED
    BY <1>3, <1>6, <1>7

LEMMA GraphsAreFaithful == mentions \in Seq(Mention) => GraphFaithful
  <1> SUFFICES ASSUME mentions \in Seq(Mention)
               PROVE  GraphFaithful
    OBVIOUS
  <1> DEFINE f == Fetched(mentions)
             nodes == Nodes(mentions)
             rank(n) == Min({i \in DOMAIN f : f[i].key = n})
  <1>1. /\ Cardinality(nodes) \in Nat
        /\ Cardinality(nodes) = Min({MaxNodes, Cardinality(KeysOf(f))})
    BY SeenAre
  <1>2. /\ nodes \subseteq KeysOf(f)
        /\ \A n \in nodes, k \in KeysOf(f) \ nodes : rank(n) < rank(k)
    BY NodesRankFirst
  <1>3. \A pair \in EdgesOf(mentions) : Cardinality(pair) = 2
    <2> TAKE pair \in EdgesOf(mentions)
    <2>1. PICK a \in nodes, b \in nodes : a # b /\ pair = {a, b}
      BY EdgesJoinTwo
    <2> QED
      BY <2>1, TwoOf
  <1>4. \A a, b \in nodes : a # b =>
          Weight(mentions, {a, b}) = Cardinality(MentionedIn(a) \cap MentionedIn(b))
    BY WeightsCount
  <1>5. IsFiniteSet(EdgesOf(mentions))
    <2>1. IsFiniteSet(KeysOf(f))
      BY FetchedIs, KeysFinite
    <2>2. IsFiniteSet(nodes)
      <3> HIDE DEF f, nodes
      <3> QED
        BY <1>2, <2>1, FS_Subset
    <2>3. IsFiniteSet(SUBSET nodes)
      <3> HIDE DEF nodes
      <3> QED
        BY <2>2, FS_SUBSET
    <2>4. EdgesOf(mentions) \in SUBSET (SUBSET nodes)
      BY DEF EdgesOf
    <2> HIDE DEF nodes
    <2> QED
      BY <2>3, <2>4, FS_Subset
  <1>6. ASSUME NEW kept \in Returned(mentions), Cardinality(EdgesOf(mentions)) <= MaxEdges
        PROVE  kept = EdgesOf(mentions)
    <2>1. /\ kept \in SUBSET EdgesOf(mentions)
          /\ Cardinality(kept) = IF Cardinality(EdgesOf(mentions)) < MaxEdges
                                 THEN Cardinality(EdgesOf(mentions)) ELSE MaxEdges
      BY DEF Returned
    <2>2. Cardinality(EdgesOf(mentions)) \in Nat /\ MaxEdges \in Nat
      BY <1>5, FS_CardinalityType, GraphAssumption
    <2>3. Cardinality(kept) = Cardinality(EdgesOf(mentions))
      BY <2>1, <2>2, <1>6
    <2> QED
      BY <2>1, <2>3, <1>5, FS_Subset
  <1>7. ASSUME Cardinality(nodes) < MaxNodes,
               NEW pair \in EdgesOf(mentions), NEW n \in pair
        PROVE  Weight(mentions, pair) <= EvidenceCount(mentions, n)
    <2>1. PICK a \in nodes, b \in nodes : a # b /\ pair = {a, b}
      BY EdgesJoinTwo
    <2>2. Weight(mentions, pair) = Cardinality(MentionedIn(a) \cap MentionedIn(b))
      BY <2>1, <1>4
    <2>3. f \in Seq(Mention) /\ Len(f) \in Nat /\ DOMAIN f = 1..Len(f)
          /\ \A i \in 1..Len(f) : f[i] \in Mention
      BY FetchedIs
    <2>4. Seen(mentions) = f
      <3>1. PICK m \in 0..Len(f) :
              Seen(mentions) = FirstOf(f, m) /\ (Cardinality(nodes) < MaxNodes => m = Len(f))
        BY SeenAre
      <3>2. Seen(mentions) = FirstOf(f, Len(f))
        BY <3>1, <1>7
      <3> HIDE DEF f
      <3>3. SubSeq(f, 1, Len(f)) = f
        BY <2>3, SubSeqFull
      <3>4. FirstOf(f, Len(f)) = SubSeq(f, 1, Len(f))
        BY <2>3 DEF FirstOf
      <3> QED
        BY <3>2, <3>3, <3>4
    <2> DEFINE at == {j \in DOMAIN f : f[j].key = n}
               items == {f[i].item : i \in at}
    <2>5. EvidenceCount(mentions, n) = Cardinality(items)
      BY <2>4 DEF EvidenceCount
    <2>6. IsFiniteSet(items)
      <3> DEFINE g == [i \in at |-> f[i].item]
      <3>1. g \in Surjection(at, items)
        BY DEF Surjection
      <3>2. IsFiniteSet(1..Len(f))
        BY <2>3, FS_Interval
      <3>3. at \subseteq 1..Len(f)
        BY <2>3
      <3> HIDE DEF at, items, g, f
      <3>4. IsFiniteSet(at)
        BY <3>2, <3>3, FS_Subset
      <3> QED
        BY <3>1, <3>4, FS_Surjection
    <2>7. MentionedIn(a) \cap MentionedIn(b) \subseteq items
      <3> SUFFICES ASSUME NEW e \in MentionedIn(a) \cap MentionedIn(b)
                   PROVE  e \in items
        OBVIOUS
      <3>1. e \in MentionedIn(n)
        BY <2>1, <1>7
      <3>2. PICK i \in DOMAIN f : f[i] = [item |-> e, key |-> n]
        BY <3>1, MentionsAre
      <3>3. i \in at /\ f[i].item = e
        BY <3>2
      <3> HIDE DEF at, f
      <3> QED
        BY <3>3
    <2> HIDE DEF items
    <2>8. Cardinality(MentionedIn(a) \cap MentionedIn(b)) <= Cardinality(items)
      BY <2>6, <2>7, FS_Subset
    <2> QED
      BY <2>2, <2>5, <2>8
  <1> HIDE DEF f, nodes, rank
  <1>8. /\ Cardinality(nodes) = Min({MaxNodes, Cardinality(KeysOf(f))})
        /\ \A n \in nodes, k \in KeysOf(f) \ nodes : rank(n) < rank(k)
        /\ \A pair \in EdgesOf(mentions) : Cardinality(pair) = 2
        /\ \A a, b \in nodes : a # b =>
             Weight(mentions, {a, b}) = Cardinality(MentionedIn(a) \cap MentionedIn(b))
        /\ \A kept \in Returned(mentions) :
             Cardinality(EdgesOf(mentions)) <= MaxEdges => kept = EdgesOf(mentions)
        /\ Cardinality(nodes) < MaxNodes =>
             \A pair \in EdgesOf(mentions) : \A n \in pair :
                 Weight(mentions, pair) <= EvidenceCount(mentions, n)
    BY <1>1, <1>2, <1>3, <1>4, <1>6, <1>7
  <1> QED
    BY <1>8 DEF GraphFaithful, f, nodes, rank

(* The rows stay a list of mentions, wherever one is added. *)
LEMMA ExtractKeeps ==
    mentions \in Seq(Mention) /\ [GraphNext]_mentions => (mentions \in Seq(Mention))'
  <1> SUFFICES ASSUME mentions \in Seq(Mention), [GraphNext]_mentions
               PROVE  mentions' \in Seq(Mention)
    OBVIOUS
  <1>1. CASE UNCHANGED mentions
    BY <1>1
  <1>2. ASSUME NEW row \in Mention, NEW i \in 1..Len(mentions) + 1, Extract(row, i)
        PROVE  mentions' \in Seq(Mention)
    <2>1. mentions' = SubSeq(mentions, 1, i - 1) \o <<row>> \o SubSeq(mentions, i, Len(mentions))
      BY <1>2 DEF Extract, InsertAt
    <2>2. /\ \A j \in 1..i - 1 : mentions[j] \in Mention
          /\ \A j \in i..Len(mentions) : mentions[j] \in Mention
          /\ i \in Int /\ i - 1 \in Int /\ Len(mentions) \in Int
      <3> HIDE DEF Mention
      <3> QED
        OBVIOUS
    <2>3. /\ SubSeq(mentions, 1, i - 1) \in Seq(Mention)
          /\ SubSeq(mentions, i, Len(mentions)) \in Seq(Mention)
      BY <2>2, SubSeqProperties
    <2>4. <<row>> \in Seq(Mention)
      OBVIOUS
    <2> QED
      BY <2>1, <2>3, <2>4, ConcatProperties
  <1> QED
    BY <1>1, <1>2 DEF GraphNext

(* The relationship graph of a case says what its rows say, for any number *)
(* of rows, of items and of entities and any limits: as many nodes as are  *)
(* allowed and from the surest rows, edges of two ends weighed by the      *)
(* items that mention both, none lost but to the limit                     *)
(* (get_relationship_graph). *)
THEOREM GraphsSayWhatRowsSay == GraphSpec => []GraphFaithful
  <1>1. GraphInit => mentions \in Seq(Mention)
    BY DEF GraphInit
  <1>2. mentions \in Seq(Mention) /\ [GraphNext]_mentions => (mentions \in Seq(Mention))'
    BY ExtractKeeps
  <1>3. mentions \in Seq(Mention) => GraphFaithful
    BY GraphsAreFaithful
  <1> QED
    BY <1>1, <1>2, <1>3, PTL DEF GraphSpec

(***************************************************************************)
(* Figures on a board.                                                     *)
(***************************************************************************)

(* A row like x is counted by the figure n of the board B. *)
Counts(B, n, x) ==
    \E s \in 1..Len(B.asks) : n \in DOMAIN B.asks[s] /\ x \in B.asks[s][n]

(* The figures asked for before the k-th statement, and all of them. *)
AskedBefore(B, k) == UNION {DOMAIN B.asks[s] : s \in 1..k - 1}
NamesOf(B) == AskedBefore(B, Len(B.asks) + 1)

(* No row is counted by two of the figures. *)
Apart(B, names) ==
    \A n, k \in names : \A x : Counts(B, n, x) /\ Counts(B, k, x) => n = k

(* A row that one of these counts, one of those counts. *)
Covered(B, these, those) ==
    \A n \in these : \A x : Counts(B, n, x) => \E k \in those : Counts(B, k, x)

(* What a meaning of figures says is true of the rows they count, and its  *)
(* whole is asked for at once. *)
Fits(B, m) ==
    /\ IsFiniteSet(m.parts) /\ IsFiniteSet(m.whole)
    /\ m.parts \subseteq NamesOf(B)
    /\ \E s \in 1..Len(B.asks) : m.whole \subseteq DOMAIN B.asks[s]
    /\ Apart(B, m.parts) /\ Apart(B, m.whole)
    /\ Covered(B, m.parts, m.whole)
    /\ m.all => Covered(B, m.whole, m.parts)

(* Each figure is asked for once, and the meanings fit. *)
Consistent(B) ==
    /\ Len(B.asks) \in Nat
    /\ \A s, t \in 1..Len(B.asks) : s # t => DOMAIN B.asks[s] \cap DOMAIN B.asks[t] = {}
    /\ \A m \in B.means : Fits(B, m)

(* The rows counted by some figures, figure by figure. *)
Pairs(counted, names) == {p \in names \X TableRows : p[2] \in counted[p[1]]}

(* What a figure would count now. *)
Current(n) == {r \in Present : Counts(Boards[board], n, table[r])}

(* Counted rows explain the board: what is asked for was counted, what is  *)
(* not yet is as the table says; each meaning is off by at most the rows   *)
(* that were changed. *)
Explains(counted) ==
    LET B == Boards[board]
        size(names) == Cardinality(Pairs(counted, names))
    IN /\ \A n \in AskedBefore(B, step) : figures[n] = Cardinality(counted[n])
       /\ \A n \in NamesOf(B) \ AskedBefore(B, step) : counted[n] = Current(n)
       /\ \A m \in B.means :
            /\ size(m.parts) <= size(m.whole) + changes
            /\ m.all => size(m.whole) <= size(m.parts) + changes

TallyInv ==
    /\ board \in DOMAIN Boards
    /\ DOMAIN table = TableRows
    /\ step \in 1..Len(Boards[board].asks) + 1
    /\ changes \in Nat
    /\ DOMAIN figures = AskedBefore(Boards[board], step)
    /\ \E counted \in [NamesOf(Boards[board]) -> SUBSET TableRows] : Explains(counted)

(* Finitely many figures count finitely many rows. *)
LEMMA PairsFinite ==
    ASSUME NEW counted, NEW names, IsFiniteSet(names)
    PROVE  IsFiniteSet(Pairs(counted, names)) /\ Cardinality(Pairs(counted, names)) \in Nat
  <1>1. IsFiniteSet(names \X TableRows)
    BY TallyAssumption, FS_Product
  <1>2. Pairs(counted, names) \subseteq names \X TableRows
    BY DEF Pairs
  <1> QED
    BY <1>1, <1>2, FS_Subset, FS_CardinalityType

(* Counts in strokes: as many as there are things counted. *)
LEMMA StrokesMatch ==
    ASSUME NEW names, IsFiniteSet(names), NEW R, IsFiniteSet(R), NEW size, NEW counted,
           \A n \in names : counted[n] \subseteq R /\ size[n] = Cardinality(counted[n])
    PROVE  Cardinality(UNION {{n} \X (1..size[n]) : n \in names})
           = Cardinality({p \in names \X R : p[2] \in counted[p[1]]})
  <1> DEFINE e == [n \in names |-> CHOOSE f : f \in Bijection(1..size[n], counted[n])]
             S == UNION {{n} \X (1..size[n]) : n \in names}
             T == {p \in names \X R : p[2] \in counted[p[1]]}
             g == [p \in S |-> <<p[1], e[p[1]][p[2]]>>]
  <1>1. ASSUME NEW n \in names
        PROVE  /\ e[n] \in [1..size[n] -> counted[n]]
               /\ \A i, j \in 1..size[n] : e[n][i] = e[n][j] => i = j
               /\ \A r \in counted[n] : \E i \in 1..size[n] : e[n][i] = r
    <2>1. IsFiniteSet(counted[n])
      BY FS_Subset
    <2>2. \E f : f \in Bijection(1..size[n], counted[n])
      BY <2>1, FS_CardinalityType DEF ExistsBijection
    <2>3. e[n] \in Bijection(1..size[n], counted[n])
      BY <2>2
    <2> DEFINE f == e[n]
               D == 1..size[n]
               C == counted[n]
    <2> HIDE DEF e
    <2>4. f \in Bijection(D, C)
      BY <2>3
    <2> HIDE DEF f, D, C
    <2>5. /\ f \in [D -> C] /\ \A i, j \in D : f[i] = f[j] => i = j
          /\ \A r \in C : \E i \in D : f[i] = r
      BY <2>4, Fun_BijectionProperties
    <2> QED
      BY <2>5 DEF f, D, C
  <1> HIDE DEF e
  <1>2. \A p : p \in S <=> p \in names \X UNION {1..size[n] : n \in names} /\ p[2] \in 1..size[p[1]]
    OBVIOUS
  <1>3. \A p : p \in T <=> p \in names \X R /\ p[2] \in counted[p[1]]
    OBVIOUS
  <1>4. ASSUME NEW p \in S
        PROVE  /\ p = <<p[1], p[2]>> /\ p[1] \in names /\ p[2] \in 1..size[p[1]]
               /\ g[p] = <<p[1], e[p[1]][p[2]]>> /\ g[p] \in T
    <2>1. p = <<p[1], p[2]>> /\ p[1] \in names /\ p[2] \in 1..size[p[1]]
      BY <1>2
    <2>2. e[p[1]][p[2]] \in counted[p[1]]
      BY <1>1, <2>1
    <2> HIDE DEF S, T
    <2>3. g[p] = <<p[1], e[p[1]][p[2]]>>
      OBVIOUS
    <2> QED
      BY <1>3, <2>1, <2>2, <2>3
  <1> HIDE DEF S, T
  <1>5. g \in [S -> T]
    BY <1>4
  <1>6. ASSUME NEW p \in S, NEW q \in S, g[p] = g[q]
        PROVE  p = q
    <2>1. p[1] = q[1] /\ e[p[1]][p[2]] = e[q[1]][q[2]]
      BY <1>4, <1>6
    <2>2. p[1] \in names /\ p[2] \in 1..size[p[1]] /\ q[2] \in 1..size[p[1]]
      BY <1>4, <2>1
    <2>3. \A i, j \in 1..size[p[1]] : e[p[1]][i] = e[p[1]][j] => i = j
      BY <1>1, <2>2
    <2>4. p[2] = q[2]
      BY <2>1, <2>2, <2>3
    <2> QED
      BY <1>4, <2>1, <2>4
  <1>7. ASSUME NEW t \in T
        PROVE  \E p \in S : g[p] = t
    <2>1. t = <<t[1], t[2]>> /\ t[1] \in names /\ t[2] \in counted[t[1]]
      BY <1>3
    <2>2. PICK i \in 1..size[t[1]] : e[t[1]][i] = t[2]
      BY <1>1, <2>1
    <2>3. <<t[1], i>> \in S
      BY <2>1, <2>2 DEF S
    <2>4. g[<<t[1], i>>] = <<t[1], e[t[1]][i]>>
      BY <2>3
    <2> QED
      BY <2>1, <2>2, <2>3, <2>4
  <1>8. g \in Bijection(S, T)
    <2> HIDE DEF g
    <2> QED
      BY <1>5, <1>6, <1>7, Fun_IsBij
  <1>9. IsFiniteSet(T)
    <2>1. IsFiniteSet(names \X R)
      BY FS_Product
    <2>2. T \subseteq names \X R
      BY DEF T
    <2> QED
      BY <2>1, <2>2, FS_Subset
  <1>10. ExistsBijection(T, S)
    BY <1>8, Fun_ExistsBijSymmetric DEF ExistsBijection
  <1> QED
    BY <1>9, <1>10, FS_Bijection DEF S, T

(* There are as many strokes as counted rows. *)
LEMMA StrokesAre ==
    ASSUME NEW names, IsFiniteSet(names), NEW counted,
           \A n \in names : counted[n] \subseteq TableRows /\ figures[n] = Cardinality(counted[n])
    PROVE  Cardinality(Strokes(names)) = Cardinality(Pairs(counted, names))
  BY TallyAssumption, StrokesMatch DEF Strokes, Pairs

(***************************************************************************)
(* The boards.                                                             *)
(***************************************************************************)

(* Up to seven things are finitely many. *)
LEMMA SevenFinite ==
    ASSUME NEW a, NEW b, NEW c, NEW d, NEW e, NEW f, NEW g
    PROVE  IsFiniteSet({a, b, c, d, e, f, g})
  <1>1. IsFiniteSet({a}) /\ IsFiniteSet({b}) /\ IsFiniteSet({c}) /\ IsFiniteSet({d})
        /\ IsFiniteSet({e}) /\ IsFiniteSet({f}) /\ IsFiniteSet({g})
    BY FS_Singleton
  <1>2. IsFiniteSet(({a} \cup {b}) \cup {c})
    BY <1>1, FS_Union
  <1>3. IsFiniteSet(({d} \cup {e}) \cup ({f} \cup {g}))
    BY <1>1, FS_Union
  <1>4. IsFiniteSet((({a} \cup {b}) \cup {c}) \cup (({d} \cup {e}) \cup ({f} \cup {g})))
    BY <1>2, <1>3, FS_Union
  <1>5. (({a} \cup {b}) \cup {c}) \cup (({d} \cup {e}) \cup ({f} \cup {g})) = {a, b, c, d, e, f, g}
    OBVIOUS
  <1> QED
    BY <1>4, <1>5

LEMMA FewFinite ==
    /\ \A a : IsFiniteSet({a})
    /\ \A a, b : IsFiniteSet({a, b})
    /\ \A a, b, c : IsFiniteSet({a, b, c})
    /\ \A a, b, c, d : IsFiniteSet({a, b, c, d})
    /\ IsFiniteSet(CaseStatuses) /\ IsFiniteSet(Priorities)
  <1>1. ASSUME NEW a, NEW b, NEW c, NEW d
        PROVE  IsFiniteSet({a, b, c, d})
    <2>1. IsFiniteSet({a, b, c, d, d, d, d})
      BY SevenFinite
    <2>2. {a, b, c, d, d, d, d} = {a, b, c, d}
      OBVIOUS
    <2> QED
      BY <2>1, <2>2
  <1>2. ASSUME NEW a, NEW b, NEW c
        PROVE  IsFiniteSet({a, b, c}) /\ IsFiniteSet({a, b}) /\ IsFiniteSet({a})
    <2>1. {a, b, c, c} = {a, b, c} /\ {a, b, b, b} = {a, b} /\ {a, a, a, a} = {a}
      OBVIOUS
    <2>2. IsFiniteSet({a, b, c, c}) /\ IsFiniteSet({a, b, b, b}) /\ IsFiniteSet({a, a, a, a})
      BY <1>1
    <2> QED
      BY <2>1, <2>2
  <1>3. IsFiniteSet(CaseStatuses)
    BY SevenFinite DEF CaseStatuses
  <1>4. IsFiniteSet(Priorities)
    <2>1. IsFiniteSet({"low", "medium", "high", "critical"})
      BY <1>1
    <2> QED
      BY <2>1, TallyAssumption, FS_Subset
  <1> QED
    BY <1>1, <1>2, <1>3, <1>4

(* Each figure is asked for once. *)
Once(B) ==
    /\ Len(B.asks) \in Nat
    /\ \A s, t \in 1..Len(B.asks) : s # t => DOMAIN B.asks[s] \cap DOMAIN B.asks[t] = {}

(* A figure counts what its statement says. *)
LEMMA CountsAre ==
    ASSUME NEW B, Once(B), NEW s \in 1..Len(B.asks), NEW n \in DOMAIN B.asks[s]
    PROVE  n \in NamesOf(B) /\ \A x : Counts(B, n, x) <=> x \in B.asks[s][n]
  <1>1. s \in 1..Len(B.asks) + 1 - 1
    BY DEF Once
  <1> QED
    BY <1>1 DEF Once, Counts, NamesOf, AskedBefore

(* Parts of one figure. *)
LEMMA PartsFit ==
    ASSUME NEW B, Once(B), NEW x \in NamesOf(B), NEW parts \in SUBSET NamesOf(B),
           IsFiniteSet(parts), Apart(B, parts),
           \A n \in parts : \A y : Counts(B, n, y) => Counts(B, x, y)
    PROVE  /\ Fits(B, Belongs(x, parts))
           /\ (\A y : Counts(B, x, y) => \E n \in parts : Counts(B, n, y)) => Fits(B, AddUp(x, parts))
  <1>1. IsFiniteSet({x})
    BY FS_Singleton
  <1>2. Apart(B, {x}) /\ Covered(B, parts, {x})
    BY DEF Apart, Covered
  <1>3. \E s \in 1..Len(B.asks) : {x} \subseteq DOMAIN B.asks[s]
    BY DEF NamesOf, AskedBefore, Once
  <1>4. Fits(B, Belongs(x, parts))
    BY <1>1, <1>2, <1>3 DEF Fits, Belongs
  <1>5. ASSUME \A y : Counts(B, x, y) => \E n \in parts : Counts(B, n, y)
        PROVE  Fits(B, AddUp(x, parts))
    <2>1. Covered(B, {x}, parts)
      BY <1>5 DEF Covered
    <2> QED
      BY <1>1, <1>2, <1>3, <2>1 DEF Fits, AddUp, Same
  <1> QED
    BY <1>4, <1>5

(* A figure that lies in another. *)
LEMMA PartFits ==
    ASSUME NEW B, Once(B), NEW x \in NamesOf(B), NEW n \in NamesOf(B),
           \A y : Counts(B, n, y) => Counts(B, x, y)
    PROVE  /\ Fits(B, Belongs(x, {n}))
           /\ (\A y : Counts(B, x, y) => Counts(B, n, y)) => Fits(B, AddUp(x, {n}))
  <1>1. IsFiniteSet({n}) /\ Apart(B, {n}) /\ {n} \in SUBSET NamesOf(B)
    BY FS_Singleton DEF Apart
  <1>2. \A k \in {n} : \A y : Counts(B, k, y) => Counts(B, x, y)
    OBVIOUS
  <1> QED
    BY <1>1, <1>2, PartsFit

LEMMA ShrinkIs ==
    /\ \A a, b, c : Shrink(<<a, b, c>>) = {Belongs(a, {b}), Belongs(b, {c})}
    /\ \A a, b, c, d : Shrink(<<a, b, c, d>>) = {Belongs(a, {b}), Belongs(b, {c}), Belongs(c, {d})}
  <1>1. ASSUME NEW a, NEW b, NEW c
        PROVE  Shrink(<<a, b, c>>) = {Belongs(a, {b}), Belongs(b, {c})}
    <2> DEFINE s == <<a, b, c>>
    <2>1. 1..Len(s) - 1 = {1, 2} /\ s[1] = a /\ s[1 + 1] = b /\ s[2] = b /\ s[2 + 1] = c
      OBVIOUS
    <2>2. Shrink(s) = {Belongs(s[i], {s[i + 1]}) : i \in {1, 2}}
      BY <2>1 DEF Shrink
    <2> HIDE DEF s
    <2>3. Shrink(s) = {Belongs(a, {b}), Belongs(b, {c})}
      BY <2>1, <2>2
    <2> QED
      BY <2>3 DEF s
  <1>2. ASSUME NEW a, NEW b, NEW c, NEW d
        PROVE  Shrink(<<a, b, c, d>>) = {Belongs(a, {b}), Belongs(b, {c}), Belongs(c, {d})}
    <2> DEFINE s == <<a, b, c, d>>
    <2>1. /\ 1..Len(s) - 1 = {1, 2, 3} /\ s[1] = a /\ s[1 + 1] = b /\ s[2] = b /\ s[2 + 1] = c
          /\ s[3] = c /\ s[3 + 1] = d
      OBVIOUS
    <2>2. Shrink(s) = {Belongs(s[i], {s[i + 1]}) : i \in {1, 2, 3}}
      BY <2>1 DEF Shrink
    <2> HIDE DEF s
    <2>3. Shrink(s) = {Belongs(a, {b}), Belongs(b, {c}), Belongs(c, {d})}
      BY <2>1, <2>2
    <2> QED
      BY <2>3 DEF s
  <1> QED
    BY <1>1, <1>2

(* The cases of the executive's board. *)
LEMMA ExecutiveCasesFit == Consistent(ExecutiveCases)
  <1> DEFINE B == ExecutiveCases
             rows == [status : CaseStatuses, priority : Priorities]
             of(S) == {r \in rows : r.status \in S}
             urgent == {r \in of(ActiveStatuses) : r.priority \in {"high", "critical"}}
  <1>1. /\ Len(B.asks) = 6
        /\ B.asks[1] = [total |-> rows]
        /\ B.asks[2] = [active |-> of(ActiveStatuses)]
        /\ B.asks[3] = [urgent |-> urgent]
        /\ B.asks[4] = [over |-> of(ClosedStatuses)]
        /\ B.asks[5] = [s \in CaseStatuses |-> of({s})]
        /\ B.asks[6] = [p \in Priorities |-> {r \in rows : r.priority = p}]
        /\ B.means = {AddUp("total", {"active", "over", "draft"}), AddUp("total", CaseStatuses),
                       AddUp("total", Priorities), AddUp("active", ActiveStatuses),
                       Belongs("active", {"urgent"})}
    BY DEF ExecutiveCases
  <1> HIDE DEF B
  <1>2. Once(B)
    BY <1>1, TallyAssumption DEF Once, CaseStatuses
  <1>3. /\ \A x : Counts(B, "total", x) <=> x \in rows
        /\ \A x : Counts(B, "active", x) <=> x \in of(ActiveStatuses)
        /\ \A x : Counts(B, "urgent", x) <=> x \in urgent
        /\ \A x : Counts(B, "over", x) <=> x \in of(ClosedStatuses)
        /\ \A s \in CaseStatuses : \A x : Counts(B, s, x) <=> x \in of({s})
        /\ \A p \in Priorities : \A x : Counts(B, p, x) <=> x \in {r \in rows : r.priority = p}
        /\ {"total", "active", "urgent", "over"} \subseteq NamesOf(B)
        /\ CaseStatuses \subseteq NamesOf(B)
        /\ Priorities \subseteq NamesOf(B)
    <2>1. ASSUME NEW s \in 1..6, NEW n \in DOMAIN B.asks[s]
          PROVE  n \in NamesOf(B) /\ \A x : Counts(B, n, x) <=> x \in B.asks[s][n]
      BY <1>1, <1>2, CountsAre
    <2> HIDE DEF rows, of, urgent
    <2> QED
      BY <1>1, <2>1
  <1>4. ASSUME NEW m \in B.means
        PROVE  Fits(B, m)
    <2>1. CASE m = AddUp("total", {"active", "over", "draft"})
      <3> DEFINE P == {"active", "over", "draft"}
      <3>1. Apart(B, P) /\ \A n \in P : \A y : Counts(B, n, y) => Counts(B, "total", y)
        BY <1>3 DEF Apart, CaseStatuses, ActiveStatuses, ClosedStatuses
      <3>2. \A y : Counts(B, "total", y) => \E n \in P : Counts(B, n, y)
        BY <1>3 DEF CaseStatuses, ActiveStatuses, ClosedStatuses
      <3>3. IsFiniteSet(P)
        BY FewFinite
      <3>4. P \in SUBSET NamesOf(B)
        BY <1>3 DEF CaseStatuses
      <3> QED
        BY <1>2, <1>3, <2>1, <3>1, <3>2, <3>3, <3>4, PartsFit
    <2>2. CASE m = AddUp("total", CaseStatuses)
      <3> DEFINE P == CaseStatuses
      <3>1. Apart(B, P) /\ \A n \in P : \A y : Counts(B, n, y) => Counts(B, "total", y)
        BY <1>3 DEF Apart
      <3>2. \A y : Counts(B, "total", y) => \E n \in P : Counts(B, n, y)
        BY <1>3
      <3> QED
        BY <1>2, <1>3, <2>2, <3>1, <3>2, FewFinite, PartsFit
    <2>3. CASE m = AddUp("total", Priorities)
      <3> DEFINE P == Priorities
      <3>1. Apart(B, P) /\ \A n \in P : \A y : Counts(B, n, y) => Counts(B, "total", y)
        BY <1>3 DEF Apart
      <3>2. \A y : Counts(B, "total", y) => \E n \in P : Counts(B, n, y)
        BY <1>3
      <3> QED
        BY <1>2, <1>3, <2>3, <3>1, <3>2, FewFinite, PartsFit
    <2>4. CASE m = AddUp("active", ActiveStatuses)
      <3> DEFINE P == ActiveStatuses
      <3>1. Apart(B, P) /\ \A n \in P : \A y : Counts(B, n, y) => Counts(B, "active", y)
        BY <1>3 DEF Apart, ActiveStatuses, CaseStatuses
      <3>2. \A y : Counts(B, "active", y) => \E n \in P : Counts(B, n, y)
        BY <1>3 DEF ActiveStatuses, CaseStatuses
      <3>3. IsFiniteSet(P)
        BY FewFinite DEF ActiveStatuses
      <3>4. P \in SUBSET NamesOf(B)
        BY <1>3 DEF ActiveStatuses, CaseStatuses
      <3> QED
        BY <1>2, <1>3, <2>4, <3>1, <3>2, <3>3, <3>4, PartsFit
    <2>5. CASE m = Belongs("active", {"urgent"})
      BY <1>2, <1>3, <2>5, PartFits
    <2> QED
      BY <1>1, <2>1, <2>2, <2>3, <2>4, <2>5
  <1> QED
    BY <1>2, <1>4 DEF Consistent, Once, B

(* Its evidence. *)
LEMMA ExecutiveEvidenceFit == Consistent(ExecutiveEvidence)
  <1> DEFINE B == ExecutiveEvidence
             rows == [age : Ages, queued : BOOLEAN, removed : BOOLEAN]
             of(S) == {r \in rows : r.age \in S}
             queue == {r \in rows : r.queued}
  <1>1. /\ Len(B.asks) = 4
        /\ B.asks[1] = [total |-> rows]
        /\ B.asks[2] = [today |-> of({0})]
        /\ B.asks[3] = [queue |-> queue]
        /\ B.asks[4] = [last_day |-> of({0}), days_before |-> of({1, 2})]
        /\ B.means = {AddUp("today", {"last_day"}), Belongs("total", {"queue"}),
                       Belongs("total", {"last_day", "days_before"})}
    BY DEF ExecutiveEvidence
  <1> HIDE DEF B
  <1>2. Once(B)
    BY <1>1 DEF Once
  <1>3. /\ \A x : Counts(B, "total", x) <=> x \in rows
        /\ \A x : Counts(B, "today", x) <=> x \in of({0})
        /\ \A x : Counts(B, "queue", x) <=> x \in queue
        /\ \A x : Counts(B, "last_day", x) <=> x \in of({0})
        /\ \A x : Counts(B, "days_before", x) <=> x \in of({1, 2})
        /\ {"total", "today", "queue", "last_day", "days_before"} \subseteq NamesOf(B)
    <2>1. ASSUME NEW s \in 1..4, NEW n \in DOMAIN B.asks[s]
          PROVE  n \in NamesOf(B) /\ \A x : Counts(B, n, x) <=> x \in B.asks[s][n]
      BY <1>1, <1>2, CountsAre
    <2> HIDE DEF rows, of, queue
    <2> QED
      BY <1>1, <2>1
  <1>4. ASSUME NEW m \in B.means
        PROVE  Fits(B, m)
    <2>1. CASE m = AddUp("today", {"last_day"})
      BY <1>2, <1>3, <2>1, PartFits
    <2>2. CASE m = Belongs("total", {"queue"})
      BY <1>2, <1>3, <2>2, PartFits
    <2>3. CASE m = Belongs("total", {"last_day", "days_before"})
      <3> DEFINE P == {"last_day", "days_before"}
      <3>1. Apart(B, P) /\ \A n \in P : \A y : Counts(B, n, y) => Counts(B, "total", y)
        BY <1>3 DEF Apart
      <3> QED
        BY <1>2, <1>3, <2>3, <3>1, FewFinite, PartsFit
    <2> QED
      BY <1>1, <2>1, <2>2, <2>3
  <1> QED
    BY <1>2, <1>4 DEF Consistent, Once, B

(* Its reports. *)
LEMMA ExecutiveReportsFit == Consistent(ExecutiveReports)
  <1> DEFINE B == ExecutiveReports
             rows == [status : {"draft", "generating", "ready", "failed", "published"},
                      removed : BOOLEAN]
             kept(S) == {r \in rows : ~r.removed /\ r.status \in S}
             made == {"generating", "ready", "failed", "published"}
  <1>1. /\ Len(B.asks) = 2
        /\ B.asks[1] = [generated |-> kept(made)]
        /\ B.asks[2] = [published |-> kept({"published"})]
        /\ B.means = {Belongs("generated", {"published"})}
    BY DEF ExecutiveReports
  <1> HIDE DEF B
  <1>2. Once(B)
    BY <1>1 DEF Once
  <1>3. /\ \A x : Counts(B, "generated", x) <=> x \in kept(made)
        /\ \A x : Counts(B, "published", x) <=> x \in kept({"published"})
        /\ {"generated", "published"} \subseteq NamesOf(B)
    <2>1. ASSUME NEW s \in 1..2, NEW n \in DOMAIN B.asks[s]
          PROVE  n \in NamesOf(B) /\ \A x : Counts(B, n, x) <=> x \in B.asks[s][n]
      BY <1>1, <1>2, CountsAre
    <2> HIDE DEF rows, kept, made
    <2> QED
      BY <1>1, <2>1
  <1>4. ASSUME NEW m \in B.means
        PROVE  Fits(B, m)
    <2>1. CASE m = Belongs("generated", {"published"})
      BY <1>2, <1>3, <2>1, PartFits
    <2> QED
      BY <1>1, <2>1
  <1> QED
    BY <1>2, <1>4 DEF Consistent, Once, B

(* Its workload. *)
LEMMA ExecutiveWorkloadFit == Consistent(ExecutiveWorkload)
  <1> DEFINE B == ExecutiveWorkload
             rows == [status : {"open", "closed"}, owner : {"o1", "o2"}]
             active(S) == {r \in rows : r.status = "open" /\ r.owner \in S}
  <1>1. /\ Len(B.asks) = 2
        /\ B.asks[1] = [active |-> active({"o1", "o2"})]
        /\ B.asks[2] = [o \in {"o1", "o2"} |-> active({o})]
        /\ B.means = {AddUp("active", {"o1", "o2"})}
    BY DEF ExecutiveWorkload
  <1> HIDE DEF B
  <1>2. Once(B)
    BY <1>1 DEF Once
  <1>3. /\ \A x : Counts(B, "active", x) <=> x \in active({"o1", "o2"})
        /\ \A x : Counts(B, "o1", x) <=> x \in active({"o1"})
        /\ \A x : Counts(B, "o2", x) <=> x \in active({"o2"})
        /\ {"active", "o1", "o2"} \subseteq NamesOf(B)
    <2>1. ASSUME NEW s \in 1..2, NEW n \in DOMAIN B.asks[s]
          PROVE  n \in NamesOf(B) /\ \A x : Counts(B, n, x) <=> x \in B.asks[s][n]
      BY <1>1, <1>2, CountsAre
    <2> HIDE DEF rows, active
    <2> QED
      BY <1>1, <2>1
  <1>4. ASSUME NEW m \in B.means
        PROVE  Fits(B, m)
    <2>1. CASE m = AddUp("active", {"o1", "o2"})
      <3> DEFINE P == {"o1", "o2"}
      <3>1. Apart(B, P) /\ \A n \in P : \A y : Counts(B, n, y) => Counts(B, "active", y)
        BY <1>3 DEF Apart
      <3>2. \A y : Counts(B, "active", y) => \E n \in P : Counts(B, n, y)
        BY <1>3
      <3> QED
        BY <1>2, <1>3, <2>1, <3>1, <3>2, FewFinite, PartsFit
    <2> QED
      BY <1>1, <2>1
  <1> QED
    BY <1>2, <1>4 DEF Consistent, Once, B

(* Entities, by kind, value and confidence. *)
LEMMA IntelligenceEntitiesFit == Consistent(IntelligenceEntities)
  <1> DEFINE B == IntelligenceEntities
             kinds == {"person", "device", "other"}
  <1>1. /\ Len(B.asks) = 6
        /\ B.asks[1] = [k \in kinds |-> {r \in Entities : r.kind = k}]
        /\ B.asks[2] = [v1 |-> TopOf("person", "v1"), v2 |-> TopOf("person", "v2")]
        /\ B.asks[3] = [low |-> Bucket(0, 5)]
        /\ B.asks[4] = [fair |-> Bucket(5, 7)]
        /\ B.asks[5] = [good |-> Bucket(7, 9)]
        /\ B.asks[6] = [sure |-> Bucket(9, 11)]
        /\ B.means = {AddUp("person", {"v1", "v2"}),
                       Same(kinds, {"low", "fair", "good", "sure"})}
    BY DEF IntelligenceEntities
  <1> HIDE DEF B
  <1>2. Once(B)
    BY <1>1 DEF Once
  <1>3. /\ \A k \in kinds : \A x : Counts(B, k, x) <=> x \in {r \in Entities : r.kind = k}
        /\ \A x : Counts(B, "v1", x) <=> x \in TopOf("person", "v1")
        /\ \A x : Counts(B, "v2", x) <=> x \in TopOf("person", "v2")
        /\ \A x : Counts(B, "low", x) <=> x \in Bucket(0, 5)
        /\ \A x : Counts(B, "fair", x) <=> x \in Bucket(5, 7)
        /\ \A x : Counts(B, "good", x) <=> x \in Bucket(7, 9)
        /\ \A x : Counts(B, "sure", x) <=> x \in Bucket(9, 11)
        /\ {"v1", "v2", "low", "fair", "good", "sure"} \subseteq NamesOf(B)
        /\ kinds \subseteq NamesOf(B)
    <2>1. ASSUME NEW s \in 1..6, NEW n \in DOMAIN B.asks[s]
          PROVE  n \in NamesOf(B) /\ \A x : Counts(B, n, x) <=> x \in B.asks[s][n]
      BY <1>1, <1>2, CountsAre
    <2> HIDE DEF kinds
    <2> QED
      BY <1>1, <2>1
  <1>4. ASSUME NEW m \in B.means
        PROVE  Fits(B, m)
    <2>1. CASE m = AddUp("person", {"v1", "v2"})
      <3> DEFINE P == {"v1", "v2"}
      <3>1. Apart(B, P) /\ \A n \in P : \A y : Counts(B, n, y) => Counts(B, "person", y)
        BY <1>3 DEF Apart, TopOf, Entities
      <3>2. \A y : Counts(B, "person", y) => \E n \in P : Counts(B, n, y)
        BY <1>3 DEF TopOf, Entities
      <3> QED
        BY <1>2, <1>3, <2>1, <3>1, <3>2, FewFinite, PartsFit
    <2>2. CASE m = Same(kinds, {"low", "fair", "good", "sure"})
      <3> DEFINE P == {"low", "fair", "good", "sure"}
      <3>1. Apart(B, P)
        BY <1>3 DEF Apart, Bucket, Entities
      <3>2. Apart(B, kinds)
        BY <1>3 DEF Apart
      <3>3. Covered(B, P, kinds)
        BY <1>3 DEF Covered, Bucket, Entities
      <3>4. Covered(B, kinds, P)
        BY <1>3 DEF Covered, Bucket, Entities
      <3>5. IsFiniteSet(P) /\ IsFiniteSet(kinds)
        BY FewFinite
      <3>6. P \subseteq NamesOf(B) /\ 1 \in 1..Len(B.asks) /\ kinds \subseteq DOMAIN B.asks[1]
        BY <1>1, <1>3
      <3> HIDE DEF P, kinds
      <3>7. m.parts = P /\ m.whole = kinds
        BY <2>2 DEF Same, P
      <3> QED
        BY <3>1, <3>2, <3>3, <3>4, <3>5, <3>6, <3>7 DEF Fits
    <2> QED
      BY <1>1, <2>1, <2>2
  <1> QED
    BY <1>2, <1>4 DEF Consistent, Once, B

(* The evidence of the operations board. *)
LEMMA OperationsEvidenceFit == Consistent(OperationsEvidence)
  <1> DEFINE B == OperationsEvidence
             statuses == {"waiting", "completed", "failed"}
             rows == [status : statuses, age : Ages]
             lately == {r \in rows : r.status = "failed" /\ r.age = 0}
  <1>1. /\ Len(B.asks) = 3
        /\ B.asks[1] = [s \in statuses |-> {r \in rows : r.status = s}]
        /\ B.asks[2] = [lately |-> lately]
        /\ B.asks[3] = [files |-> rows]
        /\ B.means = {AddUp("files", statuses), Belongs("failed", {"lately"})}
    BY DEF OperationsEvidence
  <1> HIDE DEF B
  <1>2. Once(B)
    BY <1>1 DEF Once
  <1>3. /\ \A s \in statuses : \A x : Counts(B, s, x) <=> x \in {r \in rows : r.status = s}
        /\ \A x : Counts(B, "lately", x) <=> x \in lately
        /\ \A x : Counts(B, "files", x) <=> x \in rows
        /\ {"lately", "files"} \subseteq NamesOf(B)
        /\ statuses \subseteq NamesOf(B)
    <2>1. ASSUME NEW s \in 1..3, NEW n \in DOMAIN B.asks[s]
          PROVE  n \in NamesOf(B) /\ \A x : Counts(B, n, x) <=> x \in B.asks[s][n]
      BY <1>1, <1>2, CountsAre
    <2> HIDE DEF statuses, rows, lately
    <2> QED
      BY <1>1, <2>1
  <1>4. ASSUME NEW m \in B.means
        PROVE  Fits(B, m)
    <2>1. CASE m = AddUp("files", statuses)
      <3> DEFINE P == statuses
      <3>1. Apart(B, P) /\ \A n \in P : \A y : Counts(B, n, y) => Counts(B, "files", y)
        BY <1>3 DEF Apart
      <3>2. \A y : Counts(B, "files", y) => \E n \in P : Counts(B, n, y)
        BY <1>3
      <3> QED
        BY <1>2, <1>3, <2>1, <3>1, <3>2, FewFinite, PartsFit
    <2>2. CASE m = Belongs("failed", {"lately"})
      BY <1>2, <1>3, <2>2, PartFits
    <2> QED
      BY <1>1, <2>1, <2>2
  <1> QED
    BY <1>2, <1>4 DEF Consistent, Once, B

(* The cases of an investigator. *)
LEMMA InvestigatorCasesFit == Consistent(InvestigatorCases)
  <1> DEFINE B == InvestigatorCases
             rows == [status : CaseStatuses, mine : BOOLEAN]
             active == {r \in rows : r.mine /\ r.status \in ActiveStatuses}
  <1>1. /\ Len(B.asks) = 2
        /\ B.asks[1] = [listed |-> active]
        /\ B.asks[2] = [active |-> active]
        /\ B.means = {AddUp("active", {"listed"})}
    BY DEF InvestigatorCases
  <1> HIDE DEF B
  <1>2. Once(B)
    BY <1>1 DEF Once
  <1>3. /\ \A x : Counts(B, "listed", x) <=> x \in active
        /\ \A x : Counts(B, "active", x) <=> x \in active
        /\ {"listed", "active"} \subseteq NamesOf(B)
    <2>1. ASSUME NEW s \in 1..2, NEW n \in DOMAIN B.asks[s]
          PROVE  n \in NamesOf(B) /\ \A x : Counts(B, n, x) <=> x \in B.asks[s][n]
      BY <1>1, <1>2, CountsAre
    <2> HIDE DEF rows, active
    <2> QED
      BY <1>1, <2>1
  <1>4. ASSUME NEW m \in B.means
        PROVE  Fits(B, m)
    <2>1. CASE m = AddUp("active", {"listed"})
      BY <1>2, <1>3, <2>1, PartFits
    <2> QED
      BY <1>1, <2>1
  <1> QED
    BY <1>2, <1>4 DEF Consistent, Once, B

(* Tasks. *)
LEMMA InvestigatorTasksFit == Consistent(InvestigatorTasks)
  <1> DEFINE B == InvestigatorTasks
             rows == [status : {"pending", "in_progress", "completed", "cancelled"},
                      mine : BOOLEAN, in_my_case : BOOLEAN]
             open == {r \in rows : r.mine /\ r.status \in {"pending", "in_progress"}}
             own == {r \in open : r.in_my_case}
  <1>1. /\ Len(B.asks) = 2
        /\ B.asks[1] = [with_case |-> own]
        /\ B.asks[2] = [listed |-> open]
        /\ B.means = {Belongs("listed", {"with_case"})}
    BY DEF InvestigatorTasks
  <1> HIDE DEF B
  <1>2. Once(B)
    BY <1>1 DEF Once
  <1>3. /\ \A x : Counts(B, "with_case", x) <=> x \in own
        /\ \A x : Counts(B, "listed", x) <=> x \in open
        /\ {"with_case", "listed"} \subseteq NamesOf(B)
    <2>1. ASSUME NEW s \in 1..2, NEW n \in DOMAIN B.asks[s]
          PROVE  n \in NamesOf(B) /\ \A x : Counts(B, n, x) <=> x \in B.asks[s][n]
      BY <1>1, <1>2, CountsAre
    <2> HIDE DEF rows, open, own
    <2> QED
      BY <1>1, <2>1
  <1>4. ASSUME NEW m \in B.means
        PROVE  Fits(B, m)
    <2>1. CASE m = Belongs("listed", {"with_case"})
      BY <1>2, <1>3, <2>1, PartFits
    <2> QED
      BY <1>1, <2>1
  <1> QED
    BY <1>2, <1>4 DEF Consistent, Once, B

(* Recent evidence. *)
LEMMA InvestigatorEvidenceFit == Consistent(InvestigatorEvidence)
  <1> DEFINE B == InvestigatorEvidence
             rows == [in_my_case : BOOLEAN, age : Ages]
             mine(n) == {r \in rows : r.in_my_case /\ r.age <= n}
  <1>1. /\ Len(B.asks) = 2
        /\ B.asks[1] = [recent |-> mine(3)]
        /\ B.asks[2] = [month |-> mine(2)]
        /\ B.means = {Belongs("recent", {"month"})}
    BY DEF InvestigatorEvidence
  <1> HIDE DEF B
  <1>2. Once(B)
    BY <1>1 DEF Once
  <1>3. /\ \A x : Counts(B, "recent", x) <=> x \in mine(3)
        /\ \A x : Counts(B, "month", x) <=> x \in mine(2)
        /\ {"recent", "month"} \subseteq NamesOf(B)
    <2>1. ASSUME NEW s \in 1..2, NEW n \in DOMAIN B.asks[s]
          PROVE  n \in NamesOf(B) /\ \A x : Counts(B, n, x) <=> x \in B.asks[s][n]
      BY <1>1, <1>2, CountsAre
    <2> HIDE DEF rows, mine
    <2> QED
      BY <1>1, <2>1
  <1>4. ASSUME NEW m \in B.means
        PROVE  Fits(B, m)
    <2>1. CASE m = Belongs("recent", {"month"})
      BY <1>2, <1>3, <2>1, PartFits DEF Ages
    <2> QED
      BY <1>1, <2>1
  <1> QED
    BY <1>2, <1>4 DEF Consistent, Once, B

(* The accounts of the overview. *)
LEMMA OverviewUsersFit == Consistent(OverviewUsers)
  <1> DEFINE B == OverviewUsers
             total == Kept(LAMBDA r : TRUE)
             active == Kept(LAMBDA r : r.active)
             locked == Kept(LAMBDA r : r.locked)
  <1>1. /\ Len(B.asks) = 3
        /\ B.asks[1] = [total |-> total]
        /\ B.asks[2] = [active |-> active]
        /\ B.asks[3] = [locked |-> locked]
        /\ B.means = {Belongs("total", {"active"}), Belongs("total", {"locked"})}
    BY DEF OverviewUsers
  <1> HIDE DEF B
  <1>2. Once(B)
    BY <1>1 DEF Once
  <1>3. /\ \A x : Counts(B, "total", x) <=> x \in total
        /\ \A x : Counts(B, "active", x) <=> x \in active
        /\ \A x : Counts(B, "locked", x) <=> x \in locked
        /\ {"total", "active", "locked"} \subseteq NamesOf(B)
    <2>1. ASSUME NEW s \in 1..3, NEW n \in DOMAIN B.asks[s]
          PROVE  n \in NamesOf(B) /\ \A x : Counts(B, n, x) <=> x \in B.asks[s][n]
      BY <1>1, <1>2, CountsAre
    <2> HIDE DEF total, active, locked
    <2> QED
      BY <1>1, <2>1
  <1>4. ASSUME NEW m \in B.means
        PROVE  Fits(B, m)
    <2>1. CASE m = Belongs("total", {"active"})
      BY <1>2, <1>3, <2>1, PartFits DEF Kept
    <2>2. CASE m = Belongs("total", {"locked"})
      BY <1>2, <1>3, <2>2, PartFits DEF Kept
    <2> QED
      BY <1>1, <2>1, <2>2
  <1> QED
    BY <1>2, <1>4 DEF Consistent, Once, B

(* The accounts of the security page. *)
LEMMA SecurityUsersFit == Consistent(SecurityUsers)
  <1> DEFINE B == SecurityUsers
             locked == Kept(LAMBDA r : r.locked)
             inactive == Kept(LAMBDA r : ~r.active)
  <1>1. /\ Len(B.asks) = 3
        /\ B.asks[1] = [listed |-> locked]
        /\ B.asks[2] = [locked |-> locked]
        /\ B.asks[3] = [inactive |-> inactive]
        /\ B.means = {AddUp("locked", {"listed"})}
    BY DEF SecurityUsers
  <1> HIDE DEF B
  <1>2. Once(B)
    BY <1>1 DEF Once
  <1>3. /\ \A x : Counts(B, "listed", x) <=> x \in locked
        /\ \A x : Counts(B, "locked", x) <=> x \in locked
        /\ \A x : Counts(B, "inactive", x) <=> x \in inactive
        /\ {"listed", "locked", "inactive"} \subseteq NamesOf(B)
    <2>1. ASSUME NEW s \in 1..3, NEW n \in DOMAIN B.asks[s]
          PROVE  n \in NamesOf(B) /\ \A x : Counts(B, n, x) <=> x \in B.asks[s][n]
      BY <1>1, <1>2, CountsAre
    <2> HIDE DEF locked, inactive
    <2> QED
      BY <1>1, <2>1
  <1>4. ASSUME NEW m \in B.means
        PROVE  Fits(B, m)
    <2>1. CASE m = AddUp("locked", {"listed"})
      BY <1>2, <1>3, <2>1, PartFits
    <2> QED
      BY <1>1, <2>1
  <1> QED
    BY <1>2, <1>4 DEF Consistent, Once, B

(* Failed logins. *)
LEMMA SecurityLoginsFit == Consistent(SecurityLogins)
  <1> DEFINE B == SecurityLogins
             rows == [failed : BOOLEAN, age : 0..1, user : {"u1", "u2", "nobody"},
                      ip : {"ip1", "unknown"}]
             failed == {r \in rows : r.failed /\ r.age = 0}
             ip1 == {r \in failed : r.ip = "ip1"}
  <1>1. /\ Len(B.asks) = 3
        /\ B.asks[1] = [failed |-> failed]
        /\ B.asks[2] = [u \in {"u1", "u2"} |-> {r \in failed : r.user = u}]
        /\ B.asks[3] = [ip1 |-> ip1]
        /\ B.means = {Belongs("failed", {"u1", "u2"}), Belongs("failed", {"ip1"})}
    BY DEF SecurityLogins
  <1> HIDE DEF B
  <1>2. Once(B)
    BY <1>1 DEF Once
  <1>3. /\ \A x : Counts(B, "failed", x) <=> x \in failed
        /\ \A u \in {"u1", "u2"} : \A x : Counts(B, u, x) <=> x \in {r \in failed : r.user = u}
        /\ \A x : Counts(B, "ip1", x) <=> x \in ip1
        /\ {"failed", "u1", "u2", "ip1"} \subseteq NamesOf(B)
    <2>1. ASSUME NEW s \in 1..3, NEW n \in DOMAIN B.asks[s]
          PROVE  n \in NamesOf(B) /\ \A x : Counts(B, n, x) <=> x \in B.asks[s][n]
      BY <1>1, <1>2, CountsAre
    <2> HIDE DEF rows, failed, ip1
    <2> QED
      BY <1>1, <2>1
  <1>4. ASSUME NEW m \in B.means
        PROVE  Fits(B, m)
    <2>1. CASE m = Belongs("failed", {"u1", "u2"})
      <3> DEFINE P == {"u1", "u2"}
      <3>1. Apart(B, P) /\ \A n \in P : \A y : Counts(B, n, y) => Counts(B, "failed", y)
        BY <1>3 DEF Apart
      <3> QED
        BY <1>2, <1>3, <2>1, <3>1, FewFinite, PartsFit
    <2>2. CASE m = Belongs("failed", {"ip1"})
      BY <1>2, <1>3, <2>2, PartFits
    <2> QED
      BY <1>1, <2>1, <2>2
  <1> QED
    BY <1>2, <1>4 DEF Consistent, Once, B

(* The audit log's figures. *)
LEMMA AuditFiguresFit == Consistent(AuditFigures)
  <1> DEFINE B == AuditFigures
             types == {"login", "logout"}
             rows == [type : types, age : Ages]
             today == {r \in rows : r.age = 0}
             week == {r \in rows : r.age <= 1}
  <1>1. /\ Len(B.asks) = 4
        /\ B.asks[1] = [total |-> rows]
        /\ B.asks[2] = [today |-> today]
        /\ B.asks[3] = [week |-> week]
        /\ B.asks[4] = [t \in types |-> {r \in rows : r.type = t}]
        /\ B.means = Shrink(<<"total", "week", "today">>) \cup {AddUp("total", types)}
    BY DEF AuditFigures
  <1>s. Shrink(<<"total", "week", "today">>) =
          {Belongs("total", {"week"}), Belongs("week", {"today"})}
    BY ShrinkIs
  <1> HIDE DEF B
  <1>2. Once(B)
    BY <1>1 DEF Once
  <1>3. /\ \A x : Counts(B, "total", x) <=> x \in rows
        /\ \A x : Counts(B, "today", x) <=> x \in today
        /\ \A x : Counts(B, "week", x) <=> x \in week
        /\ \A t \in types : \A x : Counts(B, t, x) <=> x \in {r \in rows : r.type = t}
        /\ {"total", "today", "week"} \subseteq NamesOf(B)
        /\ types \subseteq NamesOf(B)
    <2>1. ASSUME NEW s \in 1..4, NEW n \in DOMAIN B.asks[s]
          PROVE  n \in NamesOf(B) /\ \A x : Counts(B, n, x) <=> x \in B.asks[s][n]
      BY <1>1, <1>2, CountsAre
    <2> HIDE DEF types, rows, today, week
    <2> QED
      BY <1>1, <2>1
  <1>4. ASSUME NEW m \in B.means
        PROVE  Fits(B, m)
    <2>1. CASE m = Belongs("total", {"week"})
      BY <1>2, <1>3, <2>1, PartFits
    <2>2. CASE m = Belongs("week", {"today"})
      BY <1>2, <1>3, <2>2, PartFits
    <2>3. CASE m = AddUp("total", types)
      <3> DEFINE P == types
      <3>1. Apart(B, P) /\ \A n \in P : \A y : Counts(B, n, y) => Counts(B, "total", y)
        BY <1>3 DEF Apart
      <3>2. \A y : Counts(B, "total", y) => \E n \in P : Counts(B, n, y)
        BY <1>3
      <3> QED
        BY <1>2, <1>3, <2>3, <3>1, <3>2, FewFinite, PartsFit
    <2> QED
      BY <1>1, <1>s, <2>1, <2>2, <2>3
  <1> QED
    BY <1>2, <1>4 DEF Consistent, Once, B

(* Replies of the assistant. *)
LEMMA AiUsageFit == Consistent(AiUsage)
  <1> DEFINE B == AiUsage
             rows == [role : {"user", "assistant"}, model : {"m1", "none"}, age : Ages]
             replies(n) == {r \in rows : r.role = "assistant" /\ r.age <= n}
             m1 == {r \in replies(3) : r.model = "m1"}
  <1>1. /\ Len(B.asks) = 5
        /\ B.asks[1] = [total |-> replies(3)]
        /\ B.asks[2] = [today |-> replies(0)]
        /\ B.asks[3] = [week |-> replies(1)]
        /\ B.asks[4] = [month |-> replies(2)]
        /\ B.asks[5] = [m1 |-> m1]
        /\ B.means = Shrink(<<"total", "month", "week", "today">>) \cup {Belongs("total", {"m1"})}
    BY DEF AiUsage
  <1>s. Shrink(<<"total", "month", "week", "today">>) =
          {Belongs("total", {"month"}), Belongs("month", {"week"}), Belongs("week", {"today"})}
    BY ShrinkIs
  <1> HIDE DEF B
  <1>2. Once(B)
    BY <1>1 DEF Once
  <1>3. /\ \A x : Counts(B, "total", x) <=> x \in replies(3)
        /\ \A x : Counts(B, "today", x) <=> x \in replies(0)
        /\ \A x : Counts(B, "week", x) <=> x \in replies(1)
        /\ \A x : Counts(B, "month", x) <=> x \in replies(2)
        /\ \A x : Counts(B, "m1", x) <=> x \in m1
        /\ {"total", "today", "week", "month", "m1"} \subseteq NamesOf(B)
    <2>1. ASSUME NEW s \in 1..5, NEW n \in DOMAIN B.asks[s]
          PROVE  n \in NamesOf(B) /\ \A x : Counts(B, n, x) <=> x \in B.asks[s][n]
      BY <1>1, <1>2, CountsAre
    <2> HIDE DEF rows, replies, m1
    <2> QED
      BY <1>1, <2>1
  <1>4. ASSUME NEW m \in B.means
        PROVE  Fits(B, m)
    <2>1. CASE m = Belongs("total", {"month"})
      BY <1>2, <1>3, <2>1, PartFits DEF Ages
    <2>2. CASE m = Belongs("month", {"week"})
      BY <1>2, <1>3, <2>2, PartFits DEF Ages
    <2>3. CASE m = Belongs("week", {"today"})
      BY <1>2, <1>3, <2>3, PartFits DEF Ages
    <2>4. CASE m = Belongs("total", {"m1"})
      BY <1>2, <1>3, <2>4, PartFits
    <2> QED
      BY <1>1, <1>s, <2>1, <2>2, <2>3, <2>4
  <1> QED
    BY <1>2, <1>4 DEF Consistent, Once, B

(* What is stored. *)
LEMMA StorageFiguresFit == Consistent(StorageFigures)
  <1> DEFINE B == StorageFigures
             mimes == {"pdf", "image"}
             rows == [mime : mimes, age : Ages, removed : BOOLEAN]
             kept(n) == {r \in rows : ~r.removed /\ r.age <= n}
  <1>1. /\ Len(B.asks) = 5
        /\ B.asks[1] = [total |-> kept(3)]
        /\ B.asks[2] = [week |-> kept(1)]
        /\ B.asks[3] = [month |-> kept(2)]
        /\ B.asks[4] = [m \in mimes |-> {r \in kept(3) : r.mime = m}]
        /\ B.asks[5] = [largest |-> kept(3)]
        /\ B.means = Shrink(<<"total", "month", "week">>) \cup {AddUp("total", mimes),
                       AddUp("total", {"largest"})}
    BY DEF StorageFigures
  <1>s. Shrink(<<"total", "month", "week">>) =
          {Belongs("total", {"month"}), Belongs("month", {"week"})}
    BY ShrinkIs
  <1> HIDE DEF B
  <1>2. Once(B)
    BY <1>1 DEF Once
  <1>3. /\ \A x : Counts(B, "total", x) <=> x \in kept(3)
        /\ \A x : Counts(B, "week", x) <=> x \in kept(1)
        /\ \A x : Counts(B, "month", x) <=> x \in kept(2)
        /\ \A mime \in mimes : \A x : Counts(B, mime, x) <=> x \in {r \in kept(3) : r.mime = mime}
        /\ \A x : Counts(B, "largest", x) <=> x \in kept(3)
        /\ {"total", "week", "month", "largest"} \subseteq NamesOf(B)
        /\ mimes \subseteq NamesOf(B)
    <2>1. ASSUME NEW s \in 1..5, NEW n \in DOMAIN B.asks[s]
          PROVE  n \in NamesOf(B) /\ \A x : Counts(B, n, x) <=> x \in B.asks[s][n]
      BY <1>1, <1>2, CountsAre
    <2> HIDE DEF mimes, rows, kept
    <2> QED
      BY <1>1, <2>1
  <1>4. ASSUME NEW m \in B.means
        PROVE  Fits(B, m)
    <2>1. CASE m = Belongs("total", {"month"})
      BY <1>2, <1>3, <2>1, PartFits DEF Ages
    <2>2. CASE m = Belongs("month", {"week"})
      BY <1>2, <1>3, <2>2, PartFits DEF Ages
    <2>3. CASE m = AddUp("total", mimes)
      <3> DEFINE P == mimes
      <3>1. Apart(B, P) /\ \A n \in P : \A y : Counts(B, n, y) => Counts(B, "total", y)
        BY <1>3 DEF Apart
      <3>2. \A y : Counts(B, "total", y) => \E n \in P : Counts(B, n, y)
        BY <1>3
      <3> QED
        BY <1>2, <1>3, <2>3, <3>1, <3>2, FewFinite, PartsFit
    <2>4. CASE m = AddUp("total", {"largest"})
      BY <1>2, <1>3, <2>4, PartFits
    <2> QED
      BY <1>1, <1>s, <2>1, <2>2, <2>3, <2>4
  <1> QED
    BY <1>2, <1>4 DEF Consistent, Once, B

(* Alerts. *)
LEMMA AlertFiguresFit == Consistent(AlertFigures)
  <1> DEFINE B == AlertFigures
             statuses == {"new", "acknowledged", "resolved", "dismissed"}
             rows == [status : statuses, severity : {"critical", "high", "low"}, age : 0..2]
             of(s) == {r \in rows : r.status = s}
             worth(s) == {r \in rows : r.severity = s}
             today == {r \in rows : r.age = 0}
             week == {r \in rows : r.age <= 1}
  <1>1. /\ Len(B.asks) = 9
        /\ B.asks[1] = [total |-> rows]
        /\ B.asks[2] = [n \in {"new"} |-> of(n)]
        /\ B.asks[3] = [n \in {"acknowledged"} |-> of(n)]
        /\ B.asks[4] = [n \in {"resolved"} |-> of(n)]
        /\ B.asks[5] = [n \in {"dismissed"} |-> of(n)]
        /\ B.asks[6] = [critical |-> worth("critical")]
        /\ B.asks[7] = [high |-> worth("high")]
        /\ B.asks[8] = [today |-> today]
        /\ B.asks[9] = [week |-> week]
        /\ B.means = Shrink(<<"total", "week", "today">>) \cup {AddUp("total", statuses),
                       Belongs("total", {"critical", "high"})}
    BY DEF AlertFigures
  <1>s. Shrink(<<"total", "week", "today">>) =
          {Belongs("total", {"week"}), Belongs("week", {"today"})}
    BY ShrinkIs
  <1> HIDE DEF B
  <1>2. Once(B)
    BY <1>1 DEF Once
  <1>3. /\ \A x : Counts(B, "total", x) <=> x \in rows
        /\ \A x : Counts(B, "new", x) <=> x \in of("new")
        /\ \A x : Counts(B, "acknowledged", x) <=> x \in of("acknowledged")
        /\ \A x : Counts(B, "resolved", x) <=> x \in of("resolved")
        /\ \A x : Counts(B, "dismissed", x) <=> x \in of("dismissed")
        /\ \A x : Counts(B, "critical", x) <=> x \in worth("critical")
        /\ \A x : Counts(B, "high", x) <=> x \in worth("high")
        /\ \A x : Counts(B, "today", x) <=> x \in today
        /\ \A x : Counts(B, "week", x) <=> x \in week
        /\ {"total", "new", "acknowledged", "resolved", "dismissed", "critical", "high",
            "today", "week"} \subseteq NamesOf(B)
    <2>1. ASSUME NEW s \in 1..9, NEW n \in DOMAIN B.asks[s]
          PROVE  n \in NamesOf(B) /\ \A x : Counts(B, n, x) <=> x \in B.asks[s][n]
      BY <1>1, <1>2, CountsAre
    <2> HIDE DEF statuses, rows, of, worth, today, week
    <2> QED
      BY <1>1, <2>1
  <1>4. ASSUME NEW m \in B.means
        PROVE  Fits(B, m)
    <2>1. CASE m = AddUp("total", statuses)
      <3> DEFINE P == statuses
      <3>1. Apart(B, P) /\ \A n \in P : \A y : Counts(B, n, y) => Counts(B, "total", y)
        BY <1>3 DEF Apart
      <3>2. \A y : Counts(B, "total", y) => \E n \in P : Counts(B, n, y)
        BY <1>3
      <3> QED
        BY <1>2, <1>3, <2>1, <3>1, <3>2, FewFinite, PartsFit
    <2>2. CASE m = Belongs("total", {"critical", "high"})
      <3> DEFINE P == {"critical", "high"}
      <3>1. Apart(B, P) /\ \A n \in P : \A y : Counts(B, n, y) => Counts(B, "total", y)
        BY <1>3 DEF Apart
      <3> QED
        BY <1>2, <1>3, <2>2, <3>1, FewFinite, PartsFit
    <2>3. CASE m = Belongs("total", {"week"})
      BY <1>2, <1>3, <2>3, PartFits
    <2>4. CASE m = Belongs("week", {"today"})
      BY <1>2, <1>3, <2>4, PartFits
    <2> QED
      BY <1>1, <1>s, <2>1, <2>2, <2>3, <2>4
  <1> QED
    BY <1>2, <1>4 DEF Consistent, Once, B

(* Watchlists. *)
LEMMA WatchlistFiguresFit == Consistent(WatchlistFigures)
  <1> DEFINE B == WatchlistFigures
             lists == [of : {"watchlist"}, active : BOOLEAN]
             alerts == [of : {"alert"}, list : {"w1", "none"}, age : 0..2]
             since(n) == {r \in alerts : r.age <= n}
             active == {r \in lists : r.active}
             w1 == {r \in alerts : r.list = "w1"}
  <1>1. /\ Len(B.asks) = 6
        /\ B.asks[1] = [lists |-> lists]
        /\ B.asks[2] = [active |-> active]
        /\ B.asks[3] = [alerts |-> alerts]
        /\ B.asks[4] = [today |-> since(0)]
        /\ B.asks[5] = [week |-> since(1)]
        /\ B.asks[6] = [w1 |-> w1]
        /\ B.means = Shrink(<<"alerts", "week", "today">>) \cup {Belongs("lists", {"active"}),
                       Belongs("alerts", {"w1"})}
    BY DEF WatchlistFigures
  <1>s. Shrink(<<"alerts", "week", "today">>) =
          {Belongs("alerts", {"week"}), Belongs("week", {"today"})}
    BY ShrinkIs
  <1> HIDE DEF B
  <1>2. Once(B)
    BY <1>1 DEF Once
  <1>3. /\ \A x : Counts(B, "lists", x) <=> x \in lists
        /\ \A x : Counts(B, "active", x) <=> x \in active
        /\ \A x : Counts(B, "alerts", x) <=> x \in alerts
        /\ \A x : Counts(B, "today", x) <=> x \in since(0)
        /\ \A x : Counts(B, "week", x) <=> x \in since(1)
        /\ \A x : Counts(B, "w1", x) <=> x \in w1
        /\ {"lists", "active", "alerts", "today", "week", "w1"} \subseteq NamesOf(B)
    <2>1. ASSUME NEW s \in 1..6, NEW n \in DOMAIN B.asks[s]
          PROVE  n \in NamesOf(B) /\ \A x : Counts(B, n, x) <=> x \in B.asks[s][n]
      BY <1>1, <1>2, CountsAre
    <2> HIDE DEF lists, alerts, since, active, w1
    <2> QED
      BY <1>1, <2>1
  <1>4. ASSUME NEW m \in B.means
        PROVE  Fits(B, m)
    <2>1. CASE m = Belongs("lists", {"active"})
      BY <1>2, <1>3, <2>1, PartFits
    <2>2. CASE m = Belongs("alerts", {"w1"})
      BY <1>2, <1>3, <2>2, PartFits
    <2>3. CASE m = Belongs("alerts", {"week"})
      BY <1>2, <1>3, <2>3, PartFits
    <2>4. CASE m = Belongs("week", {"today"})
      BY <1>2, <1>3, <2>4, PartFits
    <2> QED
      BY <1>1, <1>s, <2>1, <2>2, <2>3, <2>4
  <1> QED
    BY <1>2, <1>4 DEF Consistent, Once, B

(* The inbox. *)
LEMMA InboxFiguresFit == Consistent(InboxFigures)
  <1> DEFINE B == InboxFigures
             rows == [read : BOOLEAN, archived : BOOLEAN]
             shown == {r \in rows : ~r.archived}
             unread == {r \in shown : ~r.read}
  <1>1. /\ Len(B.asks) = 3
        /\ B.asks[1] = [total |-> shown]
        /\ B.asks[2] = [unread |-> unread]
        /\ B.asks[3] = [items |-> shown]
        /\ B.means = {Belongs("total", {"unread"}), AddUp("total", {"items"})}
    BY DEF InboxFigures
  <1> HIDE DEF B
  <1>2. Once(B)
    BY <1>1 DEF Once
  <1>3. /\ \A x : Counts(B, "total", x) <=> x \in shown
        /\ \A x : Counts(B, "unread", x) <=> x \in unread
        /\ \A x : Counts(B, "items", x) <=> x \in shown
        /\ {"total", "unread", "items"} \subseteq NamesOf(B)
    <2>1. ASSUME NEW s \in 1..3, NEW n \in DOMAIN B.asks[s]
          PROVE  n \in NamesOf(B) /\ \A x : Counts(B, n, x) <=> x \in B.asks[s][n]
      BY <1>1, <1>2, CountsAre
    <2> HIDE DEF rows, shown, unread
    <2> QED
      BY <1>1, <2>1
  <1>4. ASSUME NEW m \in B.means
        PROVE  Fits(B, m)
    <2>1. CASE m = Belongs("total", {"unread"})
      BY <1>2, <1>3, <2>1, PartFits
    <2>2. CASE m = AddUp("total", {"items"})
      BY <1>2, <1>3, <2>2, PartFits
    <2> QED
      BY <1>1, <2>1, <2>2
  <1> QED
    BY <1>2, <1>4 DEF Consistent, Once, B

(* On every board the figures mean what their statements count. *)
LEMMA BoardsConsistent == \A b \in DOMAIN Boards : Consistent(Boards[b])
  BY ExecutiveCasesFit, ExecutiveEvidenceFit, ExecutiveReportsFit, ExecutiveWorkloadFit,
     IntelligenceEntitiesFit, OperationsEvidenceFit, InvestigatorCasesFit,
     InvestigatorTasksFit, InvestigatorEvidenceFit, OverviewUsersFit, SecurityUsersFit,
     SecurityLoginsFit, AuditFiguresFit, AiUsageFit, StorageFiguresFit, AlertFiguresFit,
     WatchlistFiguresFit, InboxFiguresFit
  DEF Boards

(* What the rows Q add to the figures `open' that are still to be asked    *)
(* for; and what other rows and other figures give.                        *)
Added(counted, open, Q) == {p \in Pairs(counted, open) : p[2] \in Q}
Others(counted, names, open, Q) ==
    {p \in Pairs(counted, names) : p[2] \notin Q \/ p[1] \notin open}

LEMMA AddedAre ==
    ASSUME NEW names, NEW counted, NEW open \in SUBSET names, NEW Q, NEW p
    PROVE  /\ p \in Added(counted, open, Q) =>
                p = <<p[1], p[2]>> /\ p[1] \in open /\ p[2] \in Q /\ p[2] \in counted[p[1]]
           /\ p \in Pairs(counted, names) <=>
                p \in Added(counted, open, Q) \/ p \in Others(counted, names, open, Q)
           /\ ~(p \in Added(counted, open, Q) /\ p \in Others(counted, names, open, Q))
  BY DEF Added, Others, Pairs

(* Of the figures that count a row there is at most one still to be asked  *)
(* for: rows add at most one each to what others give. *)
LEMMA RowsAdd ==
    ASSUME NEW names, IsFiniteSet(names), NEW counted, NEW open \in SUBSET names,
           NEW Q \in SUBSET TableRows,
           \A q \in Q : \A n, k \in open : q \in counted[n] /\ q \in counted[k] => n = k
    PROVE  /\ Cardinality(Others(counted, names, open, Q)) \in Nat
           /\ Cardinality(Added(counted, open, Q)) \in 0..Cardinality(Q)
           /\ Cardinality(Pairs(counted, names)) =
                Cardinality(Others(counted, names, open, Q)) + Cardinality(Added(counted, open, Q))
  <1> DEFINE all == Pairs(counted, names)
             rest == Others(counted, names, open, Q)
             new == Added(counted, open, Q)
             row == [p \in new |-> p[2]]
  <1>1. all = rest \cup new /\ rest \cap new = {}
    BY AddedAre
  <1>2. \A p \in new : p = <<p[1], p[2]>> /\ p[1] \in open /\ p[2] \in Q /\ p[2] \in counted[p[1]]
    BY AddedAre
  <1>3. IsFiniteSet(all)
    BY PairsFinite
  <1> HIDE DEF all, rest, new
  <1>4. /\ IsFiniteSet(rest) /\ IsFiniteSet(new)
        /\ Cardinality(rest) \in Nat /\ Cardinality(new) \in Nat
    <2>1. rest \subseteq all /\ new \subseteq all
      BY <1>1
    <2> QED
      BY <1>3, <2>1, FS_Subset, FS_CardinalityType
  <1>5. Cardinality(all) = Cardinality(rest) + Cardinality(new)
    <2>1. Cardinality(rest \cup new) = Cardinality(rest) + Cardinality(new) - Cardinality(rest \cap new)
      BY <1>4, FS_Union
    <2>2. Cardinality(rest \cap new) = 0
      BY <1>1, FS_EmptySet
    <2> QED
      BY <1>1, <1>4, <2>1, <2>2
  <1>6. Cardinality(new) <= Cardinality(Q) /\ Cardinality(Q) \in Nat
    <2>1. IsFiniteSet(Q) /\ Cardinality(Q) \in Nat
      BY TallyAssumption, FS_Subset, FS_CardinalityType
    <2>2. \A p \in new : row[p] \in Q
      BY <1>2
    <2>3. row \in [new -> Q]
      BY <2>2
    <2>4. \A p, x \in new : row[p] = row[x] => p = x
      <3> TAKE p, x \in new
      <3> HAVE row[p] = row[x]
      <3>1. p[2] = x[2]
        OBVIOUS
      <3>2. p[1] = x[1]
        BY <1>2, <3>1
      <3> QED
        BY <1>2, <3>1, <3>2
    <2> HIDE DEF row
    <2>5. row \in Injection(new, Q)
      BY <2>3, <2>4, Fun_IsInj
    <2> QED
      BY <2>1, <2>5, FS_Injection
  <1> QED
    BY <1>4, <1>5, <1>6 DEF all, rest, new

(* A commit changes what figures still to be asked for would count by no   *)
(* more than its rows. *)
LEMMA RowsMove ==
    ASSUME NEW names, IsFiniteSet(names), NEW c, NEW d, NEW open \in SUBSET names,
           NEW Q \in SUBSET TableRows,
           \A n \in names \ open : c[n] = d[n],
           \A n \in names : \A r \in TableRows \ Q : r \in c[n] <=> r \in d[n],
           \A q \in Q : \A n, k \in open : q \in c[n] /\ q \in c[k] => n = k,
           \A q \in Q : \A n, k \in open : q \in d[n] /\ q \in d[k] => n = k
    PROVE  /\ Cardinality(Added(c, open, Q)) \in 0..Cardinality(Q)
           /\ Cardinality(Added(d, open, Q)) \in 0..Cardinality(Q)
           /\ \E others \in Nat :
                /\ Cardinality(Pairs(c, names)) = others + Cardinality(Added(c, open, Q))
                /\ Cardinality(Pairs(d, names)) = others + Cardinality(Added(d, open, Q))
  <1>1. Others(c, names, open, Q) = Others(d, names, open, Q)
    <2>1. \A p : p \in Others(c, names, open, Q) => p \in Others(d, names, open, Q)
      BY DEF Pairs, Others
    <2>2. \A p : p \in Others(d, names, open, Q) => p \in Others(c, names, open, Q)
      BY DEF Pairs, Others
    <2> QED
      BY <2>1, <2>2
  <1>2. /\ Cardinality(Others(c, names, open, Q)) \in Nat
        /\ Cardinality(Added(c, open, Q)) \in 0..Cardinality(Q)
        /\ Cardinality(Pairs(c, names)) =
             Cardinality(Others(c, names, open, Q)) + Cardinality(Added(c, open, Q))
    BY RowsAdd
  <1>3. /\ Cardinality(Added(d, open, Q)) \in 0..Cardinality(Q)
        /\ Cardinality(Pairs(d, names)) =
             Cardinality(Others(d, names, open, Q)) + Cardinality(Added(d, open, Q))
    BY RowsAdd
  <1> QED
    BY <1>1, <1>2, <1>3

(* Figures that count nothing twice and nothing but what others count,     *)
(* count no more than those. *)
LEMMA CountNoMore ==
    ASSUME NEW B, NEW these, NEW those, IsFiniteSet(these), IsFiniteSet(those), NEW counted,
           NEW Q \in SUBSET TableRows, NEW value,
           Apart(B, these), Covered(B, these, those),
           \A n \in these \cup those : \A r \in Q :
             r \in counted[n] <=> value[r] # Missing /\ Counts(B, n, value[r])
    PROVE  Cardinality(Added(counted, these, Q)) <= Cardinality(Added(counted, those, Q))
  <1> DEFINE S == Added(counted, these, Q)
             T == Added(counted, those, Q)
             g == [p \in S |-> <<CHOOSE k \in those : Counts(B, k, value[p[2]]), p[2]>>]
  <1>1. ASSUME NEW p \in S
        PROVE  /\ p = <<p[1], p[2]>> /\ p[1] \in these /\ p[2] \in Q
               /\ Counts(B, p[1], value[p[2]])
               /\ g[p] \in T /\ g[p][2] = p[2]
    <2>1. /\ p = <<p[1], p[2]>> /\ p[1] \in these /\ p[2] \in Q
          /\ p[2] \in counted[p[1]]
      BY AddedAre
    <2>2. value[p[2]] # Missing /\ Counts(B, p[1], value[p[2]])
      BY <2>1
    <2>3. PICK k \in those : k = CHOOSE l \in those : Counts(B, l, value[p[2]])
      BY <2>1, <2>2 DEF Covered
    <2>4. Counts(B, k, value[p[2]])
      BY <2>1, <2>2, <2>3 DEF Covered
    <2>5. g[p] = <<k, p[2]>>
      <3> HIDE DEF S
      <3> QED
        BY <2>3
    <2>6. p[2] \in counted[k]
      BY <2>1, <2>2, <2>3, <2>4
    <2>7. g[p] \in T
      BY <2>1, <2>3, <2>5, <2>6 DEF Added, Pairs
    <2> HIDE DEF g, S, T
    <2> QED
      BY <2>1, <2>2, <2>5, <2>7
  <1>2. ASSUME NEW p \in S, NEW q \in S, g[p] = g[q]
        PROVE  p = q
    <2> HIDE DEF g, S, T
    <2>1. p[2] = q[2]
      BY <1>1, <1>2
    <2>2. p[1] = q[1]
      BY <1>1, <2>1 DEF Apart
    <2> QED
      BY <1>1, <2>1, <2>2
  <1>3. g \in [S -> T]
    <2>1. g = [p \in S |-> g[p]]
      OBVIOUS
    <2> HIDE DEF g, S, T
    <2> QED
      BY <1>1, <2>1
  <1>4. g \in Injection(S, T)
    <2> HIDE DEF g, S, T
    <2> QED
      BY <1>2, <1>3, Fun_IsInj
  <1>5. IsFiniteSet(T)
    <2>1. IsFiniteSet(Pairs(counted, those))
      BY PairsFinite
    <2>2. T \subseteq Pairs(counted, those)
      BY DEF Added
    <2> QED
      BY <2>1, <2>2, FS_Subset
  <1> HIDE DEF g, S, T
  <1>6. Cardinality(S) <= Cardinality(T)
    BY <1>4, <1>5, FS_Injection
  <1> QED
    BY <1>6 DEF S, T

(* Before anything is asked for, the figures are the table's. *)
LEMMA TallyInitKeeps == TallyInit => TallyInv
  <1> SUFFICES ASSUME TallyInit
               PROVE  TallyInv
    OBVIOUS
  <1> DEFINE B == Boards[board]
             counted == [n \in NamesOf(B) |-> Current(n)]
             size(names) == Cardinality(Pairs(counted, names))
  <1>1. Consistent(B) /\ board \in DOMAIN Boards
    BY BoardsConsistent DEF TallyInit
  <1>2. AskedBefore(B, step) = {}
    BY DEF TallyInit, AskedBefore
  <1> HIDE DEF B
  <1>3. ASSUME NEW m \in B.means
        PROVE  /\ size(m.parts) <= size(m.whole) + changes
               /\ m.all => size(m.whole) <= size(m.parts) + changes
    <2>1. Fits(B, m)
      BY <1>1 DEF Consistent
    <2>2. IsFiniteSet(m.parts) /\ IsFiniteSet(m.whole) /\ m.parts \subseteq NamesOf(B)
      BY <2>1 DEF Fits
    <2>3. m.whole \subseteq NamesOf(B)
      <3>1. Len(B.asks) \in Nat
        BY <1>1 DEF Consistent
      <3> QED
        BY <2>1, <3>1 DEF Fits, NamesOf, AskedBefore
    <2>4. \A n \in m.parts \cup m.whole : \A r \in TableRows :
             r \in counted[n] <=> table[r] # Missing /\ Counts(B, n, table[r])
      BY <2>2, <2>3 DEF Current, B, Present
    <2>5. size(m.parts) \in Nat /\ size(m.whole) \in Nat /\ changes = 0
      BY <2>2, PairsFinite DEF TallyInit
    <2> HIDE DEF counted
    <2>6. \A names : Added(counted, names, TableRows) = Pairs(counted, names)
      BY DEF Added, Pairs
    <2>7. /\ Cardinality(Added(counted, m.parts, TableRows)) <= Cardinality(Added(counted, m.whole, TableRows))
          /\ m.all => Cardinality(Added(counted, m.whole, TableRows)) <= Cardinality(Added(counted, m.parts, TableRows))
      BY <2>1, <2>2, <2>4, CountNoMore DEF Fits
    <2> QED
      BY <2>5, <2>6, <2>7
  <1>4. counted \in [NamesOf(B) -> SUBSET TableRows] /\ \A n \in NamesOf(B) : counted[n] = Current(n)
    BY DEF Current, Present
  <1> HIDE DEF counted
  <1>5. Explains(counted)
    BY <1>2, <1>3, <1>4 DEF Explains, B
  <1>6. /\ DOMAIN table = TableRows /\ changes \in Nat /\ DOMAIN figures = {}
        /\ step = 1
    BY DEF TallyInit
  <1>7. step \in 1..Len(B.asks) + 1
    BY <1>1, <1>6 DEF Consistent
  <1> QED
    BY <1>1, <1>2, <1>4, <1>5, <1>6, <1>7 DEF TallyInv, B

(* The next statement gives the figures the table then has. *)
LEMMA StatementKeeps ==
    ASSUME TallyInv, AskNext
    PROVE  TallyInv'
  <1> DEFINE B == Boards[board]
             ask == B.asks[step]
  <1>1. Consistent(B)
    BY BoardsConsistent DEF TallyInv
  <1>2. PICK counted \in [NamesOf(B) -> SUBSET TableRows] : Explains(counted)
    BY DEF TallyInv
  <1>3. /\ step \in 1..Len(B.asks) /\ step' = step + 1
        /\ board' = board /\ table' = table /\ changes' = changes
    BY <1>1 DEF TallyInv, AskNext, Consistent
  <1>4. /\ DOMAIN figures' = DOMAIN ask \cup DOMAIN figures
        /\ \A n \in DOMAIN ask : figures'[n] = Cardinality({r \in Present : table[r] \in ask[n]})
        /\ \A n \in DOMAIN figures \ DOMAIN ask : figures'[n] = figures[n]
    BY DEF AskNext
  <1> HIDE DEF B
  <1>5. AskedBefore(B, step + 1) = AskedBefore(B, step) \cup DOMAIN ask
    <2>1. \A s : s \in 1..step + 1 - 1 <=> s \in 1..step - 1 \/ s = step
      BY <1>3
    <2> QED
      BY <2>1 DEF AskedBefore
  <1>6. AskedBefore(B, step) \cap DOMAIN ask = {}
    <2>1. \A s \in 1..step - 1 : s \in 1..Len(B.asks) /\ s # step
      BY <1>1, <1>3 DEF Consistent
    <2>2. \A s \in 1..step - 1 : DOMAIN B.asks[s] \cap DOMAIN ask = {}
      BY <1>1, <1>3, <2>1 DEF Consistent
    <2> QED
      BY <2>2 DEF AskedBefore
  <1>7. ASSUME NEW n \in DOMAIN ask
        PROVE  n \in NamesOf(B) /\ Current(n) = {r \in Present : table[r] \in ask[n]}
    <2>1. step \in 1..Len(B.asks) + 1 - 1
      BY <1>1, <1>3 DEF Consistent
    <2>2. n \in NamesOf(B)
      BY <2>1 DEF NamesOf, AskedBefore
    <2>3. \A s \in 1..Len(B.asks) : n \in DOMAIN B.asks[s] => s = step
      BY <1>1, <1>3 DEF Consistent
    <2>4. \A x : Counts(B, n, x) <=> x \in ask[n]
      BY <1>3, <2>3 DEF Counts
    <2> HIDE DEF ask
    <2> QED
      BY <2>2, <2>4 DEF Current, B
  <1> HIDE DEF ask
  <1>8. \A n \in AskedBefore(B, step) : figures'[n] = Cardinality(counted[n])
    BY <1>2, <1>4, <1>6 DEF Explains, TallyInv, B
  <1>9. \A n \in DOMAIN ask : figures'[n] = Cardinality(counted[n])
    <2> TAKE n \in DOMAIN ask
    <2>1. counted[n] = Current(n)
      BY <1>2, <1>6, <1>7 DEF Explains, B
    <2> QED
      BY <1>4, <1>7, <2>1
  <1>10. \A n : Current(n)' = Current(n)
    BY <1>3 DEF Current, Present
  <1>11. Explains(counted)'
    <2>1. \A n \in AskedBefore(B, step + 1) : figures'[n] = Cardinality(counted[n])
      BY <1>5, <1>8, <1>9
    <2>2. \A n \in NamesOf(B) \ AskedBefore(B, step + 1) : counted[n] = Current(n)'
      BY <1>2, <1>5, <1>10 DEF Explains, B
    <2> QED
      BY <1>2, <1>3, <2>1, <2>2 DEF Explains, B
  <1>12. /\ step + 1 \in 1..Len(B.asks) + 1
         /\ DOMAIN figures = AskedBefore(B, step)
         /\ changes \in Nat /\ DOMAIN table = TableRows /\ board \in DOMAIN Boards
    BY <1>1, <1>3 DEF TallyInv, Consistent, B
  <1> QED
    BY <1>2, <1>3, <1>4, <1>5, <1>11, <1>12 DEF TallyInv, B

(* What one meaning says survives a commit, being off by as many more as   *)
(* rows were changed. *)
LEMMA CommitMovesRows ==
    ASSUME NEW B, Consistent(B), NEW m \in B.means, NEW k \in 1..Len(B.asks) + 1, NEW c, NEW d,
           NEW Q \in SUBSET TableRows, NEW a, NEW b,
           \A n \in AskedBefore(B, k) : c[n] = d[n],
           \A n \in NamesOf(B) : \A r \in TableRows \ Q : r \in c[n] <=> r \in d[n],
           \A n \in NamesOf(B) \ AskedBefore(B, k) : \A q \in Q :
             /\ q \in c[n] <=> a[q] # Missing /\ Counts(B, n, a[q])
             /\ q \in d[n] <=> b[q] # Missing /\ Counts(B, n, b[q]),
           NEW off \in Nat,
           /\ Cardinality(Pairs(c, m.parts)) <= Cardinality(Pairs(c, m.whole)) + off
           /\ m.all => Cardinality(Pairs(c, m.whole)) <= Cardinality(Pairs(c, m.parts)) + off
    PROVE  /\ Cardinality(Pairs(d, m.parts)) <= Cardinality(Pairs(d, m.whole)) + off + Cardinality(Q)
           /\ m.all =>
                Cardinality(Pairs(d, m.whole)) <= Cardinality(Pairs(d, m.parts)) + off + Cardinality(Q)
  <1> DEFINE asked == AskedBefore(B, k)
             P == m.parts
             W == m.whole
             p == P \ asked
             w == W \ asked
             size(x, names) == Cardinality(Added(x, names, Q))
  <1>1. Fits(B, m) /\ Len(B.asks) \in Nat
    BY DEF Consistent
  <1>2. IsFiniteSet(P) /\ IsFiniteSet(W) /\ P \subseteq NamesOf(B) /\ Apart(B, P) /\ Apart(B, W)
    BY <1>1 DEF Fits
  <1>3. W \subseteq NamesOf(B) /\ (w = {} \/ w = W)
    <2>1. PICK s \in 1..Len(B.asks) : W \subseteq DOMAIN B.asks[s]
      BY <1>1 DEF Fits
    <2>2. W \subseteq NamesOf(B)
      BY <1>1, <2>1 DEF NamesOf, AskedBefore
    <2>3. CASE s \in 1..k - 1
      BY <2>1, <2>2, <2>3 DEF AskedBefore
    <2>4. CASE s \notin 1..k - 1
      <3>1. \A n \in W : n \notin asked
        <4> SUFFICES ASSUME NEW n \in W, NEW t \in 1..k - 1, n \in DOMAIN B.asks[t], t \in 1..Len(B.asks)
                     PROVE  FALSE
          BY <2>4 DEF AskedBefore
        <4>1. n \in DOMAIN B.asks[s] \cap DOMAIN B.asks[t] /\ s # t
          BY <2>1, <2>4
        <4> QED
          BY <2>1, <4>1 DEF Consistent
      <3> QED
        BY <2>2, <3>1
    <2> QED
      BY <2>3, <2>4
  <1>4. ASSUME NEW S, S \subseteq NamesOf(B), IsFiniteSet(S), Apart(B, S)
        PROVE  /\ size(c, S \ asked) \in 0..Cardinality(Q) /\ size(d, S \ asked) \in 0..Cardinality(Q)
               /\ \E others \in Nat :
                    /\ Cardinality(Pairs(c, S)) = others + size(c, S \ asked)
                    /\ Cardinality(Pairs(d, S)) = others + size(d, S \ asked)
    <2> DEFINE open == S \ asked
    <2>1. open \in SUBSET S /\ \A n \in open : n \in NamesOf(B) \ asked
      BY <1>4
    <2>2. \A n \in S \ open : c[n] = d[n]
      BY <1>4
    <2>3. \A n \in S : \A r \in TableRows \ Q : r \in c[n] <=> r \in d[n]
      BY <1>4
    <2>4. \A q \in Q : \A n, l \in open : q \in c[n] /\ q \in c[l] => n = l
      BY <1>4, <2>1 DEF Apart
    <2>5. \A q \in Q : \A n, l \in open : q \in d[n] /\ q \in d[l] => n = l
      BY <1>4, <2>1 DEF Apart
    <2> HIDE DEF open, asked
    <2>6. /\ Cardinality(Added(c, open, Q)) \in 0..Cardinality(Q)
          /\ Cardinality(Added(d, open, Q)) \in 0..Cardinality(Q)
          /\ \E others \in Nat :
               /\ Cardinality(Pairs(c, S)) = others + Cardinality(Added(c, open, Q))
               /\ Cardinality(Pairs(d, S)) = others + Cardinality(Added(d, open, Q))
      BY <1>4, <2>1, <2>2, <2>3, <2>4, <2>5, RowsMove, SMTT(30)
    <2> QED
      BY <2>6 DEF open
  <1>5. /\ size(c, p) \in 0..Cardinality(Q) /\ size(d, p) \in 0..Cardinality(Q)
        /\ size(c, w) \in 0..Cardinality(Q) /\ size(d, w) \in 0..Cardinality(Q)
    BY <1>2, <1>3, <1>4
  <1>6. w = {} => size(c, w) = 0 /\ size(d, w) = 0
    <2>1. Added(c, {}, Q) = {} /\ Added(d, {}, Q) = {}
      BY DEF Added, Pairs
    <2> QED
      BY <2>1, FS_EmptySet
  <1>7. w = W => size(c, p) <= size(c, w) /\ size(d, p) <= size(d, w)
    <2> SUFFICES ASSUME w = W
                 PROVE  size(c, p) <= size(c, w) /\ size(d, p) <= size(d, w)
      OBVIOUS
    <2>1. \A n \in p \cup w : n \in NamesOf(B) \ asked
      BY <1>2, <1>3
    <2>2. Covered(B, p, w)
      BY <1>1 DEF Fits, Covered
    <2>3. Apart(B, p)
      BY <1>2 DEF Apart
    <2>4. IsFiniteSet(p) /\ IsFiniteSet(w)
      BY <1>2, FS_Subset
    <2>5. \A n \in p \cup w : \A q \in Q : q \in c[n] <=> a[q] # Missing /\ Counts(B, n, a[q])
      BY <2>1
    <2>6. \A n \in p \cup w : \A q \in Q : q \in d[n] <=> b[q] # Missing /\ Counts(B, n, b[q])
      BY <2>1
    <2> HIDE DEF p, w
    <2>7. size(c, p) <= size(c, w)
      BY <2>2, <2>3, <2>4, <2>5, CountNoMore
    <2>8. size(d, p) <= size(d, w)
      BY <2>2, <2>3, <2>4, <2>6, CountNoMore
    <2> QED
      BY <2>7, <2>8
  <1>8. PICK op \in Nat : /\ Cardinality(Pairs(c, P)) = op + size(c, p)
                         /\ Cardinality(Pairs(d, P)) = op + size(d, p)
    BY <1>2, <1>4
  <1>9. PICK ow \in Nat : /\ Cardinality(Pairs(c, W)) = ow + size(c, w)
                         /\ Cardinality(Pairs(d, W)) = ow + size(d, w)
    BY <1>2, <1>3, <1>4
  <1>10. /\ op + size(c, p) <= ow + size(c, w) + off
         /\ m.all => ow + size(c, w) <= op + size(c, p) + off
    BY <1>8, <1>9
  <1>11. Cardinality(Q) \in Nat
    BY TallyAssumption, FS_Subset, FS_CardinalityType
  <1> HIDE DEF p, w, size
  <1>12. /\ op + size(d, p) <= ow + size(d, w) + off + Cardinality(Q)
         /\ m.all => ow + size(d, w) <= op + size(d, p) + off + Cardinality(Q)
    <2> DEFINE cp == size(c, p)
               dp == size(d, p)
               cw == size(c, w)
               dw == size(d, w)
               changed == Cardinality(Q)
    <2>1. changed \in Nat /\ cp \in 0..changed /\ dp \in 0..changed
          /\ cw \in 0..changed /\ dw \in 0..changed
      BY <1>5, <1>11
    <2>2. op + cp <= ow + cw + off /\ (m.all => ow + cw <= op + cp + off)
      BY <1>10
    <2>3. (cw = 0 /\ dw = 0) \/ (cp <= cw /\ dp <= dw)
      <3>1. CASE w = {}
        BY <1>6, <3>1
      <3>2. CASE w = W
        BY <1>7, <3>2
      <3> QED
        BY <1>3, <3>1, <3>2
    <2> HIDE DEF cp, dp, cw, dw, changed
    <2>4. op + dp <= ow + dw + off + changed
      BY <2>1, <2>2, <2>3
    <2>5. m.all => ow + dw <= op + dp + off + changed
      <3> HAVE m.all
      <3>1. ow + cw <= op + cp + off
        BY <2>2
      <3> QED
        BY <2>1, <2>3, <3>1
    <2> QED
      BY <2>4, <2>5 DEF cp, dp, cw, dw, changed
  <1> QED
    BY <1>8, <1>9, <1>12 DEF P, W

(* A commit between two statements. *)
LEMMA CommitKeeps ==
    ASSUME TallyInv, NEW new \in [TableRows -> Boards[board].rows \cup {Missing}], CommitRows(new)
    PROVE  TallyInv'
  <1> DEFINE B == Boards[board]
             asked == AskedBefore(B, step)
             Q == {r \in TableRows : new[r] # table[r]}
  <1>1. Consistent(B)
    BY BoardsConsistent DEF TallyInv
  <1>2. PICK c \in [NamesOf(B) -> SUBSET TableRows] : Explains(c)
    BY DEF TallyInv
  <1>3. /\ step \in 1..Len(B.asks) + 1 /\ step' = step /\ figures' = figures /\ board' = board
        /\ DOMAIN table = TableRows /\ DOMAIN table' = TableRows
        /\ \A r \in TableRows \ Q : table'[r] = table[r]
        /\ changes \in Nat /\ changes' = changes + Cardinality(Q) /\ Cardinality(Q) \in Nat
        /\ asked \subseteq NamesOf(B)
    <2>1. step \in 1..Len(B.asks) + 1 /\ Len(B.asks) \in Nat
      BY <1>1 DEF TallyInv, Consistent
    <2>2. asked \subseteq NamesOf(B)
      <3>1. \A s \in 1..step - 1 : s \in 1..Len(B.asks) + 1 - 1
        BY <2>1
      <3> HIDE DEF B
      <3> QED
        BY <3>1 DEF AskedBefore, NamesOf
    <2>3. Cardinality(Q) \in Nat
      BY TallyAssumption, FS_Subset, FS_CardinalityType
    <2>4. table' = new /\ changes' = changes + Cardinality(Q) /\ UNCHANGED <<board, figures, step>>
      BY DEF CommitRows
    <2> QED
      BY <2>1, <2>2, <2>3, <2>4 DEF TallyInv
  <1>4. PICK d \in [NamesOf(B) -> SUBSET TableRows] :
          /\ \A n \in asked : d[n] = c[n]
          /\ \A n \in NamesOf(B) \ asked : c[n] = Current(n) /\ d[n] = Current(n)'
    <2> DEFINE after == [n \in NamesOf(B) |-> IF n \in asked THEN c[n] ELSE Current(n)']
    <2>1. \A n : Current(n)' \subseteq TableRows
      BY DEF Current, Present
    <2>2. \A n \in NamesOf(B) \ asked : c[n] = Current(n)
      BY <1>2 DEF Explains
    <2> HIDE DEF B, asked
    <2>3. after \in [NamesOf(B) -> SUBSET TableRows]
      BY <1>3, <2>1
    <2> QED
      BY <1>3, <2>2, <2>3
  <1>5. \A n, r : r \in Current(n) <=> r \in TableRows /\ table[r] # Missing /\ Counts(B, n, table[r])
    BY DEF Current, Present
  <1>6. \A n, r : r \in Current(n)' <=> r \in TableRows /\ table'[r] # Missing /\ Counts(B, n, table'[r])
    BY <1>3 DEF Current, Present
  <1>7. Q \in SUBSET TableRows
    OBVIOUS
  <1> HIDE DEF B, asked, Q
  <1>8. \A n \in asked : c[n] = d[n]
    BY <1>4
  <1>9. \A n \in NamesOf(B) : \A r \in TableRows \ Q : r \in c[n] <=> r \in d[n]
    BY <1>3, <1>4, <1>5, <1>6
  <1>10. \A n \in NamesOf(B) \ asked : \A q \in Q :
             /\ q \in c[n] <=> table[q] # Missing /\ Counts(B, n, table[q])
             /\ q \in d[n] <=> table'[q] # Missing /\ Counts(B, n, table'[q])
    BY <1>4, <1>5, <1>6, <1>7
  <1>11. ASSUME NEW m \in B.means
         PROVE  /\ Cardinality(Pairs(d, m.parts)) <= Cardinality(Pairs(d, m.whole)) + changes'
                /\ m.all => Cardinality(Pairs(d, m.whole)) <= Cardinality(Pairs(d, m.parts)) + changes'
    <2>1. /\ Cardinality(Pairs(c, m.parts)) <= Cardinality(Pairs(c, m.whole)) + changes
          /\ m.all => Cardinality(Pairs(c, m.whole)) <= Cardinality(Pairs(c, m.parts)) + changes
      BY <1>2 DEF Explains, B
    <2>2. /\ Cardinality(Pairs(d, m.parts)) <= Cardinality(Pairs(d, m.whole)) + changes + Cardinality(Q)
          /\ m.all =>
               Cardinality(Pairs(d, m.whole)) <= Cardinality(Pairs(d, m.parts)) + changes + Cardinality(Q)
      BY <1>1, <1>3, <1>7, <1>8, <1>9, <1>10, <2>1, CommitMovesRows DEF asked
    <2>3. /\ Cardinality(Pairs(d, m.parts)) \in Nat /\ Cardinality(Pairs(d, m.whole)) \in Nat
      BY <1>1, PairsFinite DEF Consistent, Fits
    <2> QED
      BY <1>3, <2>2, <2>3
  <1>12. Explains(d)'
    <2>1. \A n \in asked : figures'[n] = Cardinality(d[n])
      BY <1>2, <1>3, <1>4 DEF Explains, B, asked
    <2>2. \A n \in NamesOf(B) \ asked : d[n] = Current(n)'
      BY <1>4
    <2>3. Boards[board]' = B /\ AskedBefore(Boards[board], step)' = asked
      BY <1>3 DEF B, asked
    <2> QED
      BY <1>11, <2>1, <2>2, <2>3 DEF Explains
  <1>13. DOMAIN figures = asked /\ board \in DOMAIN Boards
    BY DEF TallyInv, B, asked
  <1> QED
    BY <1>3, <1>12, <1>13 DEF TallyInv, B, asked

LEMMA TallyInvHolds == TallySpec => []TallyInv
  <1>1. TallyInit => TallyInv
    BY TallyInitKeeps
  <1>2. TallyInv /\ [TallyNext]_tallyVars => TallyInv'
    <2> SUFFICES ASSUME TallyInv, [TallyNext]_tallyVars
                 PROVE  TallyInv'
      OBVIOUS
    <2>1. CASE AskNext
      BY <2>1, StatementKeeps
    <2>2. CASE \E new \in [TableRows -> Boards[board].rows \cup {Missing}] : CommitRows(new)
      BY <2>2, CommitKeeps
    <2>3. CASE UNCHANGED tallyVars
      BY <2>3 DEF tallyVars, TallyInv, Explains, Current, Present
    <2> QED
      BY <2>1, <2>2, <2>3 DEF TallyNext
  <1> QED
    BY <1>1, <1>2, PTL DEF TallySpec

(* When everything has been asked for, the figures are what was counted. *)
LEMMA TalliesTell == TallyInv => AnswersAddUp
  <1> SUFFICES ASSUME TallyInv, step > Len(Boards[board].asks), NEW m \in Boards[board].means
               PROVE  LET sum(names) == Cardinality(Strokes(names)) IN
                      /\ sum(m.parts) <= sum(m.whole) + changes
                      /\ m.all => sum(m.whole) <= sum(m.parts) + changes
    BY DEF AnswersAddUp
  <1> DEFINE B == Boards[board]
  <1>1. PICK c \in [NamesOf(B) -> SUBSET TableRows] : Explains(c)
    BY DEF TallyInv
  <1>2. Consistent(B)
    BY BoardsConsistent DEF TallyInv
  <1>3. step = Len(B.asks) + 1 /\ Len(B.asks) \in Nat
    BY <1>2 DEF TallyInv, Consistent
  <1>4. \A n \in NamesOf(B) : figures[n] = Cardinality(c[n])
    BY <1>1, <1>3 DEF Explains, NamesOf
  <1>5. /\ Cardinality(Pairs(c, m.parts)) <= Cardinality(Pairs(c, m.whole)) + changes
        /\ m.all => Cardinality(Pairs(c, m.whole)) <= Cardinality(Pairs(c, m.parts)) + changes
    BY <1>1 DEF Explains
  <1>6. Fits(B, m)
    BY <1>2 DEF Consistent
  <1> HIDE DEF B
  <1>7. ASSUME NEW S, S \subseteq NamesOf(B), IsFiniteSet(S)
        PROVE  Cardinality(Strokes(S)) = Cardinality(Pairs(c, S))
    <2>1. \A n \in S : c[n] \subseteq TableRows /\ figures[n] = Cardinality(c[n])
      BY <1>4, <1>7
    <2> QED
      BY <1>7, <2>1, StrokesAre
  <1>8. /\ IsFiniteSet(m.parts) /\ IsFiniteSet(m.whole)
        /\ m.parts \subseteq NamesOf(B) /\ m.whole \subseteq NamesOf(B)
    BY <1>3, <1>6 DEF Fits, NamesOf, AskedBefore
  <1>9. /\ Cardinality(Strokes(m.parts)) = Cardinality(Pairs(c, m.parts))
        /\ Cardinality(Strokes(m.whole)) = Cardinality(Pairs(c, m.whole))
    BY <1>7, <1>8
  <1> QED
    BY <1>5, <1>9

(* On every board, for any number of rows and of commits between two       *)
(* statements, each of any number of rows: parts never exceed their whole, *)
(* and what makes up a whole adds up to it, but for as many as the rows    *)
(* that were changed (DashboardService, AdminService, the statistics of    *)
(* alerts, watchlists and notifications).                                  *)
THEOREM FiguresAlwaysAgree == TallySpec => []AnswersAddUp
  BY TallyInvHolds, TalliesTell, PTL

(***************************************************************************)
(* What the detectors find.                                                *)
(***************************************************************************)

(* No event is listed twice. *)
Distinct(s) == \A i, j \in DOMAIN s : s[i].id = s[j].id => i = j

EventsInv == events \in Seq(Event) /\ Distinct(events)

(* A list of the events that have a time: each of them once, by time. *)
DatedRight(d, s) ==
    /\ d \in Seq(Event) /\ Len(d) \in Nat
    /\ \A k \in 1..Len(d) : d[k] \in Event /\ d[k].at \in Ticks /\ d[k].at \in Nat
    /\ \A k, l \in 1..Len(d) : k <= l => d[k].at <= d[l].at
    /\ \A k, l \in 1..Len(d) : d[k].id = d[l].id => k = l
    /\ \A i \in DOMAIN s : s[i].at # Undated => \E k \in 1..Len(d) : d[k] = s[i]
    /\ \A k \in 1..Len(d) : \E i \in DOMAIN s : d[k] = s[i]

LEMMA DatedIs ==
    ASSUME NEW s \in Seq(Event), Distinct(s)
    PROVE  DatedRight(Dated(s), s)
  <1> DEFINE D == {j \in DOMAIN s : s[j].at # Undated}
             key == [i \in D |-> s[i].at]
             d == Dated(s)
             n == Cardinality(D)
  <1>1. /\ DOMAIN s = 1..Len(s) /\ Len(s) \in Nat
        /\ \A i \in DOMAIN s : s[i] \in Event
    <2> HIDE DEF Event
    <2> QED
      OBVIOUS
  <1>2. \A i \in D : s[i].at \in Ticks /\ s[i].at \in Nat /\ s[i].id \in EventIds
    BY <1>1, AnalysisAssumption DEF Event, Ticks
  <1>3. D \subseteq Nat /\ IsFiniteSet(D)
    <2>1. IsFiniteSet(1..Len(s))
      BY <1>1, FS_Interval
    <2>2. D \subseteq 1..Len(s)
      BY <1>1
    <2> QED
      BY <2>1, <2>2, FS_Subset
  <1>4. n \in Nat
    BY <1>3, FS_CardinalityType
  <1>5. key \in [D -> Nat]
    BY <1>2
  <1>6. d = SortedBy(s, key)
    BY DEF Dated
  <1> HIDE DEF d
  <1>7. Arranges(d, s, key, D)
    <2> HIDE DEF key, D
    <2> QED
      BY <1>3, <1>5, <1>6, SortArranges
  <1>8. PICK p \in [1..n -> D] :
          /\ d = [k \in 1..n |-> s[p[k]]]
          /\ \A i \in D : \E k \in 1..n : p[k] = i
          /\ \A k, l \in 1..n : k < l =>
              \/ key[p[k]] < key[p[l]]
              \/ (key[p[k]] = key[p[l]] /\ p[k] < p[l])
    <2> HIDE DEF key, D
    <2> QED
      BY <1>7 DEF Arranges, n
  <1> HIDE DEF n
  <1>9. \A k \in 1..n : p[k] \in D /\ d[k] = s[p[k]]
    <2> HIDE DEF D
    <2> QED
      BY <1>8
  <1>10. d \in Seq(Event) /\ Len(d) = n
    <2>1. \A k \in 1..n : s[p[k]] \in Event
      BY <1>1, <1>9
    <2>2. d \in [1..n -> Event]
      <3> HIDE DEF Event, D
      <3> QED
        BY <1>8, <2>1
    <2>3. d \in Seq(Event)
      <3> HIDE DEF Event
      <3> QED
        BY <1>4, <2>2, SeqDef
    <2>4. DOMAIN d = 1..n
      BY <2>2
    <2>5. DOMAIN d = 1..Len(d) /\ Len(d) \in Nat
      <3> HIDE DEF Event
      <3> QED
        BY <2>3, LenProperties
    <2> QED
      BY <1>4, <2>3, <2>4, <2>5
  <1>11. ASSUME NEW k \in 1..n, NEW l \in 1..n, k < l
         PROVE  d[k].at <= d[l].at /\ p[k] # p[l]
    <2>1. key[p[k]] = d[k].at /\ key[p[l]] = d[l].at /\ d[k].at \in Nat /\ d[l].at \in Nat
      BY <1>2, <1>9
    <2>2. p[k] \in Nat /\ p[l] \in Nat
      BY <1>3, <1>9
    <2>3. \/ key[p[k]] < key[p[l]]
          \/ (key[p[k]] = key[p[l]] /\ p[k] < p[l])
      BY <1>8, <1>11
    <2> QED
      <3> HIDE DEF key
      <3> QED
        BY <2>1, <2>2, <2>3
  <1>12. \A k \in 1..n : d[k] \in Event /\ d[k].at \in Ticks /\ d[k].at \in Nat
    BY <1>1, <1>2, <1>9
  <1>13. \A k, l \in 1..n : k <= l => d[k].at <= d[l].at
    <2> TAKE k, l \in 1..n
    <2> HAVE k <= l
    <2>1. CASE k = l
      BY <1>12, <2>1
    <2>2. CASE k < l
      BY <1>11, <2>2
    <2> QED
      BY <1>4, <2>1, <2>2
  <1>14. \A k, l \in 1..n : d[k].id = d[l].id => k = l
    <2> TAKE k, l \in 1..n
    <2> HAVE d[k].id = d[l].id
    <2>1. p[k] = p[l]
      BY <1>9 DEF Distinct
    <2> QED
      BY <1>4, <1>11, <2>1
  <1>15. \A i \in DOMAIN s : s[i].at # Undated => \E k \in 1..n : d[k] = s[i]
    <2> TAKE i \in DOMAIN s
    <2> HAVE s[i].at # Undated
    <2>1. PICK k \in 1..n : p[k] = i
      BY <1>8
    <2> QED
      BY <1>9, <2>1
  <1>16. \A k \in 1..n : \E i \in DOMAIN s : d[k] = s[i]
    BY <1>9
  <1>17. DatedRight(d, s)
    <2> HIDE DEF Event, Ticks, d, D
    <2> QED
      BY <1>4, <1>10, <1>12, <1>13, <1>14, <1>15, <1>16 DEF DatedRight
  <1> QED
    BY <1>17 DEF d

(* The event of an identifier, and the identifiers with a time. *)
LEMMA EventsAre ==
    ASSUME EventsInv, NEW d, DatedRight(d, events)
    PROVE  /\ \A i \in DOMAIN events : EventOf(events[i].id) = events[i]
           /\ \A k \in 1..Len(d) : EventOf(d[k].id) = d[k] /\ d[k].id \in DatedIds
           /\ \A id \in DatedIds : \E k \in 1..Len(d) : d[k].id = id
  <1>1. \A i \in DOMAIN events : EventOf(events[i].id) = events[i]
    <2> TAKE i \in DOMAIN events
    <2> DEFINE j == CHOOSE j \in DOMAIN events : events[j].id = events[i].id
    <2>1. j \in DOMAIN events /\ events[j].id = events[i].id
      OBVIOUS
    <2>2. j = i
      BY <2>1 DEF EventsInv, Distinct
    <2> QED
      BY <2>2 DEF EventOf
  <1>2. ASSUME NEW k \in 1..Len(d)
        PROVE  EventOf(d[k].id) = d[k] /\ d[k].id \in DatedIds
    <2>1. PICK i \in DOMAIN events : d[k] = events[i]
      BY DEF DatedRight
    <2>2. EventOf(d[k].id) = d[k]
      BY <1>1, <2>1
    <2>3. d[k].at # Undated
      BY AnalysisAssumption DEF DatedRight, Ticks
    <2> QED
      BY <2>1, <2>2, <2>3 DEF DatedIds, Ids
  <1>3. ASSUME NEW id \in DatedIds
        PROVE  \E k \in 1..Len(d) : d[k].id = id
    <2>1. PICK i \in DOMAIN events : events[i].id = id
      BY DEF DatedIds, Ids
    <2>2. events[i].at # Undated
      BY <1>1, <2>1 DEF DatedIds
    <2> QED
      BY <2>1, <2>2 DEF DatedRight
  <1> QED
    BY <1>1, <1>2, <1>3

(* How far two events are apart. *)
LEMMA DistanceIs ==
    ASSUME EventsInv, NEW d, DatedRight(d, events), NEW k \in 1..Len(d), NEW l \in 1..Len(d), k <= l
    PROVE  /\ Distance(d[k].id, d[l].id) = d[l].at - d[k].at
           /\ Distance(d[l].id, d[k].id) = d[l].at - d[k].at
  <1>1. EventOf(d[k].id) = d[k] /\ EventOf(d[l].id) = d[l]
    BY EventsAre
  <1>2. d[k].at \in Nat /\ d[l].at \in Nat /\ d[k].at <= d[l].at
    BY DEF DatedRight
  <1> QED
    BY <1>1, <1>2 DEF Distance

(* The pauses longer than a threshold are the gaps between neighbours. *)
LEMMA GapsAre ==
    ASSUME EventsInv, NEW threshold \in Nat
    PROVE  LET times == {EventOf(id).at : id \in DatedIds} IN
           \A p : p \in Gaps(events, threshold) <=>
               /\ p \in times \X times /\ p[1] + threshold < p[2]
               /\ \A z \in times : ~(p[1] < z /\ z < p[2])
  <1> DEFINE d == Dated(events)
             times == {EventOf(id).at : id \in DatedIds}
  <1>1. DatedRight(d, events)
    BY DatedIs DEF EventsInv
  <1> HIDE DEF d
  <1>2. /\ Len(d) \in Nat /\ \A k \in 1..Len(d) : d[k].at \in Nat
        /\ \A k, l \in 1..Len(d) : k <= l => d[k].at <= d[l].at
    BY <1>1 DEF DatedRight
  <1>3. \A t : t \in times <=> \E k \in 1..Len(d) : t = d[k].at
    <2>1. \A k \in 1..Len(d) : EventOf(d[k].id) = d[k] /\ d[k].id \in DatedIds
      BY <1>1, EventsAre
    <2>2. \A id \in DatedIds : \E k \in 1..Len(d) : d[k].id = id
      BY <1>1, EventsAre
    <2> QED
      BY <2>1, <2>2
  <1> HIDE DEF times
  <1>4. \A p : p \in Gaps(events, threshold) <=>
               \E i \in 1..Len(d) - 1 : p = <<d[i].at, d[i + 1].at>> /\ d[i + 1].at - d[i].at > threshold
    BY DEF Gaps, At, d
  <1>5. ASSUME NEW i \in 1..Len(d) - 1, d[i + 1].at - d[i].at > threshold
        PROVE  /\ d[i].at \in times /\ d[i + 1].at \in times /\ d[i].at + threshold < d[i + 1].at
               /\ \A z \in times : ~(d[i].at < z /\ z < d[i + 1].at)
    <2>1. i \in 1..Len(d) /\ i + 1 \in 1..Len(d)
      BY <1>2
    <2>2. d[i].at \in Nat /\ d[i + 1].at \in Nat
      BY <1>2, <2>1
    <2>3. ASSUME NEW z \in times
          PROVE  ~(d[i].at < z /\ z < d[i + 1].at)
      <3>1. PICK k \in 1..Len(d) : z = d[k].at
        BY <1>3
      <3>2. CASE k <= i
        <4>1. d[k].at <= d[i].at
          BY <1>2, <2>1, <3>2
        <4> QED
          BY <1>2, <2>2, <3>1, <4>1
      <3>3. CASE i + 1 <= k
        <4>1. d[i + 1].at <= d[k].at
          BY <1>2, <2>1, <3>3
        <4> QED
          BY <1>2, <2>2, <3>1, <4>1
      <3> QED
        BY <2>1, <3>2, <3>3
    <2> QED
      BY <1>3, <1>5, <2>1, <2>2, <2>3
  <1>6. ASSUME NEW x \in times, NEW y \in times, x + threshold < y,
               \A z \in times : ~(x < z /\ z < y)
        PROVE  \E i \in 1..Len(d) - 1 : <<x, y>> = <<d[i].at, d[i + 1].at>> /\ d[i + 1].at - d[i].at > threshold
    <2>1. PICK m \in 1..Len(d) : x = d[m].at
      BY <1>3
    <2>2. PICK j \in 1..Len(d) : y = d[j].at
      BY <1>3
    <2>3. x \in Nat /\ y \in Nat /\ x < y
      BY <1>2, <1>6, <2>1, <2>2
    <2> DEFINE late == {k \in 1..Len(d) : d[k].at >= y}
    <2>4. late \in SUBSET Nat /\ late # {}
      <3>1. j \in late
        BY <2>2, <2>3
      <3>2. 1..Len(d) \subseteq Nat
        BY <1>2
      <3> QED
        BY <3>1, <3>2
    <2>5. PICK k \in late : \A l \in late : k <= l
      <3> HIDE DEF late
      <3> QED
        BY <2>4, Least
    <2>6. k \in 1..Len(d) /\ d[k].at >= y
      BY <2>5
    <2>7. d[k].at = y
      <3>1. k <= j
        BY <2>2, <2>3, <2>5
      <3>2. d[k].at <= y
        BY <1>2, <2>2, <2>6, <3>1
      <3> QED
        BY <1>2, <2>3, <2>6, <3>2
    <2>8. m < k
      <3> SUFFICES ASSUME k <= m
                   PROVE  FALSE
        BY <1>2, <2>6
      <3>1. d[k].at <= d[m].at
        BY <1>2, <2>6
      <3> QED
        BY <2>1, <2>3, <2>7, <3>1
    <2>9. k - 1 \in 1..Len(d) - 1 /\ k - 1 \in 1..Len(d) /\ (k - 1) + 1 = k /\ m <= k - 1
      BY <1>2, <2>6, <2>8
    <2>10. x <= d[k - 1].at /\ d[k - 1].at \in Nat
      BY <1>2, <2>1, <2>9
    <2>11. d[k - 1].at < y
      <3> SUFFICES ASSUME d[k - 1].at >= y
                   PROVE  FALSE
        BY <2>3, <2>10
      <3>1. k - 1 \in late
        BY <2>9
      <3>2. k <= k - 1
        BY <2>5, <3>1
      <3> QED
        BY <1>2, <2>6, <3>2
    <2>12. d[k - 1].at = x
      <3>1. d[k - 1].at \in times
        BY <1>3, <2>9
      <3> QED
        BY <1>6, <2>3, <2>10, <2>11, <3>1
    <2> QED
      <3>1. <<x, y>> = <<d[k - 1].at, d[(k - 1) + 1].at>>
        BY <2>7, <2>9, <2>12
      <3>2. d[(k - 1) + 1].at - d[k - 1].at > threshold
        BY <1>6, <2>3, <2>7, <2>9, <2>12
      <3> QED
        BY <2>9, <3>1, <3>2
  <1>7. ASSUME NEW p
        PROVE  p \in Gaps(events, threshold) <=>
               /\ p \in times \X times /\ p[1] + threshold < p[2]
               /\ \A z \in times : ~(p[1] < z /\ z < p[2])
    <2>1. ASSUME p \in Gaps(events, threshold)
          PROVE  /\ p \in times \X times /\ p[1] + threshold < p[2]
                 /\ \A z \in times : ~(p[1] < z /\ z < p[2])
      <3>1. PICK i \in 1..Len(d) - 1 : p = <<d[i].at, d[i + 1].at>> /\ d[i + 1].at - d[i].at > threshold
        BY <1>4, <2>1
      <3>2. p[1] = d[i].at /\ p[2] = d[i + 1].at
        BY <3>1
      <3> QED
        BY <1>5, <3>1, <3>2
    <2>2. ASSUME p \in times \X times, p[1] + threshold < p[2],
                 \A z \in times : ~(p[1] < z /\ z < p[2])
          PROVE  p \in Gaps(events, threshold)
      <3>1. p = <<p[1], p[2]>> /\ p[1] \in times /\ p[2] \in times
        BY <2>2
      <3>2. \E i \in 1..Len(d) - 1 : <<p[1], p[2]>> = <<d[i].at, d[i + 1].at>> /\ d[i + 1].at - d[i].at > threshold
        BY <1>6, <2>2, <3>1
      <3> QED
        BY <1>4, <3>1, <3>2
    <2> QED
      BY <2>1, <2>2
  <1> QED
    BY <1>7 DEF times

(* Every silence is found, and every long one among them. *)
LEMMA AllSilences == EventsInv => SilencesFound(Analysis(events))
  <1> SUFFICES ASSUME EventsInv
               PROVE  SilencesFound(Analysis(events))
    OBVIOUS
  <1> DEFINE times == {EventOf(id).at : id \in DatedIds}
  <1>1. /\ Analysis(events).gaps = Gaps(events, GapThreshold)
        /\ Analysis(events).inactivity = Gaps(events, InactivityThreshold)
    BY DEF Analysis
  <1>2. GapThreshold \in Nat /\ InactivityThreshold \in Nat /\ GapThreshold <= InactivityThreshold
    BY AnalysisAssumption
  <1>3. ASSUME NEW t \in Nat
        PROVE  \A p : p \in Gaps(events, t) <=>
                   /\ p \in times \X times /\ p[1] + t < p[2]
                   /\ \A z \in times : ~(p[1] < z /\ z < p[2])
    BY GapsAre
  <1>4. \A t \in times : t \in Nat
    <2>1. DatedRight(Dated(events), events)
      BY DatedIs DEF EventsInv
    <2> TAKE t \in times
    <2>2. PICK id \in DatedIds : t = EventOf(id).at
      OBVIOUS
    <2>3. PICK k \in 1..Len(Dated(events)) : Dated(events)[k].id = id
      BY <2>1, EventsAre
    <2>4. EventOf(id) = Dated(events)[k]
      BY <2>1, <2>3, EventsAre
    <2> QED
      BY <2>1, <2>2, <2>4 DEF DatedRight
  <1> HIDE DEF times
  <1>5. Gaps(events, GapThreshold) = {p \in times \X times :
            p[1] + GapThreshold < p[2] /\ \A z \in times : ~(p[1] < z /\ z < p[2])}
    BY <1>2, <1>3
  <1>6. ASSUME NEW p \in Gaps(events, InactivityThreshold)
        PROVE  p \in Gaps(events, GapThreshold)
    <2>1. /\ p \in times \X times /\ p[1] + InactivityThreshold < p[2]
          /\ \A z \in times : ~(p[1] < z /\ z < p[2])
      BY <1>2, <1>3
    <2>2. p[1] \in Nat /\ p[2] \in Nat
      BY <1>4, <2>1
    <2>3. p[1] + GapThreshold < p[2]
      BY <1>2, <2>1, <2>2
    <2> QED
      BY <1>2, <1>3, <2>1, <2>3
  <1> QED
    BY <1>1, <1>5, <1>6 DEF SilencesFound, times

(* The identifiers in a list of events are finitely many. *)
LEMMA ListedIdsFinite ==
    ASSUME NEW d, Len(d) \in Nat
    PROVE  IsFiniteSet({d[k].id : k \in 1..Len(d)})
  <1> DEFINE id == [k \in 1..Len(d) |-> d[k].id]
  <1>1. IsFiniteSet(1..Len(d))
    BY FS_Interval
  <1>2. id \in Surjection(1..Len(d), {d[k].id : k \in 1..Len(d)})
    BY DEF Surjection
  <1> QED
    BY <1>1, <1>2, FS_Surjection

(* The groups of a list, gathered event by event. *)
Gathering(f, d, n) ==
    /\ f = [i \in 0..n |-> f[i]] /\ f[0] = {}
    /\ \A i \in 1..n : f[i] = Gather(d, f[i - 1], i)

LEMMA GatheringRuns ==
    ASSUME NEW d, NEW N \in Nat
    PROVE  \E f : Gathering(f, d, N)
  <1> DEFINE bad == {n \in 0..N : ~ \E f : Gathering(f, d, n)}
  <1> SUFFICES ASSUME bad # {}
               PROVE  FALSE
    <2>1. N \in 0..N
      OBVIOUS
    <2> QED
      BY <2>1
  <1>1. PICK n \in bad : \A m \in bad : n <= m
    <2>1. bad \in SUBSET Nat
      OBVIOUS
    <2> HIDE DEF bad
    <2> QED
      BY <2>1, Least
  <1>2. n \in 0..N /\ n \in Nat /\ ~ \E f : Gathering(f, d, n)
    OBVIOUS
  <1>3. CASE n = 0
    <2> DEFINE f == [i \in 0..0 |-> {}]
    <2>1. 0..n = 0..0 /\ 1..n = {} /\ 0 \in 0..0
      BY <1>3
    <2>2. f = [i \in 0..n |-> f[i]] /\ f[0] = {}
      BY <2>1
    <2>3. Gathering(f, d, n)
      <3> HIDE DEF f
      <3> QED
        BY <2>1, <2>2 DEF Gathering
    <2> QED
      BY <1>2, <2>3
  <1>4. CASE n # 0
    <2>1. n - 1 \in 0..N /\ n - 1 \in Nat /\ ~ (n <= n - 1)
      BY <1>2, <1>4
    <2>2. n - 1 \notin bad
      BY <1>1, <2>1
    <2>3. PICK f : Gathering(f, d, n - 1)
      BY <2>1, <2>2
    <2> DEFINE g == [i \in 0..n |-> IF i = n THEN Gather(d, f[n - 1], n) ELSE f[i]]
    <2>4. \A i \in 0..n : g[i] = IF i = n THEN Gather(d, f[n - 1], n) ELSE f[i]
      OBVIOUS
    <2>5. g = [i \in 0..n |-> g[i]]
      OBVIOUS
    <2> HIDE DEF g
    <2>6. 0 \in 0..n /\ n \in 0..n /\ n - 1 \in 0..n
      BY <1>2, <2>1
    <2>7. g[0] = {}
      BY <1>4, <2>3, <2>4, <2>6 DEF Gathering
    <2>8. ASSUME NEW i \in 1..n
          PROVE  g[i] = Gather(d, g[i - 1], i)
      <3>1. i \in 0..n /\ i - 1 \in 0..n /\ i - 1 # n
        BY <1>2
      <3>2. g[i - 1] = f[i - 1]
        BY <2>4, <3>1
      <3>3. CASE i = n
        BY <2>4, <3>1, <3>2, <3>3
      <3>4. CASE i # n
        <4>1. i \in 1..n - 1
          BY <1>2, <3>4
        <4>2. f[i] = Gather(d, f[i - 1], i)
          BY <2>3, <4>1 DEF Gathering
        <4> QED
          BY <2>4, <3>1, <3>2, <3>4, <4>2
      <3> QED
        BY <3>3, <3>4
    <2>9. Gathering(g, d, n)
      BY <2>5, <2>7, <2>8 DEF Gathering
    <2> QED
      BY <1>2, <2>9
  <1> QED
    BY <1>3, <1>4

LEMMA DuplicatesGather ==
    ASSUME Len(Dated(events)) \in Nat
    PROVE  \E f : /\ Gathering(f, Dated(events), Len(Dated(events)))
                  /\ Duplicates(events) = f[Len(Dated(events))]
  <1> DEFINE d == Dated(events)
             n == Len(d)
             Step(g) == [i \in 0..n |-> IF i = 0 THEN {} ELSE Gather(d, g[i - 1], i)]
             gathered == CHOOSE g : g = Step(g)
  <1>1. Duplicates(events) = gathered[n]
    BY DEF Duplicates
  <1> HIDE DEF d, n
  <1>n. n \in Nat /\ \A i \in 1..n : i \in 0..n /\ i # 0
    BY DEF n, d
  <1>2. PICK f : Gathering(f, d, n)
    BY <1>n, GatheringRuns
  <1>3. f = Step(f)
    <2>1. ASSUME NEW i \in 0..n
          PROVE  f[i] = IF i = 0 THEN {} ELSE Gather(d, f[i - 1], i)
      <3>1. i = 0 \/ i \in 1..n
        BY <1>n
      <3> QED
        BY <1>2, <3>1 DEF Gathering
    <2> QED
      BY <1>2, <2>1 DEF Gathering
  <1>4. gathered = Step(gathered)
    <2> HIDE DEF Step
    <2> QED
      BY <1>3
  <1> HIDE DEF gathered
  <1>5. Gathering(gathered, d, n)
    <2>1. 0 \in 0..n
      BY <1>n
    <2>2. \A i \in 0..n : gathered[i] = IF i = 0 THEN {} ELSE Gather(d, gathered[i - 1], i)
      BY <1>4
    <2>3. gathered = [i \in 0..n |-> gathered[i]]
      BY <1>4
    <2> QED
      BY <1>n, <2>1, <2>2, <2>3 DEF Gathering
  <1> QED
    BY <1>1, <1>5 DEF n, d

(* Two events that would be gathered by the first of them. *)
Twins(a, b) ==
    /\ b.at - a.at <= DuplicateWindow /\ a.type = b.type
    /\ <<a.title, b.title>> \in Alike

(* The groups that the first i events gathered: each is near its leader,   *)
(* no event is in two, and of twins one is in a group. *)
GatheredRight(d, groups, i) ==
    /\ \A g \in groups : \E m \in 1..i :
          \A x \in g : \E k \in m..Len(d) : x = d[k].id /\ d[k].at - d[m].at <= DuplicateWindow
    /\ \A g, h \in groups : g # h => g \cap h = {}
    /\ \A m \in 1..i : \A l \in m + 1..Len(d) :
          Twins(d[m], d[l]) => d[m].id \in UNION groups \/ d[l].id \in UNION groups

LEMMA GatherKeepsRight ==
    ASSUME NEW d, NEW s, DatedRight(d, s), NEW groups, NEW i \in 1..Len(d),
           GatheredRight(d, groups, i - 1)
    PROVE  GatheredRight(d, Gather(d, groups, i), i)
  <1> DEFINE used == UNION groups
             group == GroupFrom(d, i, used)
             next == Gather(d, groups, i)
  <1>1. /\ Len(d) \in Nat /\ \A k \in 1..Len(d) : d[k].at \in Nat
        /\ \A k, l \in 1..Len(d) : d[k].id = d[l].id => k = l
    BY DEF DatedRight
  <1>2. next = IF d[i].id \notin used /\ Cardinality(group) > 1 THEN groups \cup {group} ELSE groups
    BY DEF Gather, Fresh
  <1> HIDE DEF next
  <1>3. \A x : x \in group <=>
            x = d[i].id \/ \E k \in i + 1..Len(d) : x = d[k].id /\ x \notin used /\ Twins(d[i], d[k])
    BY DEF GroupFrom, Joins, Fresh, Twins
  <1> HIDE DEF group, used
  <1>4. groups \subseteq next /\ used \subseteq UNION next
    BY <1>2 DEF used
  <1>5. i \in Nat /\ i \in 1..i /\ i \in i..Len(d) /\ \A m \in 1..i - 1 : m \in 1..i
    BY <1>1
  <1>6. ASSUME NEW g \in next
        PROVE  \E m \in 1..i :
          \A x \in g : \E k \in m..Len(d) : x = d[k].id /\ d[k].at - d[m].at <= DuplicateWindow
    <2>1. CASE g \in groups
      BY <1>5, <2>1 DEF GatheredRight
    <2>2. CASE g = group
      <3>1. ASSUME NEW x \in group
            PROVE  \E k \in i..Len(d) : x = d[k].id /\ d[k].at - d[i].at <= DuplicateWindow
        <4>1. CASE x = d[i].id
          <5>1. d[i].at - d[i].at <= DuplicateWindow
            BY <1>1, AnalysisAssumption
          <5> QED
            BY <1>5, <4>1, <5>1
        <4>2. CASE x # d[i].id
          <5>1. PICK k \in i + 1..Len(d) : x = d[k].id /\ Twins(d[i], d[k])
            BY <1>3, <4>2
          <5>2. k \in i..Len(d)
            BY <1>5
          <5> QED
            BY <5>1, <5>2 DEF Twins
        <4> QED
          BY <4>1, <4>2
      <3> QED
        BY <1>5, <2>2, <3>1
    <2> QED
      BY <1>2, <2>1, <2>2
  <1>7. ASSUME NEW g \in next, NEW h \in next, g # h
        PROVE  g \cap h = {}
    <2>1. ASSUME d[i].id \notin used
          PROVE  \A a \in groups : a \cap group = {}
      BY <1>3, <2>1 DEF used
    <2>2. CASE g \in groups /\ h \in groups
      BY <1>7, <2>2 DEF GatheredRight
    <2>3. CASE ~ (g \in groups /\ h \in groups)
      BY <1>2, <1>7, <2>1, <2>3
    <2> QED
      BY <2>2, <2>3
  <1>8. ASSUME NEW m \in 1..i, NEW l \in m + 1..Len(d), Twins(d[m], d[l])
        PROVE  d[m].id \in UNION next \/ d[l].id \in UNION next
    <2>1. CASE m \in 1..i - 1
      <3>1. d[m].id \in used \/ d[l].id \in used
        BY <1>8, <2>1 DEF GatheredRight, used
      <3> QED
        BY <1>4, <3>1
    <2>2. CASE m = i /\ (d[i].id \in used \/ d[l].id \in used)
      BY <1>4, <2>2
    <2>3. CASE m = i /\ d[i].id \notin used /\ d[l].id \notin used
      <3>1. d[i].id \in group /\ d[l].id \in group
        BY <1>3, <1>8, <2>3
      <3>2. l \in 1..Len(d) /\ l # i
        BY <1>1, <2>3
      <3>3. d[i].id # d[l].id
        BY <1>1, <3>2
      <3>4. IsFiniteSet(group)
        <4>1. IsFiniteSet({d[k].id : k \in 1..Len(d)})
          BY <1>1, ListedIdsFinite
        <4>2. group \subseteq {d[k].id : k \in 1..Len(d)}
          <5>1. \A k \in i + 1..Len(d) : k \in 1..Len(d)
            BY <1>1
          <5> QED
            BY <1>3, <5>1
        <4> QED
          BY <4>1, <4>2, FS_Subset
      <3>5. Cardinality({d[i].id, d[l].id}) = 2
        BY <3>3, TwoOf
      <3>6. Cardinality({d[i].id, d[l].id}) <= Cardinality(group)
        <4>1. {d[i].id, d[l].id} \subseteq group
          BY <3>1
        <4> QED
          BY <3>4, <4>1, FS_Subset
      <3>7. Cardinality(group) > 1
        <4>1. Cardinality(group) \in Nat
          BY <3>4, FS_CardinalityType
        <4> QED
          BY <3>5, <3>6, <4>1
      <3>8. group \in next
        BY <1>2, <2>3, <3>7
      <3> QED
        BY <2>3, <3>1, <3>8
    <2> QED
      BY <1>5, <2>1, <2>2, <2>3
  <1>9. GatheredRight(d, next, i)
    BY <1>6, <1>7, <1>8 DEF GatheredRight
  <1> QED
    BY <1>9 DEF next

LEMMA GatheringRight ==
    ASSUME NEW d, NEW s, DatedRight(d, s), NEW f, Gathering(f, d, Len(d))
    PROVE  GatheredRight(d, f[Len(d)], Len(d))
  <1> DEFINE N == Len(d)
             bad == {n \in 0..N : ~ GatheredRight(d, f[n], n)}
  <1>0. N \in Nat
    BY DEF DatedRight
  <1> SUFFICES ASSUME bad # {}
               PROVE  FALSE
    BY <1>0
  <1>1. PICK n \in bad : \A m \in bad : n <= m
    <2>1. bad \in SUBSET Nat
      BY <1>0
    <2> HIDE DEF bad
    <2> QED
      BY <2>1, Least
  <1>2. n \in 0..N /\ n \in Nat /\ ~ GatheredRight(d, f[n], n)
    BY <1>0
  <1>3. CASE n = 0
    <2>1. f[0] = {}
      BY DEF Gathering
    <2>2. \A m : m \notin 1..0
      OBVIOUS
    <2> QED
      BY <1>2, <1>3, <2>1, <2>2 DEF GatheredRight
  <1>4. CASE n # 0
    <2>1. n \in 1..N /\ n - 1 \in 0..N /\ ~ (n <= n - 1)
      BY <1>0, <1>2, <1>4
    <2>2. GatheredRight(d, f[n - 1], n - 1)
      BY <1>1, <2>1
    <2>3. f[n] = Gather(d, f[n - 1], n)
      BY <2>1 DEF Gathering
    <2>4. GatheredRight(d, Gather(d, f[n - 1], n), n)
      BY <2>1, <2>2, GatherKeepsRight
    <2> QED
      BY <1>2, <2>3, <2>4
  <1> QED
    BY <1>3, <1>4

(* Duplicates are gathered: twins, no event twice, and no conflict. *)
LEMMA AllDuplicates == EventsInv => DuplicatesGathered(Analysis(events))
  <1> SUFFICES ASSUME EventsInv
               PROVE  DuplicatesGathered(Analysis(events))
    OBVIOUS
  <1> DEFINE d == Dated(events)
             groups == Duplicates(events)
  <1>1. DatedRight(d, events)
    BY DatedIs DEF EventsInv
  <1>2. /\ Len(d) \in Nat /\ \A k \in 1..Len(d) : d[k].at \in Nat
        /\ \A k, l \in 1..Len(d) : k <= l => d[k].at <= d[l].at
        /\ \A k, l \in 1..Len(d) : d[k].id = d[l].id => k = l
        /\ DOMAIN d = 1..Len(d)
    <2>1. d \in Seq(Event)
      BY <1>1 DEF DatedRight
    <2>2. DOMAIN d = 1..Len(d)
      <3> HIDE DEF Event, d
      <3> QED
        BY <2>1, LenProperties
    <2> HIDE DEF d
    <2> QED
      BY <1>1, <2>2 DEF DatedRight
  <1>3. GatheredRight(d, groups, Len(d))
    <2>1. PICK f : Gathering(f, d, Len(d)) /\ groups = f[Len(d)]
      BY <1>2, DuplicatesGather
    <2> HIDE DEF d, groups
    <2> QED
      BY <1>1, <2>1, GatheringRight
  <1>4. \A c : c \in Conflicts(events) <=>
            \E p \in (DOMAIN d) \X (DOMAIN d) : c = {d[p[1]].id, d[p[2]].id}
                                            /\ p[1] < p[2] /\ Disagree(d[p[1]], d[p[2]])
    <2>1. Conflicts(events) = {{d[p[1]].id, d[p[2]].id} : p \in Conflicting(d)}
      BY DEF Conflicts
    <2> HIDE DEF d
    <2>2. \A p : p \in Conflicting(d) <=> p \in (DOMAIN d) \X (DOMAIN d) /\ p[1] < p[2] /\ Disagree(d[p[1]], d[p[2]])
      BY DEF Conflicting
    <2> QED
      BY <2>1, <2>2
  <1>5. Analysis(events).duplicates = groups /\ Analysis(events).conflicts = Conflicts(events)
    BY DEF Analysis
  <1>6. /\ \A k \in 1..Len(d) : EventOf(d[k].id) = d[k]
        /\ \A id \in DatedIds : \E k \in 1..Len(d) : d[k].id = id
    <2> HIDE DEF d
    <2> QED
      BY <1>1, EventsAre
  <1> HIDE DEF d, groups
  <1>7. ASSUME NEW k \in 1..Len(d), NEW l \in 1..Len(d), k < l,
               Distance(d[k].id, d[l].id) <= DuplicateWindow, d[k].type = d[l].type,
               <<d[k].title, d[l].title>> \in Alike
        PROVE  d[k].id \in UNION groups \/ d[l].id \in UNION groups
    <2>1. Distance(d[k].id, d[l].id) = d[l].at - d[k].at
      BY <1>1, <1>2, <1>7, DistanceIs
    <2>2. Twins(d[k], d[l])
      BY <1>7, <2>1 DEF Twins
    <2>3. l \in k + 1..Len(d)
      BY <1>2, <1>7
    <2> QED
      BY <1>3, <2>2, <2>3 DEF GatheredRight
  <1>8. ASSUME NEW a \in DatedIds, NEW b \in DatedIds, a # b, Distance(a, b) <= DuplicateWindow,
               EventOf(a).type = EventOf(b).type,
               {<<EventOf(a).title, EventOf(b).title>>, <<EventOf(b).title, EventOf(a).title>>} \subseteq Alike
        PROVE  {a, b} \cap UNION groups # {}
    <2>1. PICK k \in 1..Len(d) : d[k].id = a
      BY <1>6
    <2>2. PICK l \in 1..Len(d) : d[l].id = b
      BY <1>6
    <2>3. k # l /\ EventOf(a) = d[k] /\ EventOf(b) = d[l]
      BY <1>6, <1>8, <2>1, <2>2
    <2>4. CASE k < l
      BY <1>7, <1>8, <2>1, <2>2, <2>3, <2>4
    <2>5. CASE l < k
      <3>1. Distance(b, a) = Distance(a, b)
        <4>1. l <= k
          BY <1>2, <2>5
        <4> QED
          BY <1>1, <2>1, <2>2, <4>1, DistanceIs
      <3> QED
        BY <1>7, <1>8, <2>1, <2>2, <2>3, <2>5, <3>1
    <2> QED
      BY <1>2, <2>3, <2>4, <2>5
  <1>9. ASSUME NEW g \in groups, NEW pair \in Conflicts(events), pair \subseteq g
        PROVE  FALSE
    <2>1. PICK p \in (DOMAIN d) \X (DOMAIN d) :
             pair = {d[p[1]].id, d[p[2]].id} /\ p[1] < p[2] /\ Disagree(d[p[1]], d[p[2]])
      BY <1>4
    <2> DEFINE k == p[1]
               l == p[2]
    <2>2. k \in 1..Len(d) /\ l \in 1..Len(d)
      <3>1. p[1] \in DOMAIN d /\ p[2] \in DOMAIN d
        OBVIOUS
      <3> QED
        BY <1>2, <3>1
    <2>a. d[l].at - d[k].at >= ConflictDistance
      BY <2>1 DEF Disagree
    <2>b. d[k].id \in g /\ d[l].id \in g
      BY <1>9, <2>1
    <2> HIDE DEF k, l
    <2>3. PICK m \in 1..Len(d) :
             \A x \in g : \E j \in m..Len(d) : x = d[j].id /\ d[j].at - d[m].at <= DuplicateWindow
      BY <1>3 DEF GatheredRight
    <2>4. PICK i \in m..Len(d) : d[k].id = d[i].id /\ d[i].at - d[m].at <= DuplicateWindow
      BY <2>b, <2>3
    <2>5. PICK j \in m..Len(d) : d[l].id = d[j].id /\ d[j].at - d[m].at <= DuplicateWindow
      BY <2>b, <2>3
    <2>6. i \in 1..Len(d) /\ j \in 1..Len(d) /\ m <= i
      BY <1>2
    <2>7. k = i /\ l = j
      BY <1>2, <2>2, <2>4, <2>5, <2>6
    <2>8. d[m].at <= d[k].at /\ d[m].at \in Nat /\ d[k].at \in Nat /\ d[l].at \in Nat
      BY <1>2, <2>2, <2>6, <2>7
    <2>9. DuplicateWindow < ConflictDistance /\ DuplicateWindow \in Nat /\ ConflictDistance \in Nat
      BY AnalysisAssumption
    <2>10. d[l].at - d[m].at <= DuplicateWindow
      BY <2>5, <2>7
    <2>11. \A x, y, z, w, c \in Nat : z - x <= w /\ x <= y /\ w < c => ~ (z - y >= c)
      OBVIOUS
    <2> QED
      BY <2>a, <2>8, <2>9, <2>10, <2>11
  <1>10. \A g, h \in groups : g # h => g \cap h = {}
    BY <1>3 DEF GatheredRight
  <1> QED
    BY <1>5, <1>8, <1>9, <1>10 DEF DuplicatesGathered

(* A window ends at the last event that is near its first one. *)
LEMMA WindowEnds ==
    ASSUME NEW d, NEW s, DatedRight(d, s), NEW i \in 1..Len(d)
    PROVE  /\ WindowEnd(d, i) \in i..Len(d)
           /\ \A k \in i..Len(d) : d[k].at - d[i].at <= ClusterWindow <=> k <= WindowEnd(d, i)
  <1> DEFINE Ends(j) == /\ d[j].at - d[i].at <= ClusterWindow
                        /\ j = Len(d) \/ d[j + 1].at - d[i].at > ClusterWindow
             late == {j \in i..Len(d) : j = Len(d) \/ d[j + 1].at - d[i].at > ClusterWindow}
  <1>1. /\ Len(d) \in Nat /\ \A k \in 1..Len(d) : d[k].at \in Nat
        /\ \A k, l \in 1..Len(d) : k <= l => d[k].at <= d[l].at
    BY DEF DatedRight
  <1>2. \A j \in i..Len(d) : j \in 1..Len(d) /\ j \in Nat
    BY <1>1
  <1>3. ClusterWindow \in Nat
    BY AnalysisAssumption
  <1>4. PICK j \in late : \A k \in late : j <= k
    <2>1. late \in SUBSET Nat
      BY <1>2
    <2>2. Len(d) \in late
      BY <1>1
    <2> HIDE DEF late
    <2> QED
      BY <2>1, <2>2, Least
  <1>5. j \in i..Len(d) /\ j \in 1..Len(d)
    BY <1>2, <1>4
  <1>6. d[j].at - d[i].at <= ClusterWindow
    <2>1. CASE j = i
      BY <1>1, <1>3, <2>1
    <2>2. CASE j # i
      <3>1. j - 1 \in i..Len(d) /\ j - 1 # Len(d) /\ (j - 1) + 1 = j
        BY <1>1, <1>5, <2>2
      <3>2. j - 1 \notin late
        <4> HIDE DEF late
        <4> SUFFICES ASSUME j - 1 \in late
                     PROVE  FALSE
          OBVIOUS
        <4>1. j <= j - 1 /\ j \in Nat
          BY <1>2, <1>4, <1>5
        <4> QED
          BY <4>1
      <3>3. ~ (d[(j - 1) + 1].at - d[i].at > ClusterWindow)
        BY <3>1, <3>2
      <3> QED
        BY <1>1, <1>3, <1>5, <3>1, <3>3
    <2> QED
      BY <2>1, <2>2
  <1>7. Ends(j)
    BY <1>4, <1>6
  <1>8. WindowEnd(d, i) = CHOOSE k \in i..Len(d) : Ends(k)
    BY DEF WindowEnd, At
  <1> DEFINE e == WindowEnd(d, i)
  <1>9. e \in i..Len(d) /\ Ends(e)
    <2> HIDE DEF Ends
    <2> QED
      BY <1>5, <1>7, <1>8
  <1> HIDE DEF e
  <1>10. ASSUME NEW k \in i..Len(d)
         PROVE  d[k].at - d[i].at <= ClusterWindow <=> k <= e
    <2>1. k \in 1..Len(d) /\ e \in 1..Len(d) /\ d[k].at \in Nat /\ d[e].at \in Nat /\ d[i].at \in Nat
      BY <1>1, <1>2, <1>9
    <2>2. ASSUME k <= e
          PROVE  d[k].at - d[i].at <= ClusterWindow
      <3>1. d[k].at <= d[e].at
        BY <1>1, <2>1, <2>2
      <3>2. d[e].at - d[i].at <= ClusterWindow
        BY <1>9
      <3>3. \A x, y, z, w \in Nat : y <= z /\ z - x <= w => y - x <= w
        OBVIOUS
      <3> QED
        BY <1>3, <2>1, <3>1, <3>2, <3>3
    <2>3. ASSUME k > e
          PROVE  ~ (d[k].at - d[i].at <= ClusterWindow)
      <3>1. e # Len(d) /\ e + 1 \in 1..Len(d) /\ e + 1 <= k
        BY <1>1, <2>1, <2>3
      <3>2. d[e + 1].at <= d[k].at /\ d[e + 1].at \in Nat
        BY <1>1, <2>1, <3>1
      <3>3. d[e + 1].at - d[i].at > ClusterWindow
        BY <1>9, <3>1
      <3>4. \A x, y, z, w \in Nat : y <= z /\ y - x > w => ~ (z - x <= w)
        OBVIOUS
      <3> QED
        BY <1>3, <2>1, <3>2, <3>3, <3>4
    <2>4. k <= e \/ k > e
      BY <2>1
    <2>5. ~ (k <= e /\ k > e)
      BY <2>1
    <2> QED
      BY <2>2, <2>3, <2>4, <2>5
  <1> QED
    BY <1>9, <1>10 DEF e

(* The clusters of the list from a place on, scanned from behind. *)
Scanning(f, d, n) ==
    LET N == Len(d) IN
    /\ f = [i \in n..N + 1 |-> f[i]] /\ f[N + 1] = {}
    /\ \A i \in n..N : f[i] = IF Full(d, i) THEN {Window(d, i)} \cup f[WindowEnd(d, i) + 1] ELSE f[i + 1]

LEMMA ScanRuns ==
    ASSUME NEW d, NEW s, DatedRight(d, s)
    PROVE  \E f : Scanning(f, d, 1)
  <1> DEFINE N == Len(d)
             bad == {m \in 0..N : ~ \E f : Scanning(f, d, N + 1 - m)}
  <1>0. N \in Nat
    BY DEF DatedRight
  <1> SUFFICES ASSUME bad # {}
               PROVE  FALSE
    <2>1. N \in 0..N /\ N + 1 - N = 1
      BY <1>0
    <2>2. N \notin bad
      OBVIOUS
    <2> QED
      BY <2>1, <2>2
  <1>1. PICK m \in bad : \A l \in bad : m <= l
    <2>1. bad \in SUBSET Nat
      BY <1>0
    <2> HIDE DEF bad
    <2> QED
      BY <2>1, Least
  <1> DEFINE n == N + 1 - m
  <1>2. m \in 0..N /\ m \in Nat /\ n \in 1..N + 1 /\ ~ \E f : Scanning(f, d, n)
    BY <1>0
  <1>3. CASE m = 0
    <2>1. n..N + 1 = {N + 1} /\ n..N = {}
      BY <1>0, <1>3
    <2> DEFINE f == [i \in {N + 1} |-> {}]
    <2>2. f = [i \in n..N + 1 |-> f[i]] /\ f[N + 1] = {}
      BY <2>1
    <2>3. Scanning(f, d, n)
      <3> HIDE DEF f, n
      <3> QED
        BY <2>1, <2>2 DEF Scanning
    <2> QED
      BY <1>2, <2>3
  <1>4. CASE m # 0
    <2>1. m - 1 \in 0..N /\ ~ (m <= m - 1) /\ N + 1 - (m - 1) = n + 1 /\ n \in 1..N /\ n \in Nat
      BY <1>0, <1>2, <1>4
    <2>2. m - 1 \notin bad
      BY <1>1, <2>1
    <2>3. PICK f : Scanning(f, d, n + 1)
      <3>1. \E f : Scanning(f, d, N + 1 - (m - 1))
        BY <2>1, <2>2
      <3> HIDE DEF n
      <3> QED
        BY <2>1, <3>1
    <2> HIDE DEF n
    <2> DEFINE here == IF Full(d, n) THEN {Window(d, n)} \cup f[WindowEnd(d, n) + 1] ELSE f[n + 1]
               g == [i \in n..N + 1 |-> IF i = n THEN here ELSE f[i]]
    <2>4. \A i \in n..N + 1 : g[i] = IF i = n THEN here ELSE f[i]
      OBVIOUS
    <2>5. g = [i \in n..N + 1 |-> g[i]]
      OBVIOUS
    <2>6. \A i \in n..N + 1 : i # n => g[i] = f[i]
      BY <2>4
    <2>7. n \in n..N + 1 /\ N + 1 \in n..N + 1 /\ N + 1 # n
      BY <1>0, <2>1
    <2>8. g[n] = here
      BY <2>4, <2>7
    <2> HIDE DEF g
    <2>9. g[N + 1] = {}
      BY <2>3, <2>6, <2>7 DEF Scanning
    <2>10. ASSUME NEW i \in n..N
           PROVE  g[i] = IF Full(d, i) THEN {Window(d, i)} \cup g[WindowEnd(d, i) + 1] ELSE g[i + 1]
      <3>1. i \in 1..N /\ i \in n..N + 1
        BY <1>0, <2>1
      <3>2. WindowEnd(d, i) \in i..N
        BY <3>1, WindowEnds
      <3>3. /\ WindowEnd(d, i) + 1 \in n..N + 1 /\ WindowEnd(d, i) + 1 # n
            /\ i + 1 \in n..N + 1 /\ i + 1 # n
        BY <1>0, <2>1, <3>1, <3>2
      <3>4. g[WindowEnd(d, i) + 1] = f[WindowEnd(d, i) + 1] /\ g[i + 1] = f[i + 1]
        BY <2>6, <3>3
      <3>5. CASE i = n
        BY <2>8, <3>4, <3>5
      <3>6. CASE i # n
        <4>1. i \in n + 1..N
          BY <1>0, <2>1, <3>6
        <4>2. f[i] = IF Full(d, i) THEN {Window(d, i)} \cup f[WindowEnd(d, i) + 1] ELSE f[i + 1]
          BY <2>3, <4>1 DEF Scanning
        <4>3. g[i] = f[i]
          BY <2>6, <3>1, <3>6
        <4> QED
          BY <3>4, <4>2, <4>3
      <3> QED
        BY <3>5, <3>6
    <2>11. Scanning(g, d, n)
      BY <2>5, <2>9, <2>10 DEF Scanning
    <2> QED
      BY <1>2, <2>11 DEF n
  <1> QED
    BY <1>3, <1>4

LEMMA ClustersScan ==
    ASSUME DatedRight(Dated(events), events)
    PROVE  \E f : Scanning(f, Dated(events), 1) /\ Clusters(events) = f[1]
  <1> DEFINE d == Dated(events)
             N == Len(d)
             Step(g) == [i \in 1..N + 1 |->
                 IF i > N THEN {}
                 ELSE IF Full(d, i) THEN {Window(d, i)} \cup g[NextStart(WindowEnd(d, i))]
                 ELSE g[i + 1]]
             scan == CHOOSE g : g = Step(g)
  <1>1. Clusters(events) = scan[1]
    BY DEF Clusters
  <1>2. DatedRight(d, events)
    OBVIOUS
  <1> HIDE DEF d
  <1>n. N \in Nat /\ N + 1 \in 1..N + 1 /\ N + 1 > N /\ \A i \in 1..N : i \in 1..N + 1 /\ ~ (i > N)
    <2>1. N \in Nat
      BY <1>2 DEF DatedRight
    <2> QED
      BY <2>1
  <1> HIDE DEF N
  <1>3. PICK f : Scanning(f, d, 1)
    BY <1>2, ScanRuns
  <1>4. f = Step(f)
    <2>1. ASSUME NEW i \in 1..N + 1
          PROVE  f[i] = IF i > N THEN {}
                        ELSE IF Full(d, i) THEN {Window(d, i)} \cup f[NextStart(WindowEnd(d, i))]
                        ELSE f[i + 1]
      <3>1. i = N + 1 \/ i \in 1..N
        BY <1>n
      <3>2. CASE i = N + 1
        BY <1>n, <1>3, <3>2 DEF Scanning, N
      <3>3. CASE i \in 1..N
        BY <1>n, <1>3, <3>3 DEF Scanning, NextStart, N
      <3> QED
        BY <3>1, <3>2, <3>3
    <2> QED
      BY <1>3, <2>1 DEF Scanning, N
  <1>5. scan = Step(scan)
    <2> HIDE DEF Step
    <2> QED
      BY <1>4
  <1> HIDE DEF scan
  <1>6. Scanning(scan, d, 1)
    <2>1. \A i \in 1..N + 1 : scan[i] = IF i > N THEN {}
                 ELSE IF Full(d, i) THEN {Window(d, i)} \cup scan[NextStart(WindowEnd(d, i))]
                 ELSE scan[i + 1]
      BY <1>5
    <2>2. scan = [i \in 1..N + 1 |-> scan[i]]
      BY <1>5
    <2>3. scan[N + 1] = {}
      BY <1>n, <2>1
    <2>4. \A i \in 1..N : scan[i] = IF Full(d, i) THEN {Window(d, i)} \cup scan[WindowEnd(d, i) + 1] ELSE scan[i + 1]
      BY <1>n, <2>1 DEF NextStart
    <2> QED
      BY <2>2, <2>3, <2>4 DEF Scanning, N
  <1> QED
    BY <1>1, <1>6 DEF d

(* The clusters from a place on: each is a window, no event is in two, and *)
(* the start of every full window is in one. *)
ScannedRight(d, clusters, i) ==
    /\ \A c \in clusters : \E k \in i..Len(d) : c = Window(d, k)
    /\ \A c, e \in clusters : c # e => c \cap e = {}
    /\ \A k \in i..Len(d) : Full(d, k) => d[k].id \in UNION clusters

LEMMA ScanKeepsRight ==
    ASSUME NEW d, NEW s, DatedRight(d, s), NEW i \in 1..Len(d), NEW clusters
    PROVE  /\ ~ Full(d, i) /\ ScannedRight(d, clusters, i + 1) => ScannedRight(d, clusters, i)
           /\ Full(d, i) /\ ScannedRight(d, clusters, WindowEnd(d, i) + 1)
              => ScannedRight(d, {Window(d, i)} \cup clusters, i)
  <1> DEFINE e == WindowEnd(d, i)
  <1>1. /\ Len(d) \in Nat
        /\ \A k, l \in 1..Len(d) : d[k].id = d[l].id => k = l
    BY DEF DatedRight
  <1>2. e \in i..Len(d)
    BY WindowEnds
  <1>3. \A k \in 1..Len(d) : \A x : x \in Window(d, k) <=> \E m \in k..WindowEnd(d, k) : x = d[m].id
    BY DEF Window
  <1>4. ASSUME ~ Full(d, i), ScannedRight(d, clusters, i + 1)
        PROVE  ScannedRight(d, clusters, i)
    <2>1. \A k : k \in i..Len(d) <=> k = i \/ k \in i + 1..Len(d)
      BY <1>1
    <2> QED
      BY <1>4, <2>1 DEF ScannedRight
  <1>5. ASSUME Full(d, i), ScannedRight(d, clusters, e + 1)
        PROVE  ScannedRight(d, {Window(d, i)} \cup clusters, i)
    <2> HIDE DEF e
    <2>1. /\ i \in i..Len(d) /\ e + 1..Len(d) \subseteq i..Len(d)
          /\ \A k \in i..Len(d) : k \in i..e \/ k \in e + 1..Len(d)
      BY <1>1, <1>2
    <2>2. \A c \in {Window(d, i)} \cup clusters : \E k \in i..Len(d) : c = Window(d, k)
      BY <1>5, <2>1 DEF ScannedRight
    <2>3. ASSUME NEW c \in clusters
          PROVE  Window(d, i) \cap c = {}
      <3>1. PICK k \in e + 1..Len(d) : c = Window(d, k)
        BY <1>5 DEF ScannedRight
      <3> SUFFICES ASSUME NEW x \in Window(d, i), x \in Window(d, k)
                   PROVE  FALSE
        BY <3>1
      <3>2. k \in 1..Len(d) /\ WindowEnd(d, k) \in k..Len(d)
        <4>1. k \in 1..Len(d)
          BY <1>1, <1>2
        <4> QED
          BY <4>1, WindowEnds
      <3>3. PICK m \in i..e : x = d[m].id
        BY <1>3 DEF e
      <3>4. PICK l \in k..WindowEnd(d, k) : x = d[l].id
        BY <1>3, <3>2
      <3>5. m \in 1..Len(d) /\ l \in 1..Len(d) /\ m # l
        BY <1>1, <1>2, <3>2
      <3> QED
        BY <1>1, <3>3, <3>4, <3>5
    <2>4. \A c, f \in {Window(d, i)} \cup clusters : c # f => c \cap f = {}
      BY <1>5, <2>3 DEF ScannedRight
    <2>5. ASSUME NEW k \in i..Len(d), Full(d, k)
          PROVE  d[k].id \in UNION ({Window(d, i)} \cup clusters)
      <3>1. CASE k \in i..e
        <4>1. d[k].id \in Window(d, i)
          BY <1>3, <3>1 DEF e
        <4> QED
          BY <4>1
      <3>2. CASE k \in e + 1..Len(d)
        <4>1. d[k].id \in UNION clusters
          BY <1>5, <2>5, <3>2 DEF ScannedRight
        <4> QED
          BY <4>1
      <3> QED
        BY <2>1, <3>1, <3>2
    <2> QED
      BY <2>2, <2>4, <2>5 DEF ScannedRight
  <1> QED
    BY <1>4, <1>5

LEMMA ScanRight ==
    ASSUME NEW d, NEW s, DatedRight(d, s), NEW f, Scanning(f, d, 1)
    PROVE  ScannedRight(d, f[1], 1)
  <1> DEFINE N == Len(d)
             bad == {m \in 0..N : ~ \A l \in 0..m : ScannedRight(d, f[N + 1 - l], N + 1 - l)}
  <1>0. N \in Nat
    BY DEF DatedRight
  <1> SUFFICES ASSUME bad # {}
               PROVE  FALSE
    <2>1. N \in 0..N /\ N + 1 - N = 1
      BY <1>0
    <2>2. N \notin bad
      OBVIOUS
    <2>3. \A l \in 0..N : ScannedRight(d, f[N + 1 - l], N + 1 - l)
      BY <2>1, <2>2
    <2>4. ScannedRight(d, f[N + 1 - N], N + 1 - N)
      BY <2>1, <2>3
    <2> HIDE DEF N
    <2> QED
      BY <2>1, <2>4
  <1>1. PICK m \in bad : \A l \in bad : m <= l
    <2>1. bad \in SUBSET Nat
      BY <1>0
    <2> HIDE DEF bad
    <2> QED
      BY <2>1, Least
  <1>2. m \in 0..N /\ m \in Nat /\ ~ \A l \in 0..m : ScannedRight(d, f[N + 1 - l], N + 1 - l)
    BY <1>0
  <1> DEFINE i == N + 1 - m
  <1>3. \A l \in 0..m - 1 : ScannedRight(d, f[N + 1 - l], N + 1 - l)
    <2>1. CASE m = 0
      BY <2>1
    <2>2. CASE m # 0
      <3>1. m - 1 \in 0..N /\ ~ (m <= m - 1)
        BY <1>0, <1>2, <2>2
      <3>2. m - 1 \notin bad
        BY <1>1, <3>1
      <3> QED
        BY <3>1, <3>2
    <2> QED
      BY <2>1, <2>2
  <1> HIDE DEF bad
  <1>4. \A k \in i + 1..N + 1 : ScannedRight(d, f[k], k)
    <2> TAKE k \in i + 1..N + 1
    <2>1. N + 1 - k \in 0..m - 1 /\ N + 1 - (N + 1 - k) = k
      BY <1>0, <1>2
    <2>2. ScannedRight(d, f[N + 1 - (N + 1 - k)], N + 1 - (N + 1 - k))
      BY <1>3, <2>1
    <2> QED
      BY <2>1, <2>2
  <1>5. ScannedRight(d, f[i], i)
    <2>1. CASE m = 0
      <3>1. i = N + 1
        BY <1>0, <2>1
      <3>2. f[N + 1] = {}
        BY DEF Scanning
      <3>3. \A k : k \notin N + 1..N
        BY <1>0
      <3> HIDE DEF i
      <3> QED
        BY <3>1, <3>2, <3>3 DEF ScannedRight
    <2>2. CASE m # 0
      <3>1. i \in 1..N /\ i + 1 \in i + 1..N + 1
        BY <1>0, <1>2, <2>2
      <3> HIDE DEF i
      <3>2. f[i] = IF Full(d, i) THEN {Window(d, i)} \cup f[WindowEnd(d, i) + 1] ELSE f[i + 1]
        BY <3>1 DEF Scanning
      <3>3. WindowEnd(d, i) \in i..N
        BY <3>1, WindowEnds
      <3>4. WindowEnd(d, i) + 1 \in i + 1..N + 1
        BY <1>0, <3>1, <3>3
      <3>5. CASE Full(d, i)
        <4>1. ScannedRight(d, f[WindowEnd(d, i) + 1], WindowEnd(d, i) + 1)
          BY <1>4, <3>4
        <4> QED
          BY <3>1, <3>2, <3>5, <4>1, ScanKeepsRight
      <3>6. CASE ~ Full(d, i)
        <4>1. ScannedRight(d, f[i + 1], i + 1)
          BY <1>4, <3>1
        <4> QED
          BY <3>1, <3>2, <3>6, <4>1, ScanKeepsRight
      <3> QED
        BY <3>5, <3>6
    <2> QED
      BY <2>1, <2>2
  <1>6. \A l \in 0..m : ScannedRight(d, f[N + 1 - l], N + 1 - l)
    <2> TAKE l \in 0..m
    <2>1. l \in 0..m - 1 \/ l = m
      BY <1>2
    <2> QED
      BY <1>3, <1>5, <2>1
  <1> QED
    BY <1>2, <1>6

(* No burst escapes the clusters, and they are windows that do not meet. *)
LEMMA AllBursts == EventsInv => BurstsFound(Analysis(events))
  <1> SUFFICES ASSUME EventsInv
               PROVE  BurstsFound(Analysis(events))
    OBVIOUS
  <1> DEFINE d == Dated(events)
             clusters == Clusters(events)
             N == Len(d)
  <1>1. DatedRight(d, events)
    BY DatedIs DEF EventsInv
  <1>2. ScannedRight(d, clusters, 1)
    <2>1. PICK f : Scanning(f, d, 1) /\ clusters = f[1]
      BY <1>1, ClustersScan
    <2> HIDE DEF d, clusters
    <2> QED
      BY <1>1, <2>1, ScanRight
  <1>3. Analysis(events).clusters = clusters
    BY DEF Analysis
  <1> HIDE DEF d, clusters
  <1>4. /\ N \in Nat /\ \A k \in 1..N : d[k].at \in Nat
        /\ \A k, l \in 1..N : d[k].id = d[l].id => k = l
    BY <1>1 DEF DatedRight
  <1>5. ClusterWindow \in Nat /\ ClusterMinEvents \in Nat \ {0}
    BY AnalysisAssumption
  <1>6. /\ \A k \in 1..N : d[k].id \in DatedIds
        /\ \A id \in DatedIds : \E k \in 1..N : d[k].id = id
    BY <1>1, EventsAre
  <1>7. ASSUME NEW k \in 1..N
        PROVE  /\ WindowEnd(d, k) \in k..N
               /\ \A l \in k..N : d[l].at - d[k].at <= ClusterWindow <=> l <= WindowEnd(d, k)
    BY <1>1, WindowEnds
  <1> HIDE DEF N
  <1>8. ASSUME NEW burst \in SUBSET DatedIds, Cardinality(burst) = ClusterMinEvents,
               \A a, b \in burst : Distance(a, b) <= ClusterWindow
        PROVE  burst \cap UNION clusters # {}
    <2> DEFINE P == {k \in 1..N : d[k].id \in burst}
               id == [k \in P |-> d[k].id]
    <2>1. IsFiniteSet(P) /\ P \subseteq 1..N /\ P \in SUBSET Nat
      <3>1. IsFiniteSet(1..N)
        BY <1>4, FS_Interval
      <3>2. P \subseteq 1..N /\ 1..N \subseteq Nat
        BY <1>4
      <3> QED
        BY <3>1, <3>2, FS_Subset
    <2>2. id \in Surjection(P, burst)
      <3>1. \A b \in burst : \E k \in P : id[k] = b
        BY <1>6
      <3> QED
        BY <3>1 DEF Surjection
    <2>3. IsFiniteSet(burst) /\ Cardinality(burst) <= Cardinality(P) /\ Cardinality(P) \in Nat
      <3> HIDE DEF P, id
      <3> QED
        BY <2>1, <2>2, FS_Surjection, FS_CardinalityType
    <2>4. P # {}
      <3> SUFFICES ASSUME P = {}
                   PROVE  FALSE
        OBVIOUS
      <3>1. Cardinality(P) = 0
        <4> HIDE DEF P
        <4> QED
          BY FS_EmptySet
      <3> HIDE DEF P
      <3> QED
        BY <1>5, <1>8, <2>3, <3>1
    <2>5. PICK i \in P : \A k \in P : i <= k
      <3> HIDE DEF P
      <3> QED
        BY <2>1, <2>4, Least
    <2>6. i \in 1..N /\ d[i].id \in burst
      OBVIOUS
    <2> DEFINE e == WindowEnd(d, i)
    <2>7. ASSUME NEW k \in P
          PROVE  k \in i..e
      <3>1. k \in 1..N /\ d[k].id \in burst /\ i <= k /\ k \in i..N
        BY <1>4, <2>5, <2>6
      <3>2. Distance(d[i].id, d[k].id) = d[k].at - d[i].at
        BY <1>1, <2>6, <3>1, DistanceIs DEF N
      <3>3. d[k].at - d[i].at <= ClusterWindow
        <4>1. Distance(d[i].id, d[k].id) <= ClusterWindow
          BY <1>8, <2>6, <3>1
        <4> QED
          BY <3>2, <4>1
      <3>4. k <= e
        BY <1>7, <2>6, <3>1, <3>3
      <3> HIDE DEF e
      <3>5. e \in Int
        BY <1>4, <1>7, <2>6 DEF e
      <3> QED
        BY <3>1, <3>4, <3>5
    <2>8. e \in i..N
      BY <1>7, <2>6
    <2> HIDE DEF P, e
    <2>9. Cardinality(P) <= e - i + 1
      <3>1. IsFiniteSet(i..e) /\ Cardinality(i..e) = e - i + 1
        <4>1. i \in Int /\ e \in Int /\ ~ (i > e)
          BY <1>4, <2>6, <2>8
        <4> QED
          BY <4>1, FS_Interval
      <3>2. P \subseteq i..e
        BY <2>7
      <3> QED
        BY <3>1, <3>2, FS_Subset
    <2>10. Full(d, i)
      <3>1. e \in Int /\ i \in Int
        BY <1>4, <2>6, <2>8
      <3>2. e - i + 1 >= ClusterMinEvents
        BY <1>5, <1>8, <2>3, <2>9, <3>1
      <3> QED
        BY <3>2 DEF Full, e
    <2>11. d[i].id \in UNION clusters
      <3>1. i \in 1..Len(d)
        BY <2>6 DEF N
      <3> QED
        BY <1>2, <2>10, <3>1 DEF ScannedRight
    <2> QED
      BY <2>6, <2>11
  <1>9. ASSUME NEW c \in clusters, NEW a \in c, NEW b \in c
        PROVE  Distance(a, b) <= ClusterWindow
    <2>1. PICK k \in 1..N : c = Window(d, k)
      BY <1>2 DEF ScannedRight, N
    <2>2. PICK m \in k..WindowEnd(d, k) : a = d[m].id
      BY <2>1 DEF Window
    <2>3. PICK l \in k..WindowEnd(d, k) : b = d[l].id
      BY <2>1 DEF Window
    <2>4. WindowEnd(d, k) \in k..N
      BY <1>7
    <2>5. m \in 1..N /\ l \in 1..N /\ m \in k..N /\ l \in k..N /\ m <= WindowEnd(d, k) /\ l <= WindowEnd(d, k)
      BY <1>4, <2>4
    <2>6. d[m].at - d[k].at <= ClusterWindow /\ d[l].at - d[k].at <= ClusterWindow
      BY <1>7, <2>5
    <2>7. d[k].at <= d[m].at /\ d[k].at <= d[l].at
      <3>1. k <= m /\ k <= l /\ k \in 1..Len(d) /\ m \in 1..Len(d) /\ l \in 1..Len(d)
        BY <1>4, <2>5 DEF N
      <3> QED
        BY <1>1, <3>1 DEF DatedRight
    <2>8. \A x, y, z, w \in Nat : x <= y /\ x <= z /\ y - x <= w /\ z - x <= w => y - z <= w /\ z - y <= w
      OBVIOUS
    <2>9. d[m].at - d[l].at <= ClusterWindow /\ d[l].at - d[m].at <= ClusterWindow
      <3>1. d[k].at \in Nat /\ d[m].at \in Nat /\ d[l].at \in Nat
        BY <1>4, <2>5
      <3> QED
        BY <1>5, <2>6, <2>7, <2>8, <3>1
    <2>10. Distance(a, b) = d[l].at - d[m].at \/ Distance(a, b) = d[m].at - d[l].at
      <3>1. m <= l \/ l <= m
        BY <1>4, <2>5
      <3> QED
        BY <1>1, <2>2, <2>3, <2>5, <3>1, DistanceIs DEF N
    <2> QED
      BY <2>9, <2>10
  <1>10. \A c, e \in clusters : c # e => c \cap e = {}
    BY <1>2 DEF ScannedRight
  <1>11. \A burst \in kSubset(ClusterMinEvents, DatedIds) :
            (\A a, b \in burst : Distance(a, b) <= ClusterWindow) => burst \cap UNION clusters # {}
    BY <1>8 DEF kSubset
  <1> QED
    BY <1>3, <1>9, <1>10, <1>11 DEF BurstsFound

(* The figures by type and by group are those of the events. *)
LEMMA AllCounted == EventsInv => NothingLost(Analysis(events))
  <1> SUFFICES ASSUME EventsInv
               PROVE  NothingLost(Analysis(events))
    OBVIOUS
  <1> DEFINE n == Len(events)
             D == DOMAIN events
  <1>1. /\ n \in Nat /\ D = 1..n /\ \A i \in D : events[i] \in Event
        /\ \A i, j \in D : events[i].id = events[j].id => i = j
    <2>1. events \in Seq(Event) /\ Distinct(events)
      BY DEF EventsInv
    <2> HIDE DEF Event
    <2>2. n \in Nat /\ D = 1..n /\ events \in [1..n -> Event]
      BY <2>1, LenProperties
    <2>3. \A i \in D : events[i] \in Event
      BY <2>2
    <2>4. \A i, j \in D : events[i].id = events[j].id => i = j
      BY <2>1 DEF Distinct
    <2> QED
      BY <2>2, <2>3, <2>4
  <1>2. IsFiniteSet(D) /\ Cardinality(D) = n
    <2>1. IsFiniteSet(1..n) /\ Cardinality(1..n) = n
      BY <1>1, FS_Interval
    <2> QED
      BY <1>1, <2>1
  <1>3. \A i \in D : events[i].type \in Types /\ events[i].id \in Ids(events)
    <2>1. \A e \in Event : e.type \in Types
      BY DEF Event
    <2> QED
      BY <1>1, <2>1 DEF Ids
  <1>4. DatedRight(Dated(events), events)
    BY DatedIs DEF EventsInv
  <1>5. \A i \in D : EventOf(events[i].id) = events[i]
    BY <1>4, EventsAre
  <1>6. \A id : id \in Ids(events) <=> \E i \in D : id = events[i].id
    BY DEF Ids
  <1>s. /\ Stats(events).total = n
        /\ Stats(events).undated = Cardinality({i \in D : events[i].at = Undated})
        /\ Stats(events).by_type = [t \in Types |-> Cardinality({i \in D : events[i].type = t})]
    BY DEF Stats, Count
  <1> HIDE DEF n, D
  <1>7. LET strokes == UNION {{t} \X (1..Stats(events).by_type[t]) : t \in Types}
        IN Cardinality(strokes) = n
    <2> DEFINE size == Stats(events).by_type
               counted == [t \in Types |-> {i \in D : events[i].type = t}]
               Q == {p \in Types \X D : p[2] \in counted[p[1]]}
               f == [i \in D |-> <<events[i].type, i>>]
    <2>1. \A t \in Types : counted[t] \subseteq D /\ size[t] = Cardinality(counted[t])
      BY <1>s
    <2>2. IsFiniteSet(Types)
      BY AnalysisAssumption
    <2>3. Cardinality(UNION {{t} \X (1..size[t]) : t \in Types}) = Cardinality(Q)
      <3> HIDE DEF size, counted
      <3> QED
        BY <1>2, <2>1, <2>2, StrokesMatch
    <2>4. \A p : p \in Q <=> p \in Types \X D /\ events[p[2]].type = p[1]
      <3>1. \A p \in Types \X D : p[1] \in Types /\ p[2] \in D
        OBVIOUS
      <3>2. \A t \in Types : \A i : i \in counted[t] <=> i \in D /\ events[i].type = t
        OBVIOUS
      <3>3. \A p : p \in Q <=> p \in Types \X D /\ p[2] \in counted[p[1]]
        OBVIOUS
      <3> HIDE DEF Q, counted
      <3> QED
        BY <3>1, <3>2, <3>3
    <2> HIDE DEF Q
    <2>5. \A i \in D : f[i] = <<events[i].type, i>> /\ f[i] \in Q
      BY <1>3, <2>4
    <2>6. f \in [D -> Q]
      BY <2>5
    <2>7. \A i, j \in D : f[i] = f[j] => i = j
      BY <2>5
    <2>8. \A q \in Q : \E i \in D : f[i] = q
      <3> TAKE q \in Q
      <3>1. q = <<q[1], q[2]>> /\ q[2] \in D /\ events[q[2]].type = q[1]
        BY <2>4
      <3> QED
        BY <2>5, <3>1
    <2> HIDE DEF f
    <2>9. f \in Bijection(D, Q)
      BY <2>6, <2>7, <2>8, Fun_IsBij
    <2>10. Cardinality(Q) = n
      BY <1>2, <2>9, FS_Bijection DEF ExistsBijection
    <2> QED
      BY <2>3, <2>10 DEF size
  <1>8. Stats(events).undated = n - Cardinality(DatedIds)
    <2> DEFINE U == {i \in D : events[i].at = Undated}
               V == D \ U
               f == [i \in V |-> events[i].id]
    <2>1. IsFiniteSet(V) /\ Cardinality(V) = n - Cardinality(U)
      <3>1. Cardinality(D \ U) = Cardinality(D) - Cardinality(D \cap U) /\ IsFiniteSet(D \ U)
        <4> HIDE DEF U
        <4> QED
          BY <1>2, FS_Difference
      <3>2. D \cap U = U
        OBVIOUS
      <3> QED
        BY <1>2, <3>1, <3>2
    <2>2. \A i \in V : i \in D /\ events[i].at # Undated /\ f[i] = events[i].id /\ f[i] \in DatedIds
      <3> TAKE i \in V
      <3>1. i \in D /\ events[i].at # Undated
        OBVIOUS
      <3>2. events[i].id \in DatedIds
        BY <1>3, <1>5, <3>1 DEF DatedIds
      <3> QED
        BY <3>1, <3>2
    <2>3. f \in [V -> DatedIds]
      BY <2>2
    <2>4. \A i, j \in V : f[i] = f[j] => i = j
      BY <1>1, <2>2
    <2>5. \A id \in DatedIds : \E i \in V : f[i] = id
      <3> TAKE id \in DatedIds
      <3>1. PICK i \in D : id = events[i].id
        BY <1>6 DEF DatedIds
      <3>2. events[i].at # Undated
        BY <1>5, <3>1 DEF DatedIds
      <3>3. i \in V
        BY <3>2
      <3> QED
        BY <2>2, <3>1, <3>3
    <2> HIDE DEF f
    <2>6. f \in Bijection(V, DatedIds)
      <3> HIDE DEF V
      <3> QED
        BY <2>3, <2>4, <2>5, Fun_IsBij
    <2>7. Cardinality(DatedIds) = Cardinality(V)
      <3> HIDE DEF V
      <3> QED
        BY <2>1, <2>6, FS_Bijection DEF ExistsBijection
    <2>8. IsFiniteSet(U)
      <3> HIDE DEF D
      <3>1. U \subseteq D
        OBVIOUS
      <3> QED
        BY <1>2, <3>1, FS_Subset
    <2>9. Cardinality(U) \in Nat
      BY <2>8, FS_CardinalityType
    <2>10. Stats(events).undated = Cardinality(U)
      BY <1>s
    <2> HIDE DEF U, V
    <2> QED
      BY <1>1, <2>1, <2>7, <2>9, <2>10 DEF n
  <1> DEFINE members(cat) == {events[i].id : i \in {j \in D : CategoryOf[events[j].type] = cat}}
             groups == Groups(events)
  <1>9. groups = {members(CategoryOf[events[i].type]) : i \in D}
    BY DEF Groups, D
  <1> HIDE DEF groups
  <1>10. \A cat : \A id : id \in members(cat) <=> \E i \in D : id = events[i].id /\ CategoryOf[events[i].type] = cat
    OBVIOUS
  <1> HIDE DEF members
  <1>11. UNION groups = Ids(events)
    <2>1. \A id \in UNION groups : id \in Ids(events)
      BY <1>6, <1>9, <1>10
    <2>2. \A id \in Ids(events) : id \in UNION groups
      <3> TAKE id \in Ids(events)
      <3>1. PICK i \in D : id = events[i].id
        BY <1>6
      <3>2. id \in members(CategoryOf[events[i].type])
        BY <1>10, <3>1
      <3> QED
        BY <1>9, <3>2
    <2> QED
      BY <2>1, <2>2
  <1>12. ASSUME NEW g \in groups, NEW h \in groups, g # h
         PROVE  g \cap h = {}
    <2>1. PICK i \in D : g = members(CategoryOf[events[i].type])
      BY <1>9
    <2>2. PICK j \in D : h = members(CategoryOf[events[j].type])
      BY <1>9
    <2> SUFFICES ASSUME NEW id \in g, id \in h
                 PROVE  FALSE
      OBVIOUS
    <2>3. PICK k \in D : id = events[k].id /\ CategoryOf[events[k].type] = CategoryOf[events[i].type]
      BY <1>10, <2>1
    <2>4. PICK l \in D : id = events[l].id /\ CategoryOf[events[l].type] = CategoryOf[events[j].type]
      BY <1>10, <2>2
    <2>5. k = l
      BY <1>1, <2>3, <2>4 DEF D
    <2> QED
      BY <1>12, <2>1, <2>2, <2>3, <2>4, <2>5
  <1>13. Analysis(events).groups = groups
    BY DEF Analysis, groups
  <1> QED
    BY <1>s, <1>7, <1>8, <1>11, <1>12, <1>13 DEF NothingLost

(* What the detectors find is what the events say. *)
LEMMA DetectorsFindAll == EventsInv => DetectorsFind
  BY AllSilences, AllBursts, AllDuplicates, AllCounted DEF DetectorsFind

(***************************************************************************)
(* The events stay a list of different ones.                               *)
(***************************************************************************)

LEMMA RecordKeeps ==
    ASSUME EventsInv, NEW e \in Event, Record(e)
    PROVE  EventsInv'
  <1> DEFINE n == Len(events)
  <1>1. /\ n \in Nat /\ DOMAIN events = 1..n /\ \A j \in 1..n : events[j] \in Event
        /\ events \in Seq(Event) /\ Distinct(events)
    <2>1. events \in Seq(Event) /\ Distinct(events)
      BY DEF EventsInv
    <2> HIDE DEF Event
    <2> QED
      BY <2>1
  <1>2. PICK i \in 1..n + 1 : events' = SubSeq(events, 1, i - 1) \o <<e>> \o SubSeq(events, i, n)
    BY DEF Record, InsertAt
  <1>3. \A j \in 1..n : events[j].id # e.id
    BY <1>1 DEF Record, Ids
  <1> HIDE DEF n, Event
  <1> DEFINE before == SubSeq(events, 1, i - 1)
             behind == SubSeq(events, i, n)
  <1>4. /\ i \in Int /\ n \in Int /\ i - 1 \in Int
        /\ \A j \in 1..i - 1 : events[j] \in Event
        /\ \A j \in i..n : events[j] \in Event
    BY <1>1, <1>2
  <1>5. /\ before \in Seq(Event) /\ Len(before) = i - 1
        /\ \A j \in 1..i - 1 : before[j] = events[j]
    <2>1. /\ before \in Seq(Event)
          /\ Len(before) = IF 1 <= i - 1 THEN i - 1 - 1 + 1 ELSE 0
          /\ \A j \in 1..i - 1 - 1 + 1 : before[j] = events[1 + j - 1]
      BY <1>4, SubSeqProperties
    <2>2. /\ i - 1 - 1 + 1 = i - 1 /\ \A j \in 1..i - 1 : 1 + j - 1 = j
          /\ i \in 1..n + 1
      BY <1>4, <1>2
    <2> HIDE DEF before
    <2> QED
      BY <1>1, <2>1, <2>2
  <1>6. /\ behind \in Seq(Event) /\ Len(behind) = n + 1 - i
        /\ \A j \in 1..n + 1 - i : behind[j] = events[i + j - 1]
    <2>1. /\ behind \in Seq(Event)
          /\ Len(behind) = IF i <= n THEN n - i + 1 ELSE 0
          /\ \A j \in 1..n - i + 1 : behind[j] = events[i + j - 1]
      BY <1>4, SubSeqProperties
    <2>2. n - i + 1 = n + 1 - i /\ i \in 1..n + 1
      BY <1>4, <1>2
    <2> HIDE DEF behind
    <2> QED
      BY <1>1, <2>1, <2>2
  <1> HIDE DEF before, behind
  <1>7. <<e>> \in Seq(Event) /\ Len(<<e>>) = 1 /\ <<e>>[1] = e
    OBVIOUS
  <1> DEFINE front == before \o <<e>>
  <1>8. /\ front \in Seq(Event) /\ Len(front) = i
        /\ \A j \in 1..i : front[j] = IF j <= i - 1 THEN events[j] ELSE e
    <2>1. /\ front \in Seq(Event) /\ Len(front) = Len(before) + Len(<<e>>)
          /\ \A j \in 1..Len(before) + Len(<<e>>) :
                front[j] = IF j <= Len(before) THEN before[j] ELSE <<e>>[j - Len(before)]
      BY <1>5, <1>7, ConcatProperties
    <2> HIDE DEF front
    <2>2. Len(before) + Len(<<e>>) = i
      BY <1>4, <1>5, <1>7
    <2>3. ASSUME NEW j \in 1..i
          PROVE  front[j] = IF j <= i - 1 THEN events[j] ELSE e
      <3>1. front[j] = IF j <= i - 1 THEN before[j] ELSE <<e>>[j - (i - 1)]
        BY <1>5, <2>1, <2>2
      <3>2. CASE j <= i - 1
        BY <1>4, <1>5, <3>1, <3>2
      <3>3. CASE ~ (j <= i - 1)
        <4>1. j - (i - 1) = 1
          BY <1>4, <3>3
        <4> QED
          BY <1>7, <3>1, <3>3, <4>1
      <3> QED
        BY <3>2, <3>3
    <2> QED
      BY <2>1, <2>2, <2>3
  <1>9. events' = front \o behind
    BY <1>2 DEF before, behind
  <1> HIDE DEF front
  <1>10. /\ events' \in Seq(Event) /\ Len(events') = i + (n + 1 - i)
         /\ \A j \in 1..i + (n + 1 - i) :
               events'[j] = IF j <= i THEN front[j] ELSE behind[j - i]
    BY <1>6, <1>8, <1>9, ConcatProperties
  <1>11. i + (n + 1 - i) = n + 1
    BY <1>4
  <1>12. DOMAIN events' = 1..n + 1
    BY <1>10, <1>11, LenProperties
  <1>13. ASSUME NEW j \in 1..n + 1
         PROVE  \/ j < i /\ events'[j] = events[j] /\ j \in 1..n
                \/ j = i /\ events'[j] = e
                \/ j > i /\ events'[j] = events[j - 1] /\ j - 1 \in 1..n
    <2>1. events'[j] = IF j <= i THEN front[j] ELSE behind[j - i]
      BY <1>10, <1>11
    <2>2. CASE j < i
      <3>1. j <= i /\ j <= i - 1 /\ j \in 1..i /\ j \in 1..n
        BY <1>1, <1>2, <2>2
      <3> QED
        BY <1>8, <2>1, <2>2, <3>1
    <2>3. CASE j = i
      <3>1. j <= i /\ ~ (j <= i - 1) /\ j \in 1..i
        BY <1>4, <2>3
      <3> QED
        BY <1>8, <2>1, <2>3, <3>1
    <2>4. CASE j > i
      <3>1. ~ (j <= i) /\ j - i \in 1..n + 1 - i /\ i + (j - i) - 1 = j - 1 /\ j - 1 \in 1..n
        BY <1>1, <1>2, <2>4
      <3>2. behind[j - i] = events[i + (j - i) - 1]
        BY <1>6, <3>1
      <3> QED
        BY <2>1, <2>4, <3>1, <3>2
    <2>5. j < i \/ j = i \/ j > i
      BY <1>4
    <2> QED
      BY <2>2, <2>3, <2>4, <2>5
  <1>14. \A j, k \in 1..n : events[j].id = events[k].id => j = k
    BY <1>1 DEF Distinct
  <1>15. ASSUME NEW j \in 1..n + 1, NEW k \in 1..n + 1, events'[j].id = events'[k].id, j < k
         PROVE  FALSE
    <2>1. j \in Int /\ k \in Int /\ j < k
      BY <1>15
    <2>2. CASE k < i
      <3>1. /\ events'[j] = events[j] /\ j \in 1..n /\ events'[k] = events[k] /\ k \in 1..n
        BY <1>4, <1>13, <2>1, <2>2
      <3> QED
        BY <1>14, <1>15, <2>1, <3>1
    <2>3. CASE k = i
      <3>1. events'[j] = events[j] /\ j \in 1..n /\ events'[k] = e
        BY <1>4, <1>13, <2>1, <2>3
      <3> QED
        BY <1>3, <1>15, <3>1
    <2>4. CASE k > i
      <3>1. events'[k] = events[k - 1] /\ k - 1 \in 1..n
        BY <1>4, <1>13, <2>1, <2>4
      <3>2. CASE j < i
        <4>1. events'[j] = events[j] /\ j \in 1..n
          BY <1>4, <1>13, <2>1, <3>2
        <4>2. j = k - 1
          BY <1>14, <1>15, <3>1, <4>1
        <4> QED
          BY <1>4, <2>1, <2>4, <3>2, <4>2
      <3>3. CASE j = i
        <4>1. events'[j] = e
          BY <1>4, <1>13, <2>1, <3>3
        <4> QED
          BY <1>3, <1>15, <3>1, <4>1
      <3>4. CASE j > i
        <4>1. events'[j] = events[j - 1] /\ j - 1 \in 1..n
          BY <1>4, <1>13, <2>1, <3>4
        <4>2. j - 1 = k - 1
          BY <1>14, <1>15, <3>1, <4>1
        <4> QED
          BY <2>1, <4>2
      <3> QED
        BY <1>4, <2>1, <3>2, <3>3, <3>4
    <2> QED
      BY <1>4, <2>1, <2>2, <2>3, <2>4
  <1>16. Distinct(events')
    <2>1. ASSUME NEW j \in 1..n + 1, NEW k \in 1..n + 1, events'[j].id = events'[k].id
          PROVE  j = k
      <3>1. ~ (j < k) /\ ~ (k < j)
        BY <1>15, <2>1
      <3> QED
        BY <1>1, <3>1
    <2> QED
      BY <1>12, <2>1 DEF Distinct
  <1> QED
    BY <1>10, <1>16 DEF EventsInv, Distinct

LEMMA DropKeeps ==
    ASSUME EventsInv, NEW i \in DOMAIN events, Drop(i)
    PROVE  EventsInv'
  <1> DEFINE n == Len(events)
             before == SubSeq(events, 1, i - 1)
             behind == SubSeq(events, i + 1, n)
  <1>1. /\ n \in Nat /\ DOMAIN events = 1..n /\ i \in 1..n /\ \A j \in 1..n : events[j] \in Event
        /\ events \in Seq(Event)
        /\ \A j, k \in 1..n : events[j].id = events[k].id => j = k
    <2>1. events \in Seq(Event) /\ Distinct(events)
      BY DEF EventsInv
    <2> HIDE DEF Event
    <2>2. n \in Nat /\ DOMAIN events = 1..n /\ \A j \in 1..n : events[j] \in Event
      BY <2>1
    <2> QED
      BY <2>1, <2>2 DEF Distinct
  <1>2. events' = before \o behind
    BY DEF Drop, RemoveAt
  <1> HIDE DEF n, Event
  <1>3. /\ i \in Int /\ n \in Int /\ i - 1 \in Int /\ i + 1 \in Int
        /\ \A j \in 1..i - 1 : events[j] \in Event
        /\ \A j \in i + 1..n : events[j] \in Event
    BY <1>1
  <1>4. /\ before \in Seq(Event) /\ Len(before) = i - 1
        /\ \A j \in 1..i - 1 : before[j] = events[j]
    <2>1. /\ before \in Seq(Event)
          /\ Len(before) = IF 1 <= i - 1 THEN i - 1 - 1 + 1 ELSE 0
          /\ \A j \in 1..i - 1 - 1 + 1 : before[j] = events[1 + j - 1]
      BY <1>3, SubSeqProperties
    <2>2. i - 1 - 1 + 1 = i - 1 /\ \A j \in 1..i - 1 : 1 + j - 1 = j
      BY <1>3
    <2> HIDE DEF before
    <2> QED
      BY <1>1, <2>1, <2>2
  <1>5. /\ behind \in Seq(Event) /\ Len(behind) = n - i
        /\ \A j \in 1..n - i : behind[j] = events[i + j]
    <2>1. /\ behind \in Seq(Event)
          /\ Len(behind) = IF i + 1 <= n THEN n - (i + 1) + 1 ELSE 0
          /\ \A j \in 1..n - (i + 1) + 1 : behind[j] = events[(i + 1) + j - 1]
      BY <1>3, SubSeqProperties
    <2>2. n - (i + 1) + 1 = n - i /\ \A j \in 1..n - i : (i + 1) + j - 1 = i + j
      BY <1>3
    <2> HIDE DEF behind
    <2> QED
      BY <1>1, <2>1, <2>2
  <1> HIDE DEF before, behind
  <1>6. /\ events' \in Seq(Event) /\ Len(events') = (i - 1) + (n - i)
        /\ \A j \in 1..(i - 1) + (n - i) :
              events'[j] = IF j <= i - 1 THEN before[j] ELSE behind[j - (i - 1)]
    BY <1>2, <1>4, <1>5, ConcatProperties
  <1>7. (i - 1) + (n - i) = n - 1
    BY <1>3
  <1>8. DOMAIN events' = 1..n - 1
    BY <1>6, <1>7, LenProperties
  <1>9. ASSUME NEW j \in 1..n - 1
        PROVE  \/ j < i /\ events'[j] = events[j] /\ j \in 1..n
               \/ j >= i /\ events'[j] = events[j + 1] /\ j + 1 \in 1..n
    <2>1. events'[j] = IF j <= i - 1 THEN before[j] ELSE behind[j - (i - 1)]
      BY <1>6, <1>7
    <2>2. CASE j < i
      <3>1. j <= i - 1 /\ j \in 1..i - 1 /\ j \in 1..n
        BY <1>1, <2>2
      <3> QED
        BY <1>4, <2>1, <2>2, <3>1
    <2>3. CASE j >= i
      <3>1. ~ (j <= i - 1) /\ j - (i - 1) \in 1..n - i /\ i + (j - (i - 1)) = j + 1 /\ j + 1 \in 1..n
        BY <1>1, <2>3
      <3>2. behind[j - (i - 1)] = events[i + (j - (i - 1))]
        BY <1>5, <3>1
      <3> QED
        BY <2>1, <2>3, <3>1, <3>2
    <2>4. j < i \/ j >= i
      BY <1>3
    <2> QED
      BY <2>2, <2>3, <2>4
  <1>10. ASSUME NEW j \in 1..n - 1, NEW k \in 1..n - 1, events'[j].id = events'[k].id
         PROVE  j = k
    <2>1. PICK x \in 1..n : events'[j] = events[x] /\ ((j < i /\ x = j) \/ (j >= i /\ x = j + 1))
      BY <1>9
    <2>2. PICK y \in 1..n : events'[k] = events[y] /\ ((k < i /\ y = k) \/ (k >= i /\ y = k + 1))
      BY <1>9
    <2>3. x = y
      BY <1>1, <1>10, <2>1, <2>2
    <2>4. j \in Int /\ k \in Int /\ i \in Int
      BY <1>3
    <2> QED
      BY <2>1, <2>2, <2>3, <2>4
  <1> QED
    BY <1>6, <1>8, <1>10 DEF EventsInv, Distinct

(* Whatever is in the events of a case is found: for any number of events, *)
(* of types and of titles and any thresholds, the gaps are the silences,   *)
(* no burst and no pair of twins escapes, nothing is in two clusters or    *)
(* two groups of duplicates, or a duplicate and a conflict, and the        *)
(* figures add up (analyze, TimelineService.stats). *)
THEOREM DetectorsAlwaysFind == AnalysisSpec => []DetectorsFind
  <1>1. AnalysisInit => EventsInv
    BY DEF AnalysisInit, EventsInv, Distinct
  <1>2. EventsInv /\ [AnalysisNext]_events => EventsInv'
    <2> SUFFICES ASSUME EventsInv, [AnalysisNext]_events
                 PROVE  EventsInv'
      OBVIOUS
    <2>1. CASE UNCHANGED events
      BY <2>1 DEF EventsInv, Distinct
    <2>2. CASE \E e \in Event : Record(e)
      BY <2>2, RecordKeeps
    <2>3. CASE \E i \in DOMAIN events : Drop(i)
      BY <2>3, DropKeeps
    <2> QED
      BY <2>1, <2>2, <2>3 DEF AnalysisNext
  <1>3. EventsInv => DetectorsFind
    BY DetectorsFindAll
  <1> QED
    BY <1>1, <1>2, <1>3, PTL DEF AnalysisSpec
=============================================================================
