---------------------------- MODULE CaseAssistant ----------------------------
(***************************************************************************)
(* The assistant of one case: AIIntelligenceService.chat and               *)
(* regenerate_case_summary, as requests that overlap while the model       *)
(* answers.  A request has one transaction, begun when the caller is       *)
(* authenticated; the database stamps every row of it with that instant.   *)
(***************************************************************************)
EXTENDS Naturals, Sequences, FiniteSets, SequencesExt

CONSTANTS
    Turns,          \* requests on their way
    HistoryLimit,   \* messages of a prompt
    Contents,       \* what a column of a summary may hold
    MaxBegun,       \* bound: requests begun
    Idle, NoSummary

ASSUME AssistantAssumption == HistoryLimit \in Nat \ {0} /\ MaxBegun \in Nat

VARIABLES
    live,      \* the case is not removed
    said,      \* rows of ai_chat_messages
    summary,   \* the row of case_summaries
    given,     \* every summary the model has given
    turn, begun,
    blended    \* the last save met another one's

assistantVars == <<live, said, summary, given, turn, begun, blended>>

Roles == {"user", "assistant"}
Message == [chat : 1..MaxBegun, at : 1..MaxBegun, role : Roles]
Summary == [summary_text : Contents, key_findings : Contents]
Columns == {"summary_text", "key_findings"}

AssistantInit ==
    /\ live = TRUE
    /\ said = {}
    /\ summary = NoSummary
    /\ given = {}
    /\ turn = [t \in Turns |-> Idle]
    /\ begun = 0
    /\ blended = FALSE

Doing(t, kind) == turn[t] # Idle /\ turn[t].kind = kind
Done(t) == turn' = [turn EXCEPT ![t] = Idle]

(* _get_current_user: the first statement of the request.                  *)
Arrive(t) ==
    /\ turn[t] = Idle
    /\ begun < MaxBegun
    /\ begun' = begun + 1
    /\ turn' = [turn EXCEPT ![t] = [kind |-> "arrived", at |-> begun']]
    /\ UNCHANGED <<live, said, summary, given, blended>>

-----------------------------------------------------------------------------
(* Chat.                                                                   *)

(* created_at: now() of the transaction.                                   *)
Stamp(r) == r.at

Line(r, role) == [chat |-> r.at, at |-> Stamp(r), role |-> role]

(* Slip: the oldest messages of the case. *)
NewestOldest(s) == SubSeq(s, 1, IF Len(s) < HistoryLimit THEN Len(s) ELSE HistoryLimit)

(* The last messages, oldest first.                                        *)
Newest(s) == SubSeq(s, IF Len(s) > HistoryLimit THEN Len(s) - HistoryLimit + 1 ELSE 1, Len(s))

(* Messages of one instant come in any order.                              *)
Orders(messages) ==
    {s \in SetToSeqs(messages) : \A i \in 1..Len(s) - 1 : s[i].at <= s[i + 1].at}

(* The question is flushed, the history read back, the model called.       *)
Ask(t) ==
    /\ Doing(t, "arrived") /\ live
    /\ LET question == Line(turn[t], "user") IN
         \E order \in Orders(said \cup {question}) :
            turn' = [turn EXCEPT ![t] =
                [kind |-> "chat", at |-> turn[t].at, question |-> question,
                 read |-> said, prompt |-> Newest(order)]]
    /\ UNCHANGED <<live, said, summary, given, begun, blended>>

(* A model that is off, or fails, has a stock reply.                       *)
Reply(t) ==
    /\ Doing(t, "chat")
    /\ said' = said \cup {turn[t].question, Line(turn[t], "assistant")}
    /\ Done(t)
    /\ UNCHANGED <<live, summary, given, begun, blended>>

-----------------------------------------------------------------------------
(* Summary.                                                                *)

Summarise(t) ==
    /\ Doing(t, "arrived") /\ live
    /\ turn' = [turn EXCEPT ![t] = [kind |-> "summarise", at |-> turn[t].at]]
    /\ UNCHANGED <<live, said, summary, given, begun, blended>>

(* The model has answered; only now is the present summary looked up.      *)
LookUp(t, answer) ==
    /\ Doing(t, "summarise")
    /\ given' = given \cup {answer}
    /\ turn' = [turn EXCEPT ![t] =
         [kind |-> "save", at |-> turn[t].at, answer |-> answer, existing |-> summary]]
    /\ UNCHANGED <<live, said, summary, begun, blended>>

(* The columns an UPDATE sets: those that differ from what was loaded.     *)
Answered(r, c) == r.answer[c] # r.existing[c]

(* A second first summary meets the unique case_id and is rolled back.     *)
Save(t) ==
    LET r == turn[t] IN
    /\ Doing(t, "save")
    /\ summary' = IF summary = NoSummary THEN r.answer
                  ELSE IF r.existing = NoSummary THEN summary
                  ELSE [c \in Columns |-> IF Answered(r, c) THEN r.answer[c] ELSE summary[c]]
    /\ blended' = IF r.existing = NoSummary THEN blended ELSE summary # r.existing
    /\ Done(t)
    /\ UNCHANGED <<live, said, given, begun>>

(* The case is gone, the model has no summary, or the process dies.        *)
GiveUp(t) ==
    /\ turn[t] # Idle
    /\ Done(t)
    /\ UNCHANGED <<live, said, summary, given, begun, blended>>

(* The case is removed; its messages and its summary stay.                 *)
RemoveCase ==
    /\ live
    /\ live' = FALSE
    /\ UNCHANGED <<said, summary, given, turn, begun, blended>>

AssistantNext ==
    \/ \E t \in Turns : Arrive(t) \/ Ask(t) \/ Reply(t) \/ Summarise(t) \/ Save(t) \/ GiveUp(t)
    \/ \E t \in Turns, answer \in Summary : LookUp(t, answer)
    \/ RemoveCase

AssistantSpec == AssistantInit /\ [][AssistantNext]_assistantVars

-----------------------------------------------------------------------------
(* Properties.                                                             *)

(* A conversation never comes apart: chats overlap freely while the model  *)
(* answers, yet nothing stands between a question and its reply when the   *)
(* messages are listed by time (get_chat_history).                         *)
ExchangesTogether ==
    /\ \A m \in said : \E n \in said : n.chat = m.chat /\ n.role # m.role
    /\ \A m, n, x \in said :
         m.chat = n.chat /\ m.at <= x.at /\ x.at <= n.at => x.chat = m.chat

(* A prompt is the end of the conversation: nothing that was read is newer *)
(* than a message left out, at most one exchange is cut in two, and the    *)
(* question comes last unless a chat begun later was answered already.     *)
PromptsRecent ==
    \A t \in {u \in Turns : Doing(u, "chat")} :
        LET r == turn[t]
            kept == ToSet(r.prompt)
            omitted == r.read \ kept
            later == {m \in r.read : m.at > r.at}
        IN /\ Len(r.prompt) <= HistoryLimit
           /\ \A m \in omitted, n \in kept : m.at <= n.at
           /\ Cardinality({m.chat : m \in omitted} \cap {m.chat : m \in kept}) <= 1
           /\ later = {} => Last(r.prompt) = r.question

(* A summary is one answer of the model, not a mixture of two: unless two  *)
(* regenerations overlapped, its columns come from the same answer         *)
(* (regenerate_case_summary).                                              *)
SummaryWhole ==
    /\ summary # NoSummary /\ ~blended => summary \in given
    /\ summary # NoSummary => \A c \in Columns : \E g \in given : summary[c] = g[c]

(* What the assistant shows and is told is coherent, whatever overlaps:    *)
(* the conversation, the prompts and the summary.                          *)
AssistantCoherent == ExchangesTogether /\ PromptsRecent /\ SummaryWhole
=============================================================================
