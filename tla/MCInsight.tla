------------------------------ MODULE MCInsight ------------------------------
(* The three share nothing but the case: each behaviour follows one of     *)
(* them while the others rest in their initial state.                      *)
EXTENDS CaseAssistant, EvidenceGraph, TimelineAnalysis, TLC
CONSTANTS a1, a2, a3, a4, i1, i2, i3
Sym == Permutations({a1, a2, a3, a4}) \cup Permutations({i1, i2, i3})
MCCategoryOf == [t \in Types |-> t]
(* Titles like a chain: the neighbours are alike, the ends are not. *)
MCAlike == {<<s, t>> \in Titles \X Titles : s - t \in {0, 1} \/ t - s = 1}
MCNearlySame == {<<t, t>> : t \in Titles}

InsightInit == AssistantInit /\ GraphInit /\ AnalysisInit
InsightNext ==
    \/ GraphInit /\ AnalysisInit /\ AssistantNext /\ UNCHANGED <<mentions, events>>
    \/ AssistantInit /\ AnalysisInit /\ GraphNext /\ UNCHANGED <<assistantVars, events>>
    \/ AssistantInit /\ GraphInit /\ AnalysisNext /\ UNCHANGED <<assistantVars, mentions>>
InsightSpec == InsightInit /\ [][InsightNext]_<<assistantVars, mentions, events>>
=============================================================================
