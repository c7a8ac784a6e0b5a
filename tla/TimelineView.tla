---------------------------- MODULE TimelineView ----------------------------
(* What the curated timeline promises an investigator: an event appears    *)
(* once, may be folded away and brought back any number of times, and a    *)
(* removed event never comes back.                                         *)
CONSTANT Ids
VARIABLE view

Init == view = [i \in Ids |-> "none"]

(* All events of S go from one state to another in one transaction. *)
Move(S, from, to) ==
    /\ \A i \in S : view[i] = from
    /\ view' = [i \in Ids |-> IF i \in S THEN to ELSE view[i]]

Appear(S) == Move(S, "none", "visible")
FoldAway(S) == Move(S, "visible", "hidden")
BringBack(S) == Move(S, "hidden", "visible")
Remove(i) == Move({i}, "visible", "deleted") \/ Move({i}, "hidden", "deleted")

Next ==
    \/ \E S \in SUBSET Ids : Appear(S) \/ FoldAway(S) \/ BringBack(S)
    \/ \E i \in Ids : Remove(i)

Spec == Init /\ [][Next]_view
=============================================================================
