------------------------- MODULE MCWatchlistMatching -------------------------
(* Small instances of WatchlistMatching: what items hold, what is watched. *)
EXTENDS WatchlistMatching, TLC

CONSTANTS i1, i2, i3, caseA, caseB, owner, assignee, s1, s2

Address == [type |-> "email", core |-> "a", form |-> "uppercase"]
Host == [type |-> "domain", core |-> "a", form |-> "plain"]

Plain(list, text, scope) == [list |-> list, text |-> text, regex |-> FALSE, scope |-> scope]
Pattern(list, text, scope) == [list |-> list, text |-> text, regex |-> TRUE, scope |-> scope]

(* Two items of one case and one of another. *)
TwoCases == i1 :> caseA @@ i2 :> caseA @@ i3 :> caseB
Sym == Permutations({i1, i2}) \cup Permutations({s1, s2})
TwoMembers == caseA :> {owner, assignee} @@ caseB :> {owner}

(* Two texts that one pattern finds. *)
Namesakes == {Address, Host}
NamesakeTerms == {Plain("email", Address, Global), Pattern("keyword", Address, caseA)}

RunBudget ==
    [add |-> 1, edit |-> 1, remove |-> 1, dbError |-> 2, crash |-> 1, childLoss |-> 1,
     sendFailure |-> 1, redelivery |-> 1]
=============================================================================
