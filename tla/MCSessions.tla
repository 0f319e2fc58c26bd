----------------------------- MODULE MCSessions -----------------------------
(* Instances of Sessions for TLC: two reviewers and a service.               *)
EXTENDS Sessions, TLC

CONSTANTS ann, bob, app, left, right, s1, s2

MCKeys == {ann, bob, app}

Base == [service |-> {app}, reviewer |-> {ann, bob},
         production |-> TRUE, loopback |-> FALSE, secret |-> TRUE]

(* Two tabs of the console and a server that runs on.                        *)
MCTabs == {left, right}
ConsoleTabs == [t \in MCTabs |-> "console"]
MCSlots == {s1, s2}
Lasting == {Base}
Alike == Permutations(MCTabs) \cup Permutations(MCSlots)

(* A tab at each door, and a server that restarts without a reviewer's key,   *)
(* without a secret of its own, or without keys; two settings it refuses.    *)
BothDoors == [t \in MCTabs |-> IF t = left THEN "console" ELSE "dashboard"]
OneSlot == {s1}
Changing ==
    {Base, [Base EXCEPT !.reviewer = {ann}],
     [Base EXCEPT !.production = FALSE, !.secret = FALSE],
     [service |-> {}, reviewer |-> {}, production |-> FALSE, loopback |-> TRUE, secret |-> FALSE],
     [Base EXCEPT !.service = {app, ann}], [Base EXCEPT !.secret = FALSE]}
==============================================================================
