--------------------------- MODULE MCOrchestrator ---------------------------
(* An instance of Orchestrator for TLC: a detector that is always fast, one  *)
(* that may raise or take its time, one that may never return.              *)
EXTENDS Orchestrator, TLC

CONSTANTS pii, injection, topics, r1, r2, r3

MCDetectors == {pii, injection, topics}
MCRuns == {r1, r2, r3}
MCLists == [r \in MCRuns |-> IF r = r1 THEN <<pii, injection, topics>> ELSE <<topics, pii>>]
MCFinds == [r \in MCRuns |-> [d \in MCDetectors |-> {d}]]
MCLengths == (pii :> {0, 1}) @@ (injection :> {0, 2}) @@ (topics :> {0, Endless})
==============================================================================
