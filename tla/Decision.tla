------------------------------ MODULE Decision ------------------------------
(***************************************************************************)
(* The decision engine (app/decision.py): a pure function of what was found *)
(* on each plane, and the rule by which several decisions of one            *)
(* transaction become one.                                                  *)
(*                                                                         *)
(* A fact is something a rule's condition can test: a category whose        *)
(* highest score lies in some range, or a property of a tool call.  A       *)
(* condition, a tree of `all` and `any`, is the set of the conjunctions of  *)
(* facts that satisfy it.                                                   *)
(***************************************************************************)
EXTENDS Naturals

Planes == {"input", "context", "response", "action"}

(* _VERDICT_RANK, and _TRANSFORMATION_ORDER after the absence of one.        *)
Rank == [ALLOW |-> 0, NEED_APPROVAL |-> 1, DENY |-> 2]
Order == [NONE |-> 0, TRUNCATE |-> 1, SANITIZE |-> 2, REWRITE |-> 3,
          REDACT |-> 4, MASK |-> 5]

Verdicts == DOMAIN Rank
Transformations == DOMAIN Order

IsRule(rule) ==
    /\ rule.verdict \in Verdicts
    /\ rule.transformation \in Transformations
    /\ rule.planes \subseteq Planes

Highest(verdicts) ==
    CHOOSE v \in verdicts \cup {"ALLOW"} : \A w \in verdicts : Rank[w] <= Rank[v]

(* Every applicable transformation overrides the ones before it in the order. *)
LastOf(transformations) ==
    CHOOSE t \in transformations \cup {"NONE"} :
        \A u \in transformations : Order[u] <= Order[t]

(* A rule matches when its condition holds on one of its planes; the tool    *)
(* under evaluation is visible on each of them.                              *)
Matches(rule, found, tool) ==
    \E plane \in rule.planes : \E facts \in rule.when :
        facts \subseteq found[plane] \cup tool

Hits(rules, found, tool) == {rule \in rules : Matches(rule, found, tool)}

(* The decision made of a set of hits.  All of them are recorded, those that *)
(* lost as well.                                                             *)
Evaluate(hits, degraded) ==
    LET verdict == Highest({hit.verdict : hit \in hits})
        winning == {hit \in hits : hit.verdict = verdict}
    IN [verdict |-> verdict,
        transformation |-> IF verdict = "DENY" THEN "NONE"
                           ELSE LastOf({hit.transformation : hit \in winning}),
        reasons |-> {hit.reason : hit \in winning},
        hits |-> hits,
        degraded |-> degraded]

(* One decision of several: for the tools a request declares, and for the    *)
(* two planes of an answered one.                                            *)
Combine(decisions) ==
    LET verdict == Highest({d.verdict : d \in decisions})
        winning == {d \in decisions : d.verdict = verdict}
    IN [verdict |-> verdict,
        transformation |-> IF verdict = "DENY" THEN "NONE"
                           ELSE LastOf({d.transformation : d \in winning}),
        reasons |-> UNION {d.reasons : d \in winning},
        hits |-> UNION {d.hits : d \in decisions},
        degraded |-> \E d \in decisions : d.degraded]
==============================================================================
