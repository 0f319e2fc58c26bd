---------------------------- MODULE GatewayProofs ----------------------------
(* Proofs about Decision and Gateway, for any requests, rules, bodies and    *)
(* numbers of retries, resume attempts and crashes.                          *)
EXTENDS Gateway, TLAPS

------------------------------------------------------------------------------
(* What Highest and LastOf choose, and that combining decisions loses        *)
(* nothing that one evaluation of all their hits would have found.           *)

(* The highest verdict is one of those given, or ALLOW, and above them all.  *)
LEMMA HighestIsAbove ==
    ASSUME NEW verdicts \in SUBSET Verdicts
    PROVE  /\ Highest(verdicts) \in verdicts \cup {"ALLOW"}
           /\ Highest(verdicts) \in Verdicts
           /\ \A w \in verdicts : Rank[w] <= Rank[Highest(verdicts)]
<1>1. \E v \in verdicts \cup {"ALLOW"} : \A w \in verdicts : Rank[w] <= Rank[v]
  <2>1. CASE "DENY" \in verdicts
        BY <2>1 DEF Verdicts, Rank
  <2>2. CASE "DENY" \notin verdicts /\ "NEED_APPROVAL" \in verdicts
        BY <2>2 DEF Verdicts, Rank
  <2>3. CASE "DENY" \notin verdicts /\ "NEED_APPROVAL" \notin verdicts
        BY <2>3 DEF Verdicts, Rank
  <2> QED BY <2>1, <2>2, <2>3
<1>2. /\ Highest(verdicts) \in verdicts \cup {"ALLOW"}
      /\ \A w \in verdicts : Rank[w] <= Rank[Highest(verdicts)]
      BY <1>1 DEF Highest
<1> QED BY <1>2 DEF Verdicts, Rank

(* Ranks differ, so there is no choice about it.                             *)
LEMMA HighestIsUnique ==
    ASSUME NEW verdicts \in SUBSET Verdicts, NEW v \in verdicts \cup {"ALLOW"},
           \A w \in verdicts : Rank[w] <= Rank[v]
    PROVE  v = Highest(verdicts)
BY HighestIsAbove DEF Verdicts, Rank

(* The same of the last transformation.                                      *)
LEMMA LastIsAbove ==
    ASSUME NEW transformations \in SUBSET Transformations
    PROVE  /\ LastOf(transformations) \in transformations \cup {"NONE"}
           /\ LastOf(transformations) \in Transformations
           /\ \A u \in transformations : Order[u] <= Order[LastOf(transformations)]
<1> DEFINE T == transformations
<1>1. \E t \in T \cup {"NONE"} : \A u \in T : Order[u] <= Order[t]
  <2>1. CASE "MASK" \in T
        BY <2>1 DEF Transformations, Order
  <2>2. CASE "MASK" \notin T /\ "REDACT" \in T
        BY <2>2 DEF Transformations, Order
  <2>3. CASE {"MASK", "REDACT"} \cap T = {} /\ "REWRITE" \in T
        BY <2>3 DEF Transformations, Order
  <2>4. CASE {"MASK", "REDACT", "REWRITE"} \cap T = {} /\ "SANITIZE" \in T
        BY <2>4 DEF Transformations, Order
  <2>5. CASE {"MASK", "REDACT", "REWRITE", "SANITIZE"} \cap T = {}
        BY <2>5 DEF Transformations, Order
  <2> QED BY <2>1, <2>2, <2>3, <2>4, <2>5
<1>2. /\ LastOf(T) \in T \cup {"NONE"}
      /\ \A u \in T : Order[u] <= Order[LastOf(T)]
      BY <1>1 DEF LastOf
<1> QED BY <1>2 DEF Transformations, Order

LEMMA LastIsUnique ==
    ASSUME NEW transformations \in SUBSET Transformations,
           NEW t \in transformations \cup {"NONE"},
           \A u \in transformations : Order[u] <= Order[t]
    PROVE  t = LastOf(transformations)
BY LastIsAbove DEF Transformations, Order

(* What decides of two sets is what decides of their union.                  *)
LEMMA HighestOfBoth ==
    ASSUME NEW V1 \in SUBSET Verdicts, NEW V2 \in SUBSET Verdicts
    PROVE  Highest({Highest(V1), Highest(V2)}) = Highest(V1 \cup V2)
<1> DEFINE both == {Highest(V1), Highest(V2)}
           v == Highest(both)
<1>1. both \in SUBSET Verdicts /\ V1 \cup V2 \in SUBSET Verdicts
      BY HighestIsAbove
<1>2. v \in Verdicts /\ v \in both
      BY <1>1, HighestIsAbove DEF Verdicts, Rank
<1>3. v \in (V1 \cup V2) \cup {"ALLOW"}
      BY <1>2, HighestIsAbove
<1>4. \A w \in V1 \cup V2 : Rank[w] <= Rank[v]
  <2> SUFFICES ASSUME NEW w \in V1 \cup V2 PROVE Rank[w] <= Rank[v]
      OBVIOUS
  <2>1. Rank[w] <= Rank[Highest(V1)] \/ Rank[w] <= Rank[Highest(V2)]
        BY HighestIsAbove
  <2>2. Rank[Highest(V1)] <= Rank[v] /\ Rank[Highest(V2)] <= Rank[v]
        BY <1>1, HighestIsAbove
  <2>3. {Highest(V1), Highest(V2), v, w} \subseteq Verdicts
        BY <1>1, <1>2, HighestIsAbove
  <2> HIDE DEF v
  <2> QED BY <2>1, <2>2, <2>3 DEF Verdicts, Rank
<1> HIDE DEF v
<1> QED BY <1>1, <1>3, <1>4, HighestIsUnique DEF v

(* One more hit never relaxes what is decided (evaluate_policy in             *)
(* app/decision.py): a hit that allows does not outweigh one that holds or   *)
(* denies, however many of them there are and in whatever order rules come.  *)
THEOREM MoreHitsNeverRelax ==
    ASSUME NEW hits, NEW more, hits \subseteq more,
           \A hit \in more : hit.verdict \in Verdicts,
           NEW degraded \in BOOLEAN, NEW worse \in BOOLEAN
    PROVE  Rank[Evaluate(hits, degraded).verdict] <= Rank[Evaluate(more, worse).verdict]
<1> DEFINE V == {hit.verdict : hit \in hits}
           W == {hit.verdict : hit \in more}
<1>1. V \in SUBSET Verdicts /\ W \in SUBSET Verdicts /\ V \subseteq W
      OBVIOUS
<1>2. Evaluate(hits, degraded).verdict = Highest(V) /\ Evaluate(more, worse).verdict = Highest(W)
      BY DEF Evaluate
<1> HIDE DEF V, W
<1>3. Highest(V) \in V \cup {"ALLOW"} /\ Highest(W) \in Verdicts
      BY <1>1, HighestIsAbove
<1>4. CASE Highest(V) \in V
      BY <1>1, <1>2, <1>4, HighestIsAbove
<1>5. CASE Highest(V) = "ALLOW"
      BY <1>2, <1>3, <1>5 DEF Verdicts, Rank
<1> QED BY <1>3, <1>4, <1>5

(* The winning hits of a set of hits. *)
Winning(hits) == {hit \in hits : hit.verdict = Highest({h.verdict : h \in hits})}

(* Of two sets of hits, those that win together are those that win in a set  *)
(* whose verdict is the joint one.                                           *)
LEMMA JointWinners ==
    ASSUME NEW H1, NEW H2, \A hit \in H1 \cup H2 : hit.verdict \in Verdicts
    PROVE  LET v1 == Highest({h.verdict : h \in H1})
               v2 == Highest({h.verdict : h \in H2})
               v == Highest({v1, v2})
           IN /\ v = Highest({h.verdict : h \in H1 \cup H2})
              /\ v \in {v1, v2}
              /\ {v1, v2, v} \subseteq Verdicts
              /\ Winning(H1 \cup H2) = (IF v1 = v THEN Winning(H1) ELSE {})
                                        \cup (IF v2 = v THEN Winning(H2) ELSE {})
<1> DEFINE V1 == {h.verdict : h \in H1}
           V2 == {h.verdict : h \in H2}
           v1 == Highest(V1)
           v2 == Highest(V2)
           v == Highest({v1, v2})
<1>1. V1 \in SUBSET Verdicts /\ V2 \in SUBSET Verdicts
      OBVIOUS
<1>2. {h.verdict : h \in H1 \cup H2} = V1 \cup V2
      OBVIOUS
<1>3. v = Highest(V1 \cup V2)
      BY <1>1, HighestOfBoth
<1>4. v1 \in Verdicts /\ v2 \in Verdicts
      BY <1>1, HighestIsAbove
<1>5. v \in Verdicts /\ v \in {v1, v2} \cup {"ALLOW"} /\ Rank[v1] <= Rank[v] /\ Rank[v2] <= Rank[v]
      BY <1>4, HighestIsAbove
<1>6. v \in {v1, v2}
      BY <1>4, <1>5 DEF Verdicts, Rank
<1>7. \A h \in H1 : h.verdict = v => v1 = v
  <2> SUFFICES ASSUME NEW h \in H1, h.verdict = v PROVE v1 = v
      OBVIOUS
  <2>1. Rank[v] <= Rank[v1]
        BY <1>1, HighestIsAbove
  <2> QED BY <2>1, <1>4, <1>5 DEF Verdicts, Rank
<1>8. \A h \in H2 : h.verdict = v => v2 = v
  <2> SUFFICES ASSUME NEW h \in H2, h.verdict = v PROVE v2 = v
      OBVIOUS
  <2>1. Rank[v] <= Rank[v2]
        BY <1>1, HighestIsAbove
  <2> QED BY <2>1, <1>4, <1>5 DEF Verdicts, Rank
<1>9. Winning(H1 \cup H2) = {h \in H1 \cup H2 : h.verdict = v}
      BY <1>2, <1>3 DEF Winning
<1>10. Winning(H1) = {h \in H1 : h.verdict = v1} /\ Winning(H2) = {h \in H2 : h.verdict = v2}
      BY DEF Winning
<1> HIDE DEF v, v1, v2
<1>11. Winning(H1 \cup H2) = (IF v1 = v THEN Winning(H1) ELSE {})
                             \cup (IF v2 = v THEN Winning(H2) ELSE {})
      BY <1>7, <1>8, <1>9, <1>10
<1> QED BY <1>2, <1>3, <1>4, <1>5, <1>6, <1>11 DEF v, v1, v2

(* The last transformation of two sets' last ones is the last of them all.   *)
LEMMA LastOfBoth ==
    ASSUME NEW T1 \in SUBSET Transformations, NEW T2 \in SUBSET Transformations
    PROVE  LastOf({LastOf(T1), LastOf(T2)}) = LastOf(T1 \cup T2)
<1> DEFINE both == {LastOf(T1), LastOf(T2)}
           t == LastOf(both)
<1>1. both \in SUBSET Transformations /\ T1 \cup T2 \in SUBSET Transformations
      BY LastIsAbove
<1>2. t \in Transformations /\ t \in both
      BY <1>1, LastIsAbove DEF Transformations, Order
<1>3. t \in (T1 \cup T2) \cup {"NONE"}
      BY <1>2, LastIsAbove
<1>4. \A u \in T1 \cup T2 : Order[u] <= Order[t]
  <2> SUFFICES ASSUME NEW u \in T1 \cup T2 PROVE Order[u] <= Order[t]
      OBVIOUS
  <2>1. Order[u] <= Order[LastOf(T1)] \/ Order[u] <= Order[LastOf(T2)]
        BY LastIsAbove
  <2>2. Order[LastOf(T1)] <= Order[t] /\ Order[LastOf(T2)] <= Order[t]
        BY <1>1, LastIsAbove
  <2>3. {LastOf(T1), LastOf(T2), t, u} \subseteq Transformations
        BY <1>1, <1>2, LastIsAbove
  <2> HIDE DEF t
  <2> QED BY <2>1, <2>2, <2>3 DEF Transformations, Order
<1> HIDE DEF t
<1> QED BY <1>1, <1>3, <1>4, LastIsUnique DEF t

LEMMA LastOfOne ==
    ASSUME NEW T \in SUBSET Transformations
    PROVE  LastOf({LastOf(T)}) = LastOf(T)
BY LastOfBoth, LastIsAbove

(* POL-002, POL-003: combining the decisions made of two sets of hits, as is *)
(* done for several declared tools, gives the decision of all the hits       *)
(* together: no verdict, reason, hit or transformation is lost by evaluating *)
(* them apart.                                                               *)
THEOREM CombineIsJoint ==
    ASSUME NEW H1, NEW H2, \A hit \in H1 \cup H2 : IsRule(hit),
           NEW b1 \in BOOLEAN, NEW b2 \in BOOLEAN
    PROVE  Combine({Evaluate(H1, b1), Evaluate(H2, b2)}) = Evaluate(H1 \cup H2, b1 \/ b2)
<1> DEFINE E1 == Evaluate(H1, b1)
           E2 == Evaluate(H2, b2)
           W == Winning(H1 \cup H2)
           v1 == Highest({h.verdict : h \in H1})
           v2 == Highest({h.verdict : h \in H2})
           v == Highest({v1, v2})
           T(hits) == {h.transformation : h \in Winning(hits)}
           won == {d \in {E1, E2} : d.verdict = v}
<1>1. /\ v = Highest({h.verdict : h \in H1 \cup H2})
      /\ v \in {v1, v2}
      /\ {v1, v2, v} \subseteq Verdicts
      /\ W = (IF v1 = v THEN Winning(H1) ELSE {}) \cup (IF v2 = v THEN Winning(H2) ELSE {})
      BY JointWinners DEF IsRule
<1>2. E1 = [verdict |-> v1,
            transformation |-> IF v1 = "DENY" THEN "NONE" ELSE LastOf(T(H1)),
            reasons |-> {h.reason : h \in Winning(H1)}, hits |-> H1, degraded |-> b1]
      BY Zenon DEF Evaluate, Winning
<1>3. E2 = [verdict |-> v2,
            transformation |-> IF v2 = "DENY" THEN "NONE" ELSE LastOf(T(H2)),
            reasons |-> {h.reason : h \in Winning(H2)}, hits |-> H2, degraded |-> b2]
      BY Zenon DEF Evaluate, Winning
<1>4. Evaluate(H1 \cup H2, b1 \/ b2) =
          [verdict |-> v,
           transformation |-> IF v = "DENY" THEN "NONE" ELSE LastOf({h.transformation : h \in W}),
           reasons |-> {h.reason : h \in W}, hits |-> H1 \cup H2, degraded |-> b1 \/ b2]
      BY <1>1, Zenon DEF Evaluate, Winning
<1>5. T(H1) \in SUBSET Transformations /\ T(H2) \in SUBSET Transformations
      BY DEF IsRule, Winning
<1>6. /\ E1.verdict = v1 /\ E1.reasons = {h.reason : h \in Winning(H1)}
      /\ E1.hits = H1 /\ E1.degraded = b1
      /\ E2.verdict = v2 /\ E2.reasons = {h.reason : h \in Winning(H2)}
      /\ E2.hits = H2 /\ E2.degraded = b2
      BY <1>2, <1>3
<1>7. /\ v1 # "DENY" => E1.transformation = LastOf(T(H1))
      /\ v2 # "DENY" => E2.transformation = LastOf(T(H2))
      BY <1>2, <1>3
<1> HIDE DEF E1, E2, v1, v2, v, W
<1>8. {d.verdict : d \in {E1, E2}} = {v1, v2}
      BY <1>6
<1>9. Combine({E1, E2}) =
          [verdict |-> v,
           transformation |-> IF v = "DENY" THEN "NONE"
                              ELSE LastOf({d.transformation : d \in won}),
           reasons |-> UNION {d.reasons : d \in won},
           hits |-> UNION {d.hits : d \in {E1, E2}},
           degraded |-> \E d \in {E1, E2} : d.degraded]
      BY <1>8, Zenon DEF Combine, v
<1>10. UNION {d.hits : d \in {E1, E2}} = H1 \cup H2
      BY <1>6
<1>11. (\E d \in {E1, E2} : d.degraded) = (b1 \/ b2)
      BY <1>6, Zenon
<1>12. won = (IF v1 = v THEN {E1} ELSE {}) \cup (IF v2 = v THEN {E2} ELSE {})
      BY <1>6
<1>13. UNION {d.reasons : d \in won} = {h.reason : h \in W}
  <2> DEFINE R(hits) == {h.reason : h \in hits}
  <2>1. CASE v1 = v /\ v2 = v
    <3>1. {d.reasons : d \in won} = {R(Winning(H1)), R(Winning(H2))}
          BY <2>1, <1>6, <1>12
    <3>2. W = Winning(H1) \cup Winning(H2)
          BY <2>1, <1>1
    <3>3. R(W) = R(Winning(H1)) \cup R(Winning(H2))
          BY <3>2
    <3>4. \A a, b : UNION {a, b} = a \cup b
          OBVIOUS
    <3>5. UNION {d.reasons : d \in won} = R(Winning(H1)) \cup R(Winning(H2))
          BY ONLY <3>1, <3>4, Zenon
    <3> QED BY <3>3, <3>5
  <2>2. CASE v1 = v /\ v2 # v
    <3>1. {d.reasons : d \in won} = {R(Winning(H1))}
          BY <2>2, <1>6, <1>12
    <3>2. W = Winning(H1)
          BY <2>2, <1>1
    <3> QED BY <3>1, <3>2
  <2>3. CASE v1 # v /\ v2 = v
    <3>1. {d.reasons : d \in won} = {R(Winning(H2))}
          BY <2>3, <1>6, <1>12
    <3>2. W = Winning(H2)
          BY <2>3, <1>1
    <3> QED BY <3>1, <3>2
  <2> QED BY <2>1, <2>2, <2>3, <1>1
<1>14. ASSUME v # "DENY"
       PROVE  LastOf({d.transformation : d \in won}) = LastOf({h.transformation : h \in W})
  <2>1. CASE v1 = v /\ v2 = v
    <3>1. {d.transformation : d \in won} = {LastOf(T(H1)), LastOf(T(H2))}
          BY <2>1, <1>7, <1>12, <1>14
    <3>2. {h.transformation : h \in W} = T(H1) \cup T(H2)
          BY <2>1, <1>1
    <3>3. LastOf({LastOf(T(H1)), LastOf(T(H2))}) = LastOf(T(H1) \cup T(H2))
      <4> HIDE DEF T
      <4> QED BY <1>5, LastOfBoth
    <3> HIDE DEF T, won
    <3> QED BY ONLY <3>1, <3>2, <3>3
  <2>2. CASE v1 = v /\ v2 # v
    <3>1. {d.transformation : d \in won} = {LastOf(T(H1))}
          BY <2>2, <1>7, <1>12, <1>14
    <3>2. {h.transformation : h \in W} = T(H1)
          BY <2>2, <1>1
    <3>3. LastOf({LastOf(T(H1))}) = LastOf(T(H1))
      <4> HIDE DEF T
      <4> QED BY <1>5, LastOfOne
    <3> HIDE DEF T, won
    <3> QED BY ONLY <3>1, <3>2, <3>3
  <2>3. CASE v1 # v /\ v2 = v
    <3>1. {d.transformation : d \in won} = {LastOf(T(H2))}
          BY <2>3, <1>7, <1>12, <1>14
    <3>2. {h.transformation : h \in W} = T(H2)
          BY <2>3, <1>1
    <3>3. LastOf({LastOf(T(H2))}) = LastOf(T(H2))
      <4> HIDE DEF T
      <4> QED BY <1>5, LastOfOne
    <3> HIDE DEF T, won
    <3> QED BY ONLY <3>1, <3>2, <3>3
  <2> QED BY <2>1, <2>2, <2>3, <1>1
<1> HIDE DEF won
<1>15. (IF v = "DENY" THEN "NONE" ELSE LastOf({d.transformation : d \in won}))
          = (IF v = "DENY" THEN "NONE" ELSE LastOf({h.transformation : h \in W}))
      BY <1>14
<1>16. Combine({E1, E2}) = Evaluate(H1 \cup H2, b1 \/ b2)
      BY <1>4, <1>9, <1>10, <1>11, <1>13, <1>15, Zenon
<1> QED BY <1>16 DEF E1, E2

------------------------------------------------------------------------------
Decisions ==
    [verdict : Verdicts, transformation : Transformations,
     reasons : SUBSET {rule.reason : rule \in Rules}, hits : SUBSET Rules,
     degraded : BOOLEAN]
Neutral == Evaluate({}, FALSE)

------------------------------------------------------------------------------
(* Decisions                                                                 *)

LEMMA DecisionsAreRecords == Decisions \subseteq DecisionRecord
BY DEF Decisions, DecisionRecord

(* Hits of the policy's rules make a well-typed decision.                    *)
LEMMA EvaluateTyped ==
    ASSUME NEW hits \in SUBSET Rules, NEW degraded \in BOOLEAN
    PROVE  Evaluate(hits, degraded) \in Decisions
<1> DEFINE v == Highest({hit.verdict : hit \in hits})
           winning == {hit \in hits : hit.verdict = v}
           T == {hit.transformation : hit \in winning}
<1>1. v \in Verdicts
      BY RulesAssumption, HighestIsAbove DEF IsRule
<1>2. T \in SUBSET Transformations
      BY RulesAssumption DEF IsRule
<1>3. LastOf(T) \in Transformations
      BY <1>2, LastIsAbove
<1>4. {hit.reason : hit \in winning} \in SUBSET {rule.reason : rule \in Rules}
      OBVIOUS
<1>5. "NONE" \in Transformations
      BY DEF Transformations, Order
<1>6. Evaluate(hits, degraded) =
          [verdict |-> v, transformation |-> IF v = "DENY" THEN "NONE" ELSE LastOf(T),
           reasons |-> {hit.reason : hit \in winning}, hits |-> hits, degraded |-> degraded]
      BY Zenon DEF Evaluate
<1> HIDE DEF v, winning, T
<1>7. (IF v = "DENY" THEN "NONE" ELSE LastOf(T)) \in Transformations
      BY <1>3, <1>5
<1> QED BY <1>1, <1>4, <1>6, <1>7 DEF Decisions

(* So do several decisions combined.                                         *)
LEMMA CombineTyped ==
    ASSUME NEW D \in SUBSET Decisions
    PROVE  Combine(D) \in Decisions
<1> DEFINE v == Highest({d.verdict : d \in D})
           winning == {d \in D : d.verdict = v}
           T == {d.transformation : d \in winning}
<1>1. v \in Verdicts
      BY HighestIsAbove DEF Decisions
<1>2. T \in SUBSET Transformations
      BY DEF Decisions
<1>3. LastOf(T) \in Transformations
      BY <1>2, LastIsAbove
<1>4. UNION {d.reasons : d \in winning} \in SUBSET {rule.reason : rule \in Rules}
      BY DEF Decisions
<1>5. UNION {d.hits : d \in D} \in SUBSET Rules
      BY DEF Decisions
<1>6. "NONE" \in Transformations
      BY DEF Transformations, Order
<1>7. Combine(D) =
          [verdict |-> v, transformation |-> IF v = "DENY" THEN "NONE" ELSE LastOf(T),
           reasons |-> UNION {d.reasons : d \in winning}, hits |-> UNION {d.hits : d \in D},
           degraded |-> \E d \in D : d.degraded]
      BY Zenon DEF Combine
<1>8. (\E d \in D : d.degraded) \in BOOLEAN
      BY Zenon
<1> HIDE DEF v, winning, T
<1>9. (IF v = "DENY" THEN "NONE" ELSE LastOf(T)) \in Transformations
      BY <1>3, <1>6
<1> QED BY <1>1, <1>4, <1>5, <1>7, <1>8, <1>9 DEF Decisions

(* The verdict of two decisions is the higher one.                           *)
LEMMA CombinedVerdict ==
    ASSUME NEW d1 \in Decisions, NEW d2 \in Decisions
    PROVE  Combine({d1, d2}).verdict = Highest({d1.verdict, d2.verdict})
<1>1. {d.verdict : d \in {d1, d2}} = {d1.verdict, d2.verdict}
      OBVIOUS
<1> QED BY <1>1, Zenon DEF Combine

LEMMA NeutralIsAllow == Neutral \in Decisions /\ Neutral.verdict = "ALLOW"
<1>1. Neutral \in Decisions
      BY EvaluateTyped DEF Neutral
<1>2. Neutral.verdict = Highest({hit.verdict : hit \in {}})
      BY Zenon DEF Neutral, Evaluate
<1>3. {hit.verdict : hit \in {}} = {}
      OBVIOUS
<1>4. Highest({}) = "ALLOW"
      BY HighestIsAbove
<1> QED BY <1>1, <1>2, <1>3, <1>4

(* Combined with an ALLOW, a decision keeps its verdict.                     *)
LEMMA AllowIsNeutral ==
    ASSUME NEW d1 \in Decisions, NEW d2 \in Decisions, d1.verdict = "ALLOW" \/ d2.verdict = "ALLOW"
    PROVE  /\ d1.verdict = "ALLOW" => Combine({d1, d2}).verdict = d2.verdict
           /\ d2.verdict = "ALLOW" => Combine({d1, d2}).verdict = d1.verdict
<1>1. d1.verdict \in Verdicts /\ d2.verdict \in Verdicts
      BY DEF Decisions
<1>2. d1.verdict = "ALLOW" => d2.verdict = Highest({d1.verdict, d2.verdict})
      BY <1>1, HighestIsAbove DEF Verdicts, Rank
<1>3. d2.verdict = "ALLOW" => d1.verdict = Highest({d1.verdict, d2.verdict})
      BY <1>1, HighestIsAbove DEF Verdicts, Rank
<1> QED BY <1>2, <1>3, CombinedVerdict

(* What the input pipeline may decide.                                       *)
LEMMA InputDecided ==
    ASSUME NEW content \in RequestBodies, NEW d \in InputDecisions[content]
    PROVE  d \in Decisions
<1>1. PICK i \in Inspections(content) :
          d = Combine({Evaluate(Hits(Rules, Found(content, i.missed), tool), i.degraded) :
                           tool \in Candidates(content)})
      BY DEF InputDecisions
<1>2. i.degraded \in BOOLEAN
      BY DEF Inspections
<1>3. \A tool : Hits(Rules, Found(content, i.missed), tool) \in SUBSET Rules
      BY DEF Hits
<1>4. \A tool : Evaluate(Hits(Rules, Found(content, i.missed), tool), i.degraded) \in Decisions
      BY <1>2, <1>3, EvaluateTyped
<1>5. {Evaluate(Hits(Rules, Found(content, i.missed), tool), i.degraded) :
           tool \in Candidates(content)} \in SUBSET Decisions
      BY <1>4
<1> QED BY <1>1, <1>5, CombineTyped

(* What a client may see of an answer that a guard's decision lets through.  *)
LetThrough(d, content) ==
    /\ \A hit \in d.hits : hit.verdict = "ALLOW"
    /\ Asks(d, "REDACT") /\ ~Asks(d, "MASK") => Text(content) \cap Redactable = {}

(* A verdict of ALLOW is a verdict of every hit, and a redaction that one of *)
(* them asks for is overridden by masking only.                              *)
LEMMA AllowMeansAll ==
    ASSUME NEW hits \in SUBSET Rules, NEW degraded \in BOOLEAN,
           Evaluate(hits, degraded).verdict = "ALLOW"
    PROVE  LET d == Evaluate(hits, degraded) IN
           /\ \A hit \in d.hits : hit.verdict = "ALLOW"
           /\ Asks(d, "REDACT") /\ ~Asks(d, "MASK") => d.transformation = "REDACT"
<1> DEFINE d == Evaluate(hits, degraded)
           V == {hit.verdict : hit \in hits}
           T == {hit.transformation : hit \in {h \in hits : h.verdict = "ALLOW"}}
<1>1. Highest(V) = "ALLOW"
      BY Zenon DEF Evaluate
<1>2. d = [verdict |-> "ALLOW", transformation |-> LastOf(T),
           reasons |-> {hit.reason : hit \in {h \in hits : h.verdict = "ALLOW"}},
           hits |-> hits, degraded |-> degraded]
      BY <1>1 DEF Evaluate
<1>3. \A hit \in hits : hit.verdict \in Verdicts /\ hit.transformation \in Transformations
      BY RulesAssumption DEF IsRule
<1>4. \A w \in V : Rank[w] <= Rank["ALLOW"]
      BY <1>1, <1>3, HighestIsAbove
<1>5. \A hit \in hits : hit.verdict = "ALLOW"
      BY <1>3, <1>4 DEF Verdicts, Rank
<1>6. ASSUME Asks(d, "REDACT"), ~Asks(d, "MASK") PROVE LastOf(T) = "REDACT"
  <2>1. T \in SUBSET Transformations /\ "REDACT" \in T /\ "MASK" \notin T
        BY <1>2, <1>3, <1>5, <1>6 DEF Asks
  <2>2. \A u \in T : Order[u] <= Order["REDACT"]
        BY <2>1 DEF Transformations, Order
  <2> HIDE DEF T
  <2> QED BY <2>1, <2>2, LastIsUnique
<1> HIDE DEF T
<1> QED BY <1>2, <1>5, <1>6

LEMMA Redacted ==
    ASSUME NEW content
    PROVE  Text(Transformed(content, "REDACT")) \cap Redactable = {}
BY DEF Text, Transformed

LEMMA TransformedTyped ==
    ASSUME NEW content \in Bodies, NEW transformation
    PROVE  Transformed(content, transformation) \in Bodies
BY DEF Transformed, Bodies

(* What the output guard may decide, and what it leaves of the answer.       *)
LEMMA GuardDecided ==
    ASSUME NEW content \in {answered.first : answered \in ResponseBodies},
           NEW d \in GuardDecisions[content]
    PROVE  /\ d \in Decisions
           /\ d.verdict \in {"ALLOW", "DENY"}
           /\ d.verdict = "ALLOW" => LetThrough(d, Transformed(content, d.transformation))
<1>1. PICK i \in Inspections(content) :
          d = Clamp(Evaluate(Hits(Rules, Found(content, i.missed), content["action"] \ i.missed), i.degraded))
      BY DEF GuardDecisions
<1> DEFINE H == Hits(Rules, Found(content, i.missed), content["action"] \ i.missed)
           e == Evaluate(H, i.degraded)
<1>2. i.degraded \in BOOLEAN /\ H \in SUBSET Rules
      BY DEF Inspections, Hits
<1> HIDE DEF H
<1>3. e \in Decisions
      BY <1>2, EvaluateTyped
<1>4. e.verdict = "ALLOW" =>
          /\ \A hit \in e.hits : hit.verdict = "ALLOW"
          /\ Asks(e, "REDACT") /\ ~Asks(e, "MASK") => e.transformation = "REDACT"
      BY <1>2, AllowMeansAll
<1>5. d = Clamp(e)
      BY <1>1 DEF H
<1> HIDE DEF e
<1>6. CASE e.verdict = "NEED_APPROVAL"
      BY <1>3, <1>5, <1>6 DEF Clamp, Decisions, Verdicts, Rank, Transformations, Order
<1>7. CASE e.verdict # "NEED_APPROVAL"
  <2>1. d = e /\ e.verdict \in {"ALLOW", "DENY"}
        BY <1>3, <1>5, <1>7 DEF Clamp, Decisions, Verdicts, Rank
  <2> QED BY <2>1, <1>3, <1>4, Redacted DEF LetThrough
<1> QED BY <1>6, <1>7

------------------------------------------------------------------------------
(* The inductive invariant                                                   *)

Stages == {"new", "inspecting", "calling", "waiting", "guarding", "recording", "releasing",
           "answering", "done"}
Phases == {"NONE", "PENDING", "APPROVED", "DENIED", "EXPIRED", "RESUMING", "COMPLETED", "FAILED"}
Answers == {"none", "failed", "denied", "held", "allowed", "lost"}
Forwarding == {"calling", "waiting", "guarding", "releasing"}

Types ==
    /\ TypeOK
    /\ phase \in [Requests -> Phases]
    /\ tries \in [Requests -> Nat]
    /\ made \in [Requests -> Nat]
    /\ permitted \in [Requests -> BOOLEAN]

(* Which verdict a handler's place stands for, and that the two doors to the *)
(* upstream exclude each other.                                              *)
Judged(r) ==
    /\ pc[r] \in {"new", "inspecting"} => decision[r].verdict = "NONE"
    /\ pc[r] \in Forwarding => decision[r].verdict = "ALLOW" /\ decision[r] \in Decisions
    /\ pc[r] = "recording" =>
          /\ decision[r] \in Decisions
          /\ \/ decision[r].verdict = "DENY"
             \/ decision[r].verdict = "NEED_APPROVAL" /\ phase[r] # "NONE"
    /\ pc[r] = "answering" =>
          /\ decision[r] \in Decisions
          /\ \/ decision[r].verdict = "DENY"
             \/ decision[r].verdict = "NEED_APPROVAL" /\ phase[r] # "NONE"
             \/ decision[r].verdict = "ALLOW" /\ attempts[r] > 0
    /\ pc[r] \in {"waiting", "guarding", "releasing"} => attempts[r] > 0
    /\ pc[r] = "calling" => attempts[r] <= MaxRetries
    /\ attempts[r] > 0 => decision[r].verdict = "ALLOW"
    /\ phase[r] # "NONE" => decision[r].verdict = "NEED_APPROVAL"
    /\ phase[r] = "NONE" => ~permitted[r] /\ made[r] = 0

(* What a handler holds is what it received, or has been transformed.        *)
Held(r) ==
    /\ pc[r] = "inspecting" => body[r] \in RequestBodies
    /\ pc[r] = "guarding" => reply[r] \in ResponseBodies
    /\ /\ pc[r] \in Forwarding \/ attempts[r] > 0 \/ phase[r] # "NONE"
       /\ decision[r].transformation = "REDACT"
       => Text(body[r]) \cap Redactable = {}
    /\ \/ pc[r] \notin {"releasing", "answering", "done"}
       \/ pc[r] = "answering" /\ decision[r].verdict # "ALLOW"
       => guarded[r] = Neutral
    /\ pc[r] \in {"releasing", "answering"} /\ decision[r].verdict = "ALLOW" =>
          /\ guarded[r] \in Decisions
          /\ guarded[r].verdict \in {"ALLOW", "DENY"}
          /\ guarded[r].verdict = "ALLOW" => LetThrough(guarded[r], reply[r].first)
    /\ answer[r] = "allowed" => LetThrough(guarded[r], reply[r].first)

(* A request that was answered with a denial nobody recorded went nowhere.   *)
Untransformed(r) ==
    /\ answer[r] = "denied" /\ attempts[r] = 0 /\ phase[r] = "NONE"
    /\ decision[r].verdict # "DENY" /\ decision[r].transformation = "REDACT"

(* What is recorded, and what is answered.                                   *)
Recorded(r) ==
    /\ answer[r] = "none" <=> pc[r] # "done"
    /\ pc[r] \notin {"answering", "done"} => events[r] = <<>>
    /\ pc[r] = "answering" =>
          \/ events[r] = <<>> /\ ~production
          \/ events[r] = <<Overall(r).verdict>>
    /\ \/ events[r] = <<>>
       \/ events[r] = <<"ALLOW">> /\ answer[r] \in {"none", "lost", "allowed", "failed"}
       \/ events[r] = <<"DENY">> /\ answer[r] \in {"none", "lost", "denied"}
       \/ /\ events[r] = <<"NEED_APPROVAL">> /\ answer[r] \in {"none", "lost", "held"}
          /\ phase[r] # "NONE"
    /\ production /\ answer[r] \in {"allowed", "held", "denied"} /\ events[r] = <<>>
          => Untransformed(r)
    /\ answer[r] = "held" => phase[r] # "NONE"

IInv ==
    /\ Types
    /\ \A r \in Requests : Judged(r) /\ Held(r) /\ Recorded(r)

Good(r) == Judged(r) /\ Held(r) /\ Recorded(r)

(* A request that a step leaves alone stays as good as it was.               *)
Unmoved(r) ==
    /\ pc'[r] = pc[r] /\ body'[r] = body[r] /\ decision'[r] = decision[r]
    /\ guarded'[r] = guarded[r] /\ reply'[r] = reply[r] /\ attempts'[r] = attempts[r]
    /\ events'[r] = events[r] /\ answer'[r] = answer[r]
    /\ phase'[r] = phase[r] /\ permitted'[r] = permitted[r] /\ made'[r] = made[r]
    /\ production' = production

LEMMA UnmovedStaysGood ==
    ASSUME NEW r, Unmoved(r), Good(r)
    PROVE  Good(r)'
BY DEF Unmoved, Good, Judged, Held, Recorded, Forwarding, Overall, Untransformed

LEMMA InitGood == Init => IInv
<1> SUFFICES ASSUME Init PROVE IInv
    OBVIOUS
<1>1. Neutral \in DecisionRecord /\ Neutral.verdict = "ALLOW"
      BY NeutralIsAllow, DecisionsAreRecords
<1>2. Undecided \in DecisionRecord
      BY DEF Undecided, DecisionRecord, Transformations, Order
<1>3. Empty \in Bodies
      BY DEF Empty, Bodies
<1>4. guarded = [r \in Requests |-> Neutral]
      BY DEF Init, Neutral
<1>5. Types
  <2> USE DEF Init
  <2>1. /\ {up, production, policy} \subseteq BOOLEAN
        /\ crashes \in 0..MaxCrashes
        BY BoundsAssumption
  <2>2. /\ pc \in [Requests -> Stages] /\ answer \in [Requests -> Answers]
        BY DEF Stages, Answers
  <2>3. body \in [Requests -> Bodies] /\ reply \in [Requests -> Replies]
        BY <1>3 DEF Replies
  <2>4. decision \in [Requests -> DecisionRecord] /\ guarded \in [Requests -> DecisionRecord]
        BY <1>1, <1>2, <1>4
  <2>5. attempts \in [Requests -> 0..(MaxRetries + 1)]
        BY BoundsAssumption
  <2>6. events \in [Requests -> Seq(Verdicts)]
        OBVIOUS
  <2>7. /\ phase \in [Requests -> Phases] /\ tries \in [Requests -> Nat]
        /\ made \in [Requests -> Nat] /\ permitted \in [Requests -> BOOLEAN]
        BY DEF L!LInit, Phases
  <2> QED BY <2>1, <2>2, <2>3, <2>4, <2>5, <2>6, <2>7 DEF Types, TypeOK, Stages, Answers, Bodies
<1>6. ASSUME NEW r \in Requests PROVE Good(r)
  <2>1. Judged(r)
        BY DEF Judged, Init, Forwarding, Undecided, L!LInit
  <2>2. /\ pc[r] = "new" /\ attempts[r] = 0 /\ phase[r] = "NONE" /\ answer[r] = "none"
        /\ guarded[r] = Neutral
    <3>1. guarded[r] = Neutral
          BY <1>4
    <3> QED BY <3>1 DEF Init, L!LInit
  <2>4. Held(r)
        BY <2>2 DEF Held, Forwarding
  <2>3. Recorded(r)
        BY <2>2 DEF Recorded, Init
  <2> QED BY <2>1, <2>3, <2>4 DEF Good
<1> QED BY <1>5, <1>6 DEF IInv, Good

(* Requests other than the one whose handler moves.                          *)
LEMMA OthersUnmoved ==
    ASSUME NEW s \in Requests, Types, TurnAway(s) \/ Receive(s) \/ Handle(s),
           NEW r \in Requests, r # s
    PROVE  Unmoved(r)
<1> USE DEF Types, TypeOK, Unmoved, At, GoTo, Answer, processVars, lifecycleVars
<1>1. CASE TurnAway(s)
      BY <1>1 DEF TurnAway
<1>2. CASE Receive(s)
      BY <1>2 DEF Receive
<1>3. CASE Inspect(s)
  <2> PICK d \in InputDecisions[body[s]] :
          /\ decision' = [decision EXCEPT ![s] = d]
          /\ Deny(s, d) \/ Hold(s, d) \/ Forward(s, d) \/ CannotTransform(s, d) \/ CannotHold(s, d)
      BY <1>3 DEF Inspect
  <2>1. CASE Deny(s, d)
        BY <2>1 DEF Deny
  <2>2. CASE Hold(s, d)
        BY <2>2 DEF Hold, Transform, L!Submit, L!Goes
  <2>3. CASE Forward(s, d)
        BY <2>3 DEF Forward, Transform
  <2>4. CASE CannotTransform(s, d) \/ CannotHold(s, d)
        BY <2>4 DEF CannotTransform, CannotHold
  <2> QED BY <2>1, <2>2, <2>3, <2>4
<1>4. CASE CannotInspect(s)
      BY <1>4 DEF CannotInspect
<1>5. CASE Post(s)
      BY <1>5 DEF Post
<1>6. CASE PostTimesOut(s)
      BY <1>6 DEF PostTimesOut
<1>7. CASE PostFails(s)
      BY <1>7 DEF PostFails
<1>8. CASE UpstreamAnswers(s)
      BY <1>8 DEF UpstreamAnswers
<1>9. CASE Guard(s)
      BY <1>9 DEF Guard
<1>10. CASE GuardFails(s)
      BY <1>10 DEF GuardFails
<1>11. CASE Record(s)
      BY <1>11 DEF Record, AuditDecision
<1>12. CASE Release(s)
      BY <1>12 DEF Release, AuditDecision
<1>13. CASE Respond(s)
      BY <1>13 DEF Respond
<1> QED BY <1>1, <1>2, <1>3, <1>4, <1>5, <1>6, <1>7, <1>8, <1>9, <1>10, <1>11, <1>12, <1>13
        DEF Handle

------------------------------------------------------------------------------
(* The steps of a handler                                                    *)

(* The verdict to be recorded is the input plane's, or the guard's if that   *)
(* one allows, and is backed by what was done.                               *)
LEMMA OverallVerdict ==
    ASSUME NEW s, Judged(s), Held(s), pc[s] \in {"recording", "releasing", "answering"}
    PROVE  /\ Overall(s).verdict \in Verdicts
           /\ Overall(s).verdict = "NEED_APPROVAL" =>
                  decision[s].verdict = "NEED_APPROVAL" /\ phase[s] # "NONE"
           /\ Overall(s).verdict = "ALLOW" =>
                  /\ decision[s].verdict = "ALLOW" /\ attempts[s] > 0
                  /\ LetThrough(guarded[s], reply[s].first)
           /\ Overall(s).verdict = "DENY" =>
                  \/ decision[s].verdict = "DENY"
                  \/ decision[s].verdict = "ALLOW" /\ attempts[s] > 0
           /\ decision[s].verdict = "NEED_APPROVAL" => Overall(s).verdict = "NEED_APPROVAL"
<1>1. decision[s] \in Decisions /\ guarded[s] \in Decisions
      BY NeutralIsAllow DEF Judged, Held, Forwarding
<1>2. CASE decision[s].verdict = "ALLOW"
  <2>1. /\ pc[s] \in {"releasing", "answering"} /\ attempts[s] > 0
        /\ guarded[s].verdict \in {"ALLOW", "DENY"}
        /\ guarded[s].verdict = "ALLOW" => LetThrough(guarded[s], reply[s].first)
        BY <1>2 DEF Judged, Held
  <2>2. Overall(s).verdict = guarded[s].verdict
        BY <1>1, <1>2, AllowIsNeutral DEF Overall
  <2> QED BY <1>2, <2>1, <2>2 DEF Verdicts, Rank
<1>3. CASE decision[s].verdict # "ALLOW"
  <2>1. /\ guarded[s].verdict = "ALLOW"
        /\ \/ decision[s].verdict = "DENY"
           \/ decision[s].verdict = "NEED_APPROVAL" /\ phase[s] # "NONE"
        BY <1>3, NeutralIsAllow DEF Judged, Held, Forwarding
  <2>2. Overall(s).verdict = decision[s].verdict
        BY <1>1, <2>1, AllowIsNeutral DEF Overall
  <2> QED BY <2>1, <2>2 DEF Verdicts, Rank
<1> QED BY <1>2, <1>3

(* The client is answered with that verdict.                                 *)
LEMMA RespondAnswers ==
    ASSUME NEW s \in Requests, Judged(s), Held(s), DOMAIN answer = Requests, Respond(s)
    PROVE  \/ Overall(s).verdict = "DENY" /\ answer'[s] = "denied"
           \/ Overall(s).verdict = "NEED_APPROVAL" /\ answer'[s] = "held"
           \/ Overall(s).verdict = "ALLOW" /\ answer'[s] \in {"allowed", "failed"}
<1>1. /\ pc[s] = "answering"
      /\ \/ Overall(s).verdict = "DENY" /\ answer'[s] = "denied"
         \/ decision[s].verdict = "NEED_APPROVAL" /\ answer'[s] = "held"
         \/ /\ decision[s].verdict = "ALLOW" /\ Overall(s).verdict # "DENY"
            /\ answer'[s] \in {"allowed", "failed"}
      BY DEF Respond, At, Answer
<1>2. /\ Overall(s).verdict \in {"ALLOW", "NEED_APPROVAL", "DENY"}
      /\ decision[s].verdict = "NEED_APPROVAL" <=> Overall(s).verdict = "NEED_APPROVAL"
      BY <1>1, OverallVerdict DEF Verdicts, Rank
<1> QED BY <1>1, <1>2

(* What a handler does keeps the types.                                      *)
LEMMA HandlerTyped ==
    ASSUME IInv, NEW s \in Requests, TurnAway(s) \/ Receive(s) \/ Handle(s)
    PROVE  Types'
<1> USE DEF At, GoTo, Answer, processVars, lifecycleVars
<1>1. /\ up' \in BOOLEAN /\ production' \in BOOLEAN /\ policy' \in BOOLEAN
      /\ crashes' \in 0..MaxCrashes
      /\ tries' \in [Requests -> Nat] /\ made' \in [Requests -> Nat]
      /\ permitted' \in [Requests -> BOOLEAN]
  <2>1. UNCHANGED <<processVars, tries, permitted, made>>
        BY DEF Handle, TurnAway, Receive, Inspect, Deny, Hold, Forward, CannotTransform, CannotHold, L!Submit,
               CannotInspect, Post, PostTimesOut, PostFails, UpstreamAnswers, Guard, GuardFails,
               Record, Release, Respond
  <2> QED BY <2>1 DEF IInv, Types, TypeOK
<1>2. pc' \in [Requests -> Stages] /\ answer' \in [Requests -> Answers]
  <2>0. pc \in [Requests -> Stages] /\ answer \in [Requests -> Answers]
        BY DEF IInv, Types, TypeOK, Stages, Answers
  <2>1. \/ \E there \in Stages : GoTo(s, there)
        \/ \E how \in Answers : Answer(s, how)
    <3> USE DEF Stages, Answers
    <3>1. CASE Record(s) \/ Release(s)
          BY <3>1 DEF Record, Release, AuditDecision
    <3>4. CASE Respond(s)
          BY <3>4 DEF Respond
    <3>2. CASE Inspect(s)
          BY <3>2 DEF Inspect, Deny, Hold, Forward, CannotTransform, CannotHold
    <3>3. CASE TurnAway(s) \/ Receive(s)
          BY <3>3 DEF TurnAway, Receive
    <3> QED BY <3>1, <3>2, <3>3, <3>4
            DEF Handle, CannotInspect, Post, PostTimesOut, PostFails, UpstreamAnswers,
                Guard, GuardFails
  <2>2. "done" \in Stages
        BY DEF Stages
  <2> QED BY <2>0, <2>1, <2>2
<1>3. /\ body' \in [Requests -> Bodies] /\ decision' \in [Requests -> DecisionRecord]
      /\ phase' \in [Requests -> Phases]
  <2>0. /\ body \in [Requests -> Bodies] /\ decision \in [Requests -> DecisionRecord]
        /\ phase \in [Requests -> Phases]
        BY DEF IInv, Types, TypeOK, Bodies
  <2>1. CASE Inspect(s)
    <3>1. body[s] \in RequestBodies /\ body[s] \in Bodies
          BY <2>0, <2>1 DEF Inspect, IInv, Held
    <3>2. PICK d \in InputDecisions[body[s]] :
            /\ decision' = [decision EXCEPT ![s] = d]
            /\ Deny(s, d) \/ Hold(s, d) \/ Forward(s, d) \/ CannotTransform(s, d) \/ CannotHold(s, d)
          BY <2>1 DEF Inspect
    <3>3. d \in DecisionRecord
          BY <3>1, <3>2, InputDecided, DecisionsAreRecords
    <3>4. body' = body \/ body' = [body EXCEPT ![s] = Transformed(body[s], d.transformation)]
          BY <3>2 DEF Deny, Hold, Forward, CannotTransform, CannotHold, Transform
    <3>5. phase' = phase \/ phase' = [phase EXCEPT ![s] = "PENDING"]
          BY <3>2 DEF Deny, Hold, Forward, CannotTransform, CannotHold, L!Submit, L!Goes
    <3>6. Transformed(body[s], d.transformation) \in Bodies
          BY <3>1, TransformedTyped
    <3>7. decision' \in [Requests -> DecisionRecord]
          BY <2>0, <3>2, <3>3
    <3>8. body' \in [Requests -> Bodies]
          BY <2>0, <3>4, <3>6
    <3>9. phase' \in [Requests -> Phases]
          BY <2>0, <3>5 DEF Phases
    <3> QED BY <3>7, <3>8, <3>9
  <2>2. CASE Receive(s)
    <3>1. PICK content \in RequestBodies : body' = [body EXCEPT ![s] = content]
          BY <2>2 DEF Receive
    <3>2. content \in Bodies
          BY BodiesAssumption
    <3> QED BY <2>0, <2>2, <3>1, <3>2 DEF Receive
  <2>3. CASE ~Inspect(s) /\ ~Receive(s)
    <3>1. UNCHANGED <<body, decision, phase>>
          BY <2>3 DEF Handle, TurnAway, CannotInspect, Post, PostTimesOut, PostFails,
                 UpstreamAnswers, Guard, GuardFails, Record, Release, Respond
    <3> QED BY <2>0, <3>1
  <2> QED BY <2>1, <2>2, <2>3
<1>4. reply' \in [Requests -> Replies] /\ guarded' \in [Requests -> DecisionRecord]
  <2>0. reply \in [Requests -> Replies] /\ guarded \in [Requests -> DecisionRecord]
        BY DEF IInv, Types, TypeOK
  <2>1. CASE Guard(s)
    <3>1. reply[s] \in ResponseBodies /\ reply[s] \in Replies
          BY <2>0, <2>1 DEF Guard, IInv, Held
    <3>2. PICK d \in GuardDecisions[reply[s].first] :
            /\ guarded' = [guarded EXCEPT ![s] = d]
            /\ reply' = [reply EXCEPT ![s].first = IF d.verdict = "ALLOW"
                                                  THEN Transformed(@, d.transformation) ELSE @]
          BY <2>1 DEF Guard
    <3>3. d \in DecisionRecord
          BY <3>1, <3>2, GuardDecided, DecisionsAreRecords
    <3>4. reply[s].first \in Bodies /\ Transformed(reply[s].first, d.transformation) \in Bodies
          BY <3>1, TransformedTyped DEF Replies
    <3>5. PICK sanitized \in Bodies : reply' = [reply EXCEPT ![s].first = sanitized]
          BY <3>2, <3>4
    <3>6. [reply[s] EXCEPT !.first = sanitized] \in Replies
          BY <3>1 DEF Replies
    <3> QED BY <2>0, <3>2, <3>3, <3>5, <3>6
  <2>2. CASE UpstreamAnswers(s)
    <3>1. PICK answered \in ResponseBodies : reply' = [reply EXCEPT ![s] = answered]
          BY <2>2 DEF UpstreamAnswers
    <3>2. answered \in Replies
          BY BodiesAssumption
    <3> QED BY <2>0, <2>2, <3>1, <3>2 DEF UpstreamAnswers
  <2>3. CASE ~Guard(s) /\ ~UpstreamAnswers(s)
    <3>1. UNCHANGED <<reply, guarded>>
          BY <2>3 DEF Handle, TurnAway, Receive, Inspect, Deny, Hold, Forward, CannotTransform,
                 CannotHold, CannotInspect, Post, PostTimesOut, PostFails, GuardFails, Record,
                 Release, Respond
    <3> QED BY <2>0, <3>1
  <2> QED BY <2>1, <2>2, <2>3
<1>5. attempts' \in [Requests -> 0..(MaxRetries + 1)]
  <2>0. attempts \in [Requests -> 0..(MaxRetries + 1)]
        BY DEF IInv, Types, TypeOK
  <2>1. CASE Post(s)
    <3>1. attempts[s] \in Nat /\ attempts[s] <= MaxRetries
          BY <2>0, <2>1, BoundsAssumption DEF Post, IInv, Judged
    <3> QED BY <2>0, <2>1, <3>1, BoundsAssumption DEF Post
  <2>2. CASE ~Post(s)
    <3>1. UNCHANGED attempts
          BY <2>2 DEF Handle, TurnAway, Receive, Inspect, Deny, Hold, Forward, CannotTransform, CannotHold,
                 CannotInspect, PostTimesOut, PostFails, UpstreamAnswers, Guard, GuardFails,
                 Record, Release, Respond
    <3> QED BY <2>0, <3>1
  <2> QED BY <2>1, <2>2
<1>6. events' \in [Requests -> Seq(Verdicts)]
  <2>0. events \in [Requests -> Seq(Verdicts)]
        BY DEF IInv, Types, TypeOK
  <2>1. CASE Record(s) \/ Release(s)
    <3>1. Overall(s).verdict \in Verdicts
          BY <2>1, OverallVerdict DEF Record, Release, IInv
    <3>2. events' = events \/ events' = [events EXCEPT ![s] = Append(@, Overall(s).verdict)]
          BY <2>1 DEF Record, Release, AuditDecision
    <3> QED BY <2>0, <3>1, <3>2
  <2>2. CASE ~Record(s) /\ ~Release(s)
    <3>1. UNCHANGED events
          BY <2>2 DEF Handle, TurnAway, Receive, Inspect, Deny, Hold, Forward, CannotTransform, CannotHold,
                 CannotInspect, Post, PostTimesOut, PostFails, UpstreamAnswers, Guard, GuardFails,
                 Respond
    <3> QED BY <2>0, <3>1
  <2> QED BY <2>1, <2>2
<1> QED BY <1>1, <1>2, <1>3, <1>4, <1>5, <1>6
        DEF Types, TypeOK, Stages, Answers, Bodies

(* The decision of the input plane: what is denied, held or forwarded is as  *)
(* good as its decision asks for.                                            *)
LEMMA InspectStaysGood ==
    ASSUME IInv, NEW s \in Requests, Inspect(s)
    PROVE  Good(s)'
<1> USE DEF At, GoTo, Answer, processVars, lifecycleVars
<1>0. /\ pc[s] = "inspecting" /\ body[s] \in RequestBodies /\ guarded[s] = Neutral
      /\ decision[s].verdict = "NONE" /\ answer[s] = "none" /\ events[s] = <<>>
      /\ attempts[s] = 0 /\ phase[s] = "NONE" /\ ~permitted[s] /\ made[s] = 0
      /\ DOMAIN pc = Requests /\ DOMAIN body = Requests /\ DOMAIN decision = Requests
      /\ DOMAIN answer = Requests /\ DOMAIN phase = Requests
  <2>1. attempts[s] \in Nat
        BY BoundsAssumption DEF IInv, Types, TypeOK
  <2>2. /\ pc[s] = "inspecting" /\ Judged(s) /\ Held(s) /\ Recorded(s)
        BY DEF Inspect, IInv
  <2> QED BY <2>1, <2>2 DEF IInv, Types, TypeOK, Judged, Held, Recorded
<1>1. PICK d \in InputDecisions[body[s]] :
          /\ decision' = [decision EXCEPT ![s] = d]
          /\ Deny(s, d) \/ Hold(s, d) \/ Forward(s, d) \/ CannotTransform(s, d) \/ CannotHold(s, d)
      BY DEF Inspect
<1>2. d \in Decisions /\ decision'[s] = d /\ d.verdict \in Verdicts
      BY <1>0, <1>1, InputDecided DEF Decisions
<1>3. UNCHANGED <<guarded, reply, attempts, events, production, permitted, made>>
      BY <1>1 DEF Deny, Hold, Forward, CannotTransform, CannotHold, L!Submit
<1>4. d.transformation = "REDACT" => Text(Transformed(body[s], d.transformation)) \cap Redactable = {}
      BY Redacted
<1>5. CASE Deny(s, d)
  <2>1. /\ pc'[s] = "recording" /\ answer'[s] = "none" /\ phase'[s] = "NONE"
        /\ d.verdict = "DENY"
        BY <1>0, <1>5 DEF Deny
  <2> QED BY <1>0, <1>2, <1>3, <2>1 DEF Good, Judged, Held, Recorded, Forwarding
<1>6. CASE Hold(s, d)
  <2>1. /\ pc'[s] = "recording" /\ answer'[s] = "none" /\ phase'[s] = "PENDING"
        /\ d.verdict = "NEED_APPROVAL" /\ body'[s] = Transformed(body[s], d.transformation)
        BY <1>0, <1>6 DEF Hold, Transform, L!Submit, L!Goes
  <2> QED BY <1>0, <1>2, <1>3, <1>4, <2>1 DEF Good, Judged, Held, Recorded, Forwarding
<1>7. CASE Forward(s, d)
  <2>1. /\ pc'[s] = "calling" /\ answer'[s] = "none" /\ phase'[s] = "NONE"
        /\ d.verdict = "ALLOW" /\ body'[s] = Transformed(body[s], d.transformation)
        BY <1>0, <1>7 DEF Forward, Transform
  <2> QED BY <1>0, <1>2, <1>3, <1>4, <2>1, BoundsAssumption
          DEF Good, Judged, Held, Recorded, Forwarding
<1>8. CASE CannotTransform(s, d)
  <2>1. /\ pc'[s] = "done" /\ answer'[s] = "denied" /\ phase'[s] = "NONE"
        /\ d.verdict # "DENY" /\ d.transformation = "REDACT"
        BY <1>0, <1>8 DEF CannotTransform
  <2> QED BY <1>0, <1>2, <1>3, <2>1 DEF Good, Judged, Held, Recorded, Untransformed, Forwarding
<1>9. CASE CannotHold(s, d)
  <2>1. pc'[s] = "done" /\ answer'[s] = "failed" /\ phase'[s] = "NONE"
        BY <1>0, <1>9 DEF CannotHold
  <2> QED BY <1>0, <1>2, <1>3, <2>1 DEF Good, Judged, Held, Recorded, Forwarding
<1> QED BY <1>1, <1>5, <1>6, <1>7, <1>8, <1>9

(* The guard's decision on the answer.                                       *)
LEMMA GuardStaysGood ==
    ASSUME IInv, NEW s \in Requests, Guard(s)
    PROVE  Good(s)'
<1> USE DEF At, GoTo, Answer, processVars, lifecycleVars
<1>0. /\ pc[s] = "guarding" /\ Judged(s) /\ Held(s) /\ Recorded(s)
      /\ DOMAIN pc = Requests /\ DOMAIN reply = Requests /\ DOMAIN guarded = Requests
      /\ reply[s] \in Replies
      BY DEF Guard, IInv, Types, TypeOK
<1>1. PICK d \in GuardDecisions[reply[s].first] :
          /\ guarded' = [guarded EXCEPT ![s] = d]
          /\ reply' = [reply EXCEPT ![s].first = IF d.verdict = "ALLOW"
                                                THEN Transformed(@, d.transformation) ELSE @]
      BY DEF Guard
<1>2. reply[s] \in ResponseBodies
      BY <1>0 DEF Held
<1>3. d.verdict = "ALLOW" => reply'[s].first = Transformed(reply[s].first, d.transformation)
      BY <1>0, <1>1 DEF Replies
<1>4. /\ guarded'[s] = d /\ d \in Decisions /\ d.verdict \in {"ALLOW", "DENY"}
      /\ d.verdict = "ALLOW" => LetThrough(d, reply'[s].first)
      BY <1>0, <1>1, <1>2, <1>3, GuardDecided
<1>5. /\ pc'[s] = "releasing"
      /\ UNCHANGED <<body, decision, attempts, events, answer, production, phase, permitted, made>>
      BY <1>0 DEF Guard
<1> QED BY <1>0, <1>4, <1>5 DEF Good, Judged, Held, Recorded, Forwarding

(* What is recorded is the verdict of the answer that follows.               *)
LEMMA AuditStaysGood ==
    ASSUME IInv, NEW s \in Requests, Record(s) \/ Release(s)
    PROVE  Good(s)'
<1> USE DEF At, GoTo, Answer, processVars, lifecycleVars
<1>0. /\ pc[s] \in {"recording", "releasing"} /\ Judged(s) /\ Held(s) /\ Recorded(s)
      /\ DOMAIN pc = Requests /\ DOMAIN answer = Requests /\ DOMAIN events = Requests
      /\ answer[s] = "none" /\ events[s] = <<>>
      BY DEF Record, Release, IInv, Types, TypeOK, Recorded
<1>1. UNCHANGED <<body, decision, guarded, reply, attempts, production, phase, permitted, made>>
      BY DEF Record, Release
<1>2. \/ /\ pc'[s] = "answering" /\ answer'[s] = "none"
         /\ events'[s] = <<Overall(s).verdict>> \/ (events'[s] = <<>> /\ ~production)
      \/ pc'[s] = "done" /\ answer'[s] = "failed" /\ events'[s] = <<>>
  <2>1. AuditDecision(s)
        BY DEF Record, Release
  <2>2. CASE /\ events' = [events EXCEPT ![s] = Append(@, Overall(s).verdict)]
             /\ GoTo(s, "answering")
        BY <1>0, <2>2
  <2>3. CASE /\ IF production THEN Answer(s, "failed") ELSE GoTo(s, "answering")
             /\ UNCHANGED events
    <3>1. CASE production
          BY <1>0, <2>3, <3>1
    <3>2. CASE ~production
          BY <1>0, <2>3, <3>2
    <3> QED BY <3>1, <3>2
  <2> QED BY <2>1, <2>2, <2>3 DEF AuditDecision
<1>3. Judged(s)'
      BY <1>0, <1>1, <1>2 DEF Judged, Forwarding
<1>4. Held(s)'
      BY <1>0, <1>1, <1>2 DEF Held, Judged, Forwarding
<1>5. Recorded(s)'
  <2>1. Overall(s)' = Overall(s)
        BY <1>1 DEF Overall
  <2>2. /\ Overall(s).verdict \in {"ALLOW", "NEED_APPROVAL", "DENY"}
        /\ Overall(s).verdict = "NEED_APPROVAL" => phase[s] # "NONE"
        BY <1>0, OverallVerdict DEF Verdicts, Rank
  <2> QED BY <1>1, <1>2, <2>1, <2>2 DEF Recorded
<1> QED BY <1>3, <1>4, <1>5 DEF Good

(* The answer is the verdict that was recorded, or should have been.         *)
LEMMA RespondStaysGood ==
    ASSUME IInv, NEW s \in Requests, Respond(s)
    PROVE  Good(s)'
<1> USE DEF At, Answer, processVars, lifecycleVars
<1>0. /\ pc[s] = "answering" /\ Judged(s) /\ Held(s) /\ Recorded(s)
      /\ DOMAIN pc = Requests /\ DOMAIN answer = Requests
      BY DEF Respond, IInv, Types, TypeOK
<1>1. /\ UNCHANGED <<body, decision, guarded, reply, attempts, events, production, phase,
                     permitted, made>>
      /\ pc'[s] = "done"
      BY <1>0 DEF Respond
<1>2. \/ Overall(s).verdict = "DENY" /\ answer'[s] = "denied"
      \/ Overall(s).verdict = "NEED_APPROVAL" /\ answer'[s] = "held"
      \/ Overall(s).verdict = "ALLOW" /\ answer'[s] \in {"allowed", "failed"}
      BY <1>0, RespondAnswers
<1>3. /\ Overall(s).verdict = "NEED_APPROVAL" => phase[s] # "NONE"
      /\ Overall(s).verdict = "ALLOW" => LetThrough(guarded[s], reply[s].first)
      BY <1>0, OverallVerdict
<1>4. events[s] = <<Overall(s).verdict>> \/ (events[s] = <<>> /\ ~production)
      BY <1>0 DEF Recorded
<1>5. Judged(s)'
      BY <1>0, <1>1 DEF Judged, Forwarding
<1>6. Held(s)'
      BY <1>0, <1>1, <1>2, <1>3 DEF Held, Forwarding
<1>7. Recorded(s)'
  <2>1. /\ answer'[s] # "none" /\ answer'[s] # "lost" /\ pc'[s] = "done"
        /\ answer'[s] = "held" => phase'[s] # "NONE"
        BY <1>1, <1>2, <1>3
  <2>2. CASE events[s] = <<>> /\ ~production
    <3>1. events'[s] = <<>> /\ ~production'
          BY <1>1, <2>2
    <3> QED BY <2>1, <3>1 DEF Recorded
  <2>3. CASE events[s] = <<Overall(s).verdict>>
    <3> DEFINE v == Overall(s).verdict
    <3>1. events'[s] = <<v>> /\ events'[s] # <<>>
          BY <1>1, <2>3
    <3>2. \/ v = "DENY" /\ answer'[s] = "denied"
          \/ v = "NEED_APPROVAL" /\ answer'[s] = "held"
          \/ v = "ALLOW" /\ answer'[s] \in {"allowed", "failed"}
          BY <1>2
    <3> HIDE DEF v
    <3>3. \/ events'[s] = <<"ALLOW">> /\ answer'[s] \in {"allowed", "failed"}
          \/ events'[s] = <<"DENY">> /\ answer'[s] = "denied"
          \/ events'[s] = <<"NEED_APPROVAL">> /\ answer'[s] = "held"
          BY <3>1, <3>2
    <3> QED BY <2>1, <3>1, <3>3 DEF Recorded
  <2> QED BY <1>4, <2>2, <2>3
<1> QED BY <1>5, <1>6, <1>7 DEF Good

(* Every other action.                                                       *)
LEMMA HandlerStaysGood ==
    ASSUME IInv, NEW s \in Requests, TurnAway(s) \/ Receive(s) \/ Handle(s)
    PROVE  Good(s)'
<1> USE DEF At, GoTo, Answer, processVars, lifecycleVars
<1>0. /\ Judged(s) /\ Held(s) /\ Recorded(s)
      /\ DOMAIN pc = Requests /\ DOMAIN answer = Requests /\ DOMAIN body = Requests
      /\ DOMAIN reply = Requests /\ attempts \in [Requests -> 0..(MaxRetries + 1)]
      BY DEF IInv, Types, TypeOK
<1>1. CASE TurnAway(s) \/ CannotInspect(s) \/ PostFails(s) \/ GuardFails(s)
  <2>1. /\ UNCHANGED <<body, decision, guarded, reply, attempts, events, production,
                      phase, permitted, made>>
        /\ pc'[s] = "done" /\ answer'[s] = "failed" /\ pc[s] \notin {"answering", "done"}
        BY <1>0, <1>1 DEF TurnAway, CannotInspect, PostFails, GuardFails
  <2> QED BY <1>0, <2>1 DEF Good, Judged, Held, Recorded, Forwarding
<1>2. CASE Receive(s)
  <2>1. /\ UNCHANGED <<decision, guarded, reply, attempts, events, production, answer,
                      phase, permitted, made>>
        /\ pc'[s] = "inspecting" /\ pc[s] = "new" /\ body'[s] \in RequestBodies
        BY <1>0, <1>2 DEF Receive
  <2>2. attempts[s] = 0 /\ phase[s] = "NONE"
        BY <1>0, <2>1, BoundsAssumption DEF Judged
  <2> QED BY <1>0, <2>1, <2>2 DEF Good, Judged, Held, Recorded, Forwarding
<1>3. CASE Inspect(s)
      BY <1>3, InspectStaysGood
<1>4. CASE Post(s)
  <2>1. /\ UNCHANGED <<body, decision, guarded, reply, events, production, answer,
                      phase, permitted, made>>
        /\ pc'[s] = "waiting" /\ pc[s] = "calling" /\ attempts'[s] = attempts[s] + 1
        BY <1>0, <1>4 DEF Post
  <2>2. attempts'[s] > 0
        BY <1>0, <2>1, BoundsAssumption
  <2> QED BY <1>0, <2>1, <2>2 DEF Good, Judged, Held, Recorded, Forwarding
<1>5. CASE PostTimesOut(s)
  <2>1. /\ UNCHANGED <<body, decision, guarded, reply, attempts, events, production,
                      phase, permitted, made>>
        /\ pc[s] = "waiting"
        /\ \/ pc'[s] = "calling" /\ answer'[s] = answer[s] /\ attempts[s] <= MaxRetries
           \/ pc'[s] = "done" /\ answer'[s] = "failed"
        BY <1>0, <1>5 DEF PostTimesOut
  <2> QED BY <1>0, <2>1 DEF Good, Judged, Held, Recorded, Forwarding
<1>6. CASE UpstreamAnswers(s)
  <2>1. /\ UNCHANGED <<body, decision, guarded, attempts, events, production, answer,
                      phase, permitted, made>>
        /\ pc'[s] = "guarding" /\ pc[s] = "waiting" /\ reply'[s] \in ResponseBodies
        BY <1>0, <1>6 DEF UpstreamAnswers
  <2> QED BY <1>0, <2>1 DEF Good, Judged, Held, Recorded, Forwarding
<1>7. CASE Guard(s)
      BY <1>7, GuardStaysGood
<1>8. CASE Record(s) \/ Release(s)
      BY <1>8, AuditStaysGood
<1>9. CASE Respond(s)
      BY <1>9, RespondStaysGood
<1> QED BY <1>1, <1>2, <1>3, <1>4, <1>5, <1>6, <1>7, <1>8, <1>9 DEF Handle

------------------------------------------------------------------------------
(* The other steps                                                           *)

(* An approval that exists goes on existing, and only such a one is claimed. *)
LEMMA EngineKeepsIInv ==
    ASSUME IInv, Engine
    PROVE  IInv'
<1> USE DEF processVars, handlerVars
<1>1. /\ phase \in [Requests -> Phases] /\ tries \in [Requests -> Nat]
      /\ made \in [Requests -> Nat] /\ permitted \in [Requests -> BOOLEAN]
      /\ TypeOK
      /\ \A r \in Requests :
            /\ Judged(r) /\ Held(r) /\ Recorded(r)
            /\ phase[r] = "NONE" => ~permitted[r] /\ made[r] = 0
      BY DEF IInv, Types, Judged
<1>2. /\ phase' \in [Requests -> Phases] /\ tries' \in [Requests -> Nat]
      /\ made' \in [Requests -> Nat] /\ permitted' \in [Requests -> BOOLEAN]
      /\ \A r \in Requests :
            /\ phase'[r] = "NONE" <=> phase[r] = "NONE"
            /\ phase'[r] = "NONE" => ~permitted'[r] /\ made'[r] = 0
  <2>1. ASSUME NEW a \in Requests,
               L!Review(a) \/ L!Claim(a) \/ L!Call(a) \/ L!Refuse(a) \/ L!Finish(a)
        PROVE  /\ phase' \in [Requests -> Phases] /\ tries' \in [Requests -> Nat]
               /\ made' \in [Requests -> Nat] /\ permitted' \in [Requests -> BOOLEAN]
               /\ \A r \in Requests :
                     /\ phase'[r] = "NONE" <=> phase[r] = "NONE"
                     /\ phase'[r] = "NONE" => ~permitted'[r] /\ made'[r] = 0
    <3>0. phase[a] \in Phases \ {"NONE"}
      <4>1. CASE L!Call(a)
        <5>1. permitted[a] /\ phase[a] \in Phases
              BY <1>1, <4>1 DEF L!Call
        <5>2. phase[a] = "NONE" => ~permitted[a]
              BY <1>1
        <5> QED BY <5>1, <5>2
      <4>2. CASE ~L!Call(a)
            BY <2>1, <4>2 DEF L!Review, L!Claim, L!Refuse, L!Finish, L!Goes, Phases
      <4> QED BY <4>1, <4>2
    <3>1. phase' = phase \/ \E to \in Phases \ {"NONE"} : phase' = [phase EXCEPT ![a] = to]
          BY <2>1 DEF L!Review, L!Claim, L!Call, L!Refuse, L!Finish, L!Goes, Phases
    <3>2. tries' = tries \/ tries' = [tries EXCEPT ![a] = @ + 1]
          BY <2>1 DEF L!Review, L!Claim, L!Call, L!Refuse, L!Finish
    <3>3. made' = made \/ made' = [made EXCEPT ![a] = @ + 1]
          BY <2>1 DEF L!Review, L!Claim, L!Call, L!Refuse, L!Finish
    <3>4. permitted' = permitted \/ \E b \in BOOLEAN : permitted' = [permitted EXCEPT ![a] = b]
          BY <2>1 DEF L!Review, L!Claim, L!Call, L!Refuse, L!Finish
    <3>5. phase' \in [Requests -> Phases]
          BY <1>1, <3>1
    <3>6. tries' \in [Requests -> Nat] /\ made' \in [Requests -> Nat]
          BY <1>1, <3>2, <3>3
    <3>7. permitted' \in [Requests -> BOOLEAN]
          BY <1>1, <3>4
    <3>8. ASSUME NEW r \in Requests
          PROVE  /\ phase'[r] = "NONE" <=> phase[r] = "NONE"
                 /\ phase'[r] = "NONE" => ~permitted'[r] /\ made'[r] = 0
      <4>1. CASE r = a
        <5>1. phase'[a] # "NONE"
              BY <1>1, <3>0, <3>1
        <5> QED BY <3>0, <4>1, <5>1
      <4>2. CASE r # a
        <5>1. phase'[r] = phase[r] /\ made'[r] = made[r]
              BY <1>1, <3>1, <3>3, <4>2
        <5>2. permitted'[r] = permitted[r]
              BY <1>1, <3>4, <4>2
        <5>3. phase[r] = "NONE" => ~permitted[r] /\ made[r] = 0
              BY <1>1
        <5> QED BY <5>1, <5>2, <5>3
      <4> QED BY <4>1, <4>2
    <3> QED BY <3>5, <3>6, <3>7, <3>8
  <2>2. CASE \E gone \in SUBSET Requests : L!Expire(gone)
    <3>1. PICK gone \in SUBSET Requests : L!Expire(gone)
          BY <2>2
    <3>2. /\ \A r \in gone : phase[r] # "NONE"
          /\ phase' = [r \in Requests |-> IF r \in gone THEN "EXPIRED" ELSE phase[r]]
          /\ UNCHANGED <<tries, permitted, made>>
          BY <3>1 DEF L!Expire
    <3>3. phase' \in [Requests -> Phases]
          BY <1>1, <3>2 DEF Phases
    <3>4. ASSUME NEW r \in Requests
          PROVE  /\ phase'[r] = "NONE" <=> phase[r] = "NONE"
                 /\ phase'[r] = "NONE" => ~permitted'[r] /\ made'[r] = 0
      <4>1. phase'[r] = "NONE" <=> phase[r] = "NONE"
            BY <3>2
      <4>2. phase[r] = "NONE" => ~permitted[r] /\ made[r] = 0
            BY <1>1
      <4> QED BY <3>2, <4>1, <4>2
    <3>5. tries' \in [Requests -> Nat] /\ made' \in [Requests -> Nat]
          BY <1>1, <3>2
    <3>6. permitted' \in [Requests -> BOOLEAN]
          BY <1>1, <3>2
    <3> QED BY <3>3, <3>4, <3>5, <3>6
  <2> QED BY <2>1, <2>2 DEF Engine
<1>3. UNCHANGED <<up, crashes, production, policy, pc, body, decision, guarded, reply,
                  attempts, events, answer>>
      BY DEF Engine
<1>4. Types'
      BY <1>1, <1>2, <1>3 DEF Types, TypeOK
<1>5. ASSUME NEW r \in Requests PROVE Judged(r)' /\ Held(r)' /\ Recorded(r)'
  <2>1. /\ Judged(r) /\ Held(r) /\ Recorded(r)
        /\ phase'[r] = "NONE" <=> phase[r] = "NONE"
        /\ phase'[r] = "NONE" => ~permitted'[r] /\ made'[r] = 0
        BY <1>1, <1>2
  <2>2. Judged(r)'
        BY <1>3, <2>1 DEF Judged, Forwarding
  <2>3. Held(r)'
        BY <1>3, <2>1 DEF Held, Forwarding
  <2>4. Recorded(r)'
        BY <1>3, <2>1 DEF Recorded, Overall, Untransformed
  <2> QED BY <2>2, <2>3, <2>4
<1> QED BY <1>4, <1>5 DEF IInv

(* A crash ends whatever was under way without an answer; what was recorded  *)
(* stays.                                                                    *)
LEMMA CrashKeepsIInv ==
    ASSUME IInv, Crash
    PROVE  IInv'
<1>1. /\ up' = FALSE /\ crashes' \in 0..MaxCrashes
      /\ UNCHANGED <<production, policy, body, decision, guarded, reply, attempts, events,
                     phase, tries, made>>
      /\ permitted' = [r \in Requests |-> FALSE]
      BY BoundsAssumption DEF Crash, L!Crash, IInv, Types, TypeOK
<1>2. /\ pc' = [r \in Requests |-> IF pc[r] = "new" THEN "new" ELSE "done"]
      /\ answer' = [r \in Requests |-> IF pc[r] \in {"new", "done"} THEN answer[r] ELSE "lost"]
      BY DEF Crash
<1>3. pc' \in [Requests -> Stages] /\ answer' \in [Requests -> Answers]
      BY <1>2 DEF IInv, Types, TypeOK, Stages, Answers
<1>4. Types'
      BY <1>1, <1>3 DEF IInv, Types, TypeOK, Stages, Answers
<1>5. ASSUME NEW r \in Requests PROVE Judged(r)' /\ Held(r)' /\ Recorded(r)'
  <2>1. /\ Judged(r) /\ Held(r) /\ Recorded(r)
        /\ pc'[r] = IF pc[r] = "new" THEN "new" ELSE "done"
        /\ answer'[r] = IF pc[r] \in {"new", "done"} THEN answer[r] ELSE "lost"
        /\ permitted'[r] = FALSE
        BY <1>1, <1>2 DEF IInv
  <2> QED BY <1>1, <2>1 DEF Judged, Held, Recorded, Forwarding, Overall, Untransformed
<1> QED BY <1>4, <1>5 DEF IInv

(* A restart returns claimed approvals to their place or gives them up.      *)
LEMMA RestartKeepsIInv ==
    ASSUME IInv, Restart
    PROVE  IInv'
<1>1. /\ up' = TRUE /\ policy' \in BOOLEAN
      /\ UNCHANGED <<crashes, production, pc, body, decision, guarded, reply, attempts, events,
                     answer, tries, permitted, made>>
      BY DEF Restart, L!Recover, handlerVars
<1>2. phase' = [r \in Requests |-> IF phase[r] # "RESUMING" THEN phase[r]
                                  ELSE IF tries[r] < MaxResumeAttempts THEN "APPROVED"
                                  ELSE "FAILED"]
      BY DEF Restart, L!Recover
<1>3. /\ phase' \in [Requests -> Phases]
      /\ \A r \in Requests : phase'[r] = "NONE" <=> phase[r] = "NONE"
      BY <1>2 DEF IInv, Types, Phases
<1>4. Types'
      BY <1>1, <1>3 DEF IInv, Types, TypeOK
<1>5. ASSUME NEW r \in Requests PROVE Judged(r)' /\ Held(r)' /\ Recorded(r)'
  <2>1. Judged(r) /\ Held(r) /\ Recorded(r) /\ (phase'[r] = "NONE" <=> phase[r] = "NONE")
        BY <1>3 DEF IInv
  <2> QED BY <1>1, <2>1 DEF Judged, Held, Recorded, Forwarding, Overall, Untransformed
<1> QED BY <1>4, <1>5 DEF IInv

(* IInv is inductive.                                                        *)
LEMMA StepKeepsIInv == IInv /\ [Next]_vars => IInv'
<1> SUFFICES ASSUME IInv, [Next]_vars PROVE IInv'
    OBVIOUS
<1>1. ASSUME NEW s \in Requests, TurnAway(s) \/ Receive(s) \/ Handle(s) PROVE IInv'
  <2>1. Types'
        BY <1>1, HandlerTyped
  <2>2. ASSUME NEW r \in Requests PROVE Good(r)'
    <3>1. CASE r = s
          BY <1>1, <3>1, HandlerStaysGood
    <3>2. CASE r # s
      <4>1. Types /\ Good(r)
            BY DEF IInv, Good
      <4>2. Unmoved(r)
            BY <1>1, <3>2, <4>1, OthersUnmoved
      <4> QED BY <4>1, <4>2, UnmovedStaysGood
    <3> QED BY <3>1, <3>2
  <2> QED BY <2>1, <2>2 DEF IInv, Good
<1>2. CASE UNCHANGED vars
  <2>1. Types'
        BY <1>2 DEF vars, processVars, handlerVars, lifecycleVars, IInv, Types, TypeOK
  <2>2. ASSUME NEW r \in Requests PROVE Good(r)'
    <3>1. Unmoved(r) /\ Good(r)
          BY <1>2 DEF vars, processVars, handlerVars, lifecycleVars, Unmoved, IInv, Good
    <3> QED BY <3>1, UnmovedStaysGood
  <2> QED BY <2>1, <2>2 DEF IInv, Good
<1> QED BY <1>1, <1>2, EngineKeepsIInv, CrashKeepsIInv, RestartKeepsIInv DEF Next

(* The inductive invariant holds: the places of the handlers, their          *)
(* decisions and what they hold, sent, recorded and answered agree.          *)
THEOREM IInvHolds == Spec => []IInv
BY InitGood, StepKeepsIInv, PTL DEF Spec

------------------------------------------------------------------------------
(* The properties                                                            *)

(* TypeOK: every variable holds what the code can put there, and no request  *)
(* is posted more than 1 + _MAX_RETRIES_ON_TIMEOUT times.                    *)
THEOREM TypeCorrect == Spec => []TypeOK
BY IInvHolds, PTL DEF IInv, Types

(* UpstreamIsAuthorized: whatever the rules and the bodies are, the handler  *)
(* posts only what was decided ALLOW, the approval engine calls only for     *)
(* what was decided NEED_APPROVAL, and no request goes through both.         *)
THEOREM AuthorizedUpstream == Spec => []UpstreamIsAuthorized
<1>1. IInv => UpstreamIsAuthorized
  <2> SUFFICES ASSUME IInv, NEW r \in Requests
               PROVE  /\ attempts[r] > 0 => decision[r].verdict = "ALLOW" /\ made[r] = 0
                      /\ made[r] > 0 => decision[r].verdict = "NEED_APPROVAL"
                      /\ phase[r] # "NONE" => decision[r].verdict = "NEED_APPROVAL"
      BY DEF UpstreamIsAuthorized
  <2> QED BY DEF IInv, Judged
<1> QED BY <1>1, IInvHolds, PTL

(* DepartsRedacted: what is posted, or kept for an approval, was redacted    *)
(* if its decision asks for it.                                              *)
THEOREM RedactedDeparture == Spec => []DepartsRedacted
<1>1. IInv => DepartsRedacted
      BY DEF IInv, Held, DepartsRedacted
<1> QED BY <1>1, IInvHolds, PTL

(* ReleasedIsGuarded: what the output guard looks at of an answer released   *)
(* to a client, its first choice and first tool call, matched no rule that   *)
(* asks for more than ALLOW, and was redacted if a rule and no masking one   *)
(* asks for it.                                                              *)
THEOREM GuardedRelease == Spec => []ReleasedIsGuarded
<1>1. IInv => ReleasedIsGuarded
      BY DEF IInv, Held, LetThrough, ReleasedIsGuarded
<1> QED BY <1>1, IInvHolds, PTL

(* AnswersAreRecorded: a request has one event at most; its client gets that  *)
(* verdict, or loses it in a crash, or sees the upstream's broken answer fail;*)
(* and in production no other verdict is given, but for the denial of a       *)
(* request whose transformation could not be applied.                         *)
THEOREM RecordedAnswers == Spec => []AnswersAreRecorded
<1>1. IInv => AnswersAreRecorded
  <2> SUFFICES ASSUME IInv PROVE AnswersAreRecorded
      OBVIOUS
  <2>1. ASSUME NEW r \in Requests PROVE Recorded(r)
        BY DEF IInv
  <2> DEFINE Of == [ALLOW |-> "allowed", NEED_APPROVAL |-> "held", DENY |-> "denied"]
  <2>2. ASSUME NEW r \in Requests
        PROVE  /\ events[r] \in {<<>>} \cup {<<v>> : v \in Verdicts}
               /\ events[r] # <<>> =>
                     \/ answer[r] \in {"none", "lost", Of[events[r][1]]}
                     \/ answer[r] = "failed" /\ events[r] = <<"ALLOW">>
    <3>1. CASE events[r] = <<>>
          BY <3>1
    <3>2. {"ALLOW", "NEED_APPROVAL", "DENY"} \subseteq Verdicts
          BY DEF Verdicts, Rank
    <3>3. CASE events[r] = <<"ALLOW">>
      <4>1. answer[r] \in {"none", "lost", "allowed", "failed"} /\ events[r][1] = "ALLOW"
            BY <2>1, <3>3 DEF Recorded
      <4> QED BY <3>2, <3>3, <4>1
    <3>4. CASE events[r] = <<"DENY">>
      <4>1. answer[r] \in {"none", "lost", "denied"} /\ events[r][1] = "DENY"
            BY <2>1, <3>4 DEF Recorded
      <4> QED BY <3>2, <3>4, <4>1
    <3>5. CASE events[r] = <<"NEED_APPROVAL">>
      <4>1. answer[r] \in {"none", "lost", "held"} /\ events[r][1] = "NEED_APPROVAL"
            BY <2>1, <3>5 DEF Recorded
      <4> QED BY <3>2, <3>5, <4>1
    <3>6. \/ events[r] = <<>> \/ events[r] = <<"ALLOW">>
          \/ events[r] = <<"DENY">> \/ events[r] = <<"NEED_APPROVAL">>
          BY <2>1 DEF Recorded
    <3> QED BY <3>1, <3>3, <3>4, <3>5, <3>6
  <2>3. ASSUME NEW r \in Requests
        PROVE  /\ production /\ answer[r] \in {"allowed", "held", "denied"} /\ events[r] = <<>> =>
                     /\ answer[r] = "denied" /\ attempts[r] = 0 /\ phase[r] = "NONE"
                     /\ decision[r].verdict # "DENY" /\ decision[r].transformation = "REDACT"
               /\ events[r] = <<"NEED_APPROVAL">> \/ answer[r] = "held" => phase[r] # "NONE"
        BY <2>1 DEF Recorded, Untransformed
  <2> QED BY <2>2, <2>3, Zenon DEF AnswersAreRecorded
<1> QED BY <1>1, IInvHolds, PTL

------------------------------------------------------------------------------
(* The handler is a mediator                                                 *)

(* Nothing is judged or asked for at first.                                  *)
LEMMA InitMediates == Init => M!MInit
BY DEF Init, M!MInit, Undecided

(* A decision of the input plane judges, or fails or denies judging.         *)
LEMMA InspectMediates ==
    ASSUME IInv, NEW s \in Requests, Inspect(s)
    PROVE  (M!Judge(s) /\ UNCHANGED <<attempts, answer>>) \/ M!Fail(s)
<1> USE DEF At, GoTo, Answer, processVars, lifecycleVars
<1>1. /\ pc[s] = "inspecting" /\ body[s] \in RequestBodies
      /\ decision[s].verdict = "NONE" /\ answer[s] = "none"
      /\ decision \in [Requests -> DecisionRecord]
      BY DEF Inspect, IInv, Judged, Held, Recorded, Types, TypeOK
<1>2. PICK d \in InputDecisions[body[s]] :
          /\ decision' = [decision EXCEPT ![s] = d]
          /\ Deny(s, d) \/ Hold(s, d) \/ Forward(s, d) \/ CannotTransform(s, d) \/ CannotHold(s, d)
      BY DEF Inspect
<1>3. d.verdict \in Verdicts
      BY <1>1, <1>2, InputDecided DEF Decisions
<1>4. M!Judge(s)
  <2>1. [r \in Requests |-> decision'[r].verdict] =
            [[r \in Requests |-> decision[r].verdict] EXCEPT ![s] = d.verdict]
        BY <1>1, <1>2
  <2> QED BY <1>1, <1>3, <2>1 DEF M!Judge, Verdicts, Rank
<1>5. CASE CannotTransform(s, d) \/ CannotHold(s, d)
      BY <1>1, <1>4, <1>5 DEF CannotTransform, CannotHold, M!Fail, M!End
<1>6. CASE Deny(s, d) \/ Hold(s, d) \/ Forward(s, d)
  <2>1. UNCHANGED <<attempts, answer>>
        BY <1>6 DEF Deny, Hold, Forward
  <2> QED BY <1>4, <2>1
<1> QED BY <1>2, <1>5, <1>6

(* Each step of a handler is one of the mediator's, or none of them.         *)
LEMMA HandlerMediates ==
    ASSUME IInv, NEW s \in Requests, TurnAway(s) \/ Receive(s) \/ Handle(s)
    PROVE  \/ M!Judge(s) /\ UNCHANGED <<attempts, answer>>
           \/ M!Ask(s) \/ M!Answer(s) \/ M!Fail(s)
           \/ UNCHANGED <<decision, attempts, answer>>
<1> USE DEF At, GoTo, Answer, processVars, lifecycleVars
<1>0. Judged(s) /\ Held(s) /\ Recorded(s)
      BY DEF IInv
<1>1. CASE TurnAway(s) \/ CannotInspect(s) \/ PostFails(s) \/ GuardFails(s)
  <2>1. /\ answer[s] = "none" /\ answer' = [answer EXCEPT ![s] = "failed"]
        /\ UNCHANGED <<decision, attempts>>
        BY <1>0, <1>1 DEF TurnAway, CannotInspect, PostFails, GuardFails, Recorded
  <2> QED BY <2>1 DEF M!Fail, M!End
<1>2. CASE Receive(s) \/ UpstreamAnswers(s) \/ Guard(s)
      BY <1>2 DEF Receive, UpstreamAnswers, Guard
<1>3. CASE Inspect(s)
      BY <1>3, InspectMediates
<1>4. CASE Post(s)
  <2>1. /\ answer[s] = "none" /\ decision[s].verdict = "ALLOW"
        /\ attempts[s] \in Nat /\ attempts[s] <= MaxRetries
        BY <1>0, <1>4, BoundsAssumption DEF Post, Judged, Recorded, Forwarding, IInv, Types, TypeOK
  <2>2. /\ attempts' = [attempts EXCEPT ![s] = @ + 1] /\ UNCHANGED <<decision, answer>>
        BY <1>4 DEF Post
  <2>3. attempts[s] < MaxRetries + 1
        BY <2>1, BoundsAssumption
  <2> QED BY <2>1, <2>2, <2>3 DEF M!Ask
<1>5. CASE PostTimesOut(s)
  <2>1. answer[s] = "none" /\ UNCHANGED <<decision, attempts>>
        BY <1>0, <1>5 DEF PostTimesOut, Recorded
  <2>2. UNCHANGED answer \/ answer' = [answer EXCEPT ![s] = "failed"]
        BY <1>5 DEF PostTimesOut
  <2> QED BY <2>1, <2>2 DEF M!Fail, M!End
<1>6. CASE Record(s) \/ Release(s)
  <2>1. answer[s] = "none" /\ UNCHANGED <<decision, attempts>>
        BY <1>0, <1>6 DEF Record, Release, Recorded
  <2>2. UNCHANGED answer \/ answer' = [answer EXCEPT ![s] = "failed"]
        BY <1>6 DEF Record, Release, AuditDecision
  <2> QED BY <2>1, <2>2 DEF M!Fail, M!End
<1>7. CASE Respond(s)
  <2>1. pc[s] = "answering" /\ answer[s] = "none" /\ UNCHANGED <<decision, attempts>>
        BY <1>0, <1>7 DEF Respond, Recorded
  <2>2. \/ /\ answer' = [answer EXCEPT ![s] = "denied"]
           /\ decision[s].verdict = "DENY" \/ attempts[s] > 0
        \/ answer' = [answer EXCEPT ![s] = "held"] /\ decision[s].verdict = "NEED_APPROVAL"
        \/ /\ answer' = [answer EXCEPT ![s] = "allowed"]
           /\ decision[s].verdict = "ALLOW" /\ attempts[s] > 0
        \/ answer' = [answer EXCEPT ![s] = "failed"]
    <3>1. /\ Overall(s).verdict \in {"ALLOW", "NEED_APPROVAL", "DENY"}
          /\ Overall(s).verdict = "NEED_APPROVAL" => decision[s].verdict = "NEED_APPROVAL"
          /\ Overall(s).verdict = "ALLOW" => attempts[s] > 0
          /\ Overall(s).verdict = "DENY" => decision[s].verdict = "DENY" \/ attempts[s] > 0
          BY <1>0, <2>1, OverallVerdict DEF Verdicts, Rank
    <3>2. \/ Overall(s).verdict = "DENY" /\ answer' = [answer EXCEPT ![s] = "denied"]
          \/ /\ decision[s].verdict = "NEED_APPROVAL"
             /\ answer' = [answer EXCEPT ![s] = "held"]
          \/ /\ decision[s].verdict = "ALLOW" /\ Overall(s).verdict # "DENY"
             /\ \/ answer' = [answer EXCEPT ![s] = "allowed"]
                \/ answer' = [answer EXCEPT ![s] = "failed"]
          BY <1>7 DEF Respond
    <3> QED BY <3>1, <3>2
  <2> QED BY <2>1, <2>2 DEF M!Answer, M!Fail, M!End
<1> QED BY <1>1, <1>2, <1>3, <1>4, <1>5, <1>6, <1>7 DEF Handle

(* What was under way is lost together.                                      *)
LEMMA CrashMediates ==
    ASSUME IInv, Crash
    PROVE  \E gone \in SUBSET Requests : M!Lose(gone)
<1> DEFINE gone == {r \in Requests : pc[r] \notin {"new", "done"}}
<1>1. \A r \in gone : answer[r] = "none"
      BY DEF IInv, Recorded
<1>2. answer' = [r \in Requests |-> IF r \in gone THEN "lost" ELSE answer[r]]
      BY DEF Crash
<1>3. UNCHANGED <<decision, attempts>>
      BY DEF Crash
<1>4. M!Lose(gone)
      BY <1>1, <1>2, <1>3 DEF M!Lose
<1> QED BY <1>4

(* Each step of the gateway is a mediator's step, or changes nothing of it.  *)
LEMMA StepMediates == IInv /\ [Next]_vars => [M!MNext]_(M!mvars)
<1> SUFFICES ASSUME IInv, [Next]_vars PROVE [M!MNext]_(M!mvars)
    OBVIOUS
<1>1. ASSUME NEW s \in Requests, TurnAway(s) \/ Receive(s) \/ Handle(s)
      PROVE  [M!MNext]_(M!mvars)
  <2>1. CASE UNCHANGED <<decision, attempts, answer>>
        BY <2>1 DEF M!mvars
  <2>2. CASE ~UNCHANGED <<decision, attempts, answer>>
        BY <1>1, <2>2, HandlerMediates DEF M!MNext
  <2> QED BY <2>1, <2>2
<1>2. CASE Engine \/ Restart \/ UNCHANGED vars
  <2>1. UNCHANGED <<decision, attempts, answer>>
        BY <1>2 DEF Engine, Restart, vars, handlerVars
  <2> QED BY <2>1 DEF M!mvars
<1>3. CASE Crash
      BY <1>3, CrashMediates DEF M!MNext
<1> QED BY <1>1, <1>2, <1>3 DEF Next

(* The handler implements Mediation: it judges a request once, asks the      *)
(* upstream only for what it allowed, at most 1 + _MAX_RETRIES_ON_TIMEOUT    *)
(* times, and ends it once, as it was judged or by a failure.                *)
THEOREM GatewayMediates == Spec => ImplementsMediation
<1>1. IInv /\ [Next]_vars => [M!MNext]_(M!mvars)
      BY StepMediates
<1> QED BY <1>1, InitMediates, IInvHolds, PTL DEF Spec, ImplementsMediation, M!MediationSpec

------------------------------------------------------------------------------
(* A handler has so many steps left                                          *)

(* The most steps a handler at this place can still take: two for each post  *)
(* it may yet make, and those before the first and after the last of them.   *)
Left(stage, posts) ==
    CASE stage = "new" -> 2 * posts + 5
      [] stage = "inspecting" -> 2 * posts + 4
      [] stage = "calling" -> 2 * posts + 3
      [] stage = "waiting" -> 2 * posts + 4
      [] stage = "guarding" -> 3
      [] stage \in {"releasing", "recording"} -> 2
      [] stage = "answering" -> 1
      [] stage = "done" -> 0

StepsLeft(r) == Left(pc[r], MaxRetries + 1 - attempts[r])

(* The stages a handler goes on to from one of its steps.                    *)
LEMMA HandlerGoesOn ==
    ASSUME IInv, NEW s \in Requests, TurnAway(s) \/ Receive(s) \/ Handle(s)
    PROVE  /\ pc[s] \in Stages
           /\ \/ pc[s] # "done" /\ pc'[s] = "done" /\ attempts'[s] = attempts[s]
              \/ pc[s] = "new" /\ pc'[s] = "inspecting" /\ attempts'[s] = attempts[s]
              \/ pc[s] = "inspecting" /\ pc'[s] \in {"calling", "recording"}
                 /\ attempts'[s] = attempts[s]
              \/ pc[s] = "calling" /\ pc'[s] = "waiting" /\ attempts'[s] = attempts[s] + 1
              \/ pc[s] = "waiting" /\ pc'[s] \in {"calling", "guarding"}
                 /\ attempts'[s] = attempts[s]
              \/ pc[s] = "guarding" /\ pc'[s] = "releasing" /\ attempts'[s] = attempts[s]
              \/ pc[s] \in {"recording", "releasing"} /\ pc'[s] = "answering"
                 /\ attempts'[s] = attempts[s]
<1> USE DEF At, GoTo, Answer
<1>1. /\ pc \in [Requests -> Stages]
      /\ attempts \in [Requests -> 0..(MaxRetries + 1)]
      BY DEF IInv, Types, TypeOK, Stages
<1>2. CASE TurnAway(s) \/ Receive(s)
      BY <1>1, <1>2 DEF TurnAway, Receive
<1>3. CASE Inspect(s)
      BY <1>1, <1>3 DEF Inspect, Deny, Hold, Forward, CannotTransform, CannotHold
<1>4. CASE CannotInspect(s) \/ PostFails(s) \/ GuardFails(s)
      BY <1>1, <1>4 DEF CannotInspect, PostFails, GuardFails
<1>5. CASE Post(s)
      BY <1>1, <1>5 DEF Post
<1>6. CASE PostTimesOut(s)
      BY <1>1, <1>6 DEF PostTimesOut
<1>7. CASE UpstreamAnswers(s) \/ Guard(s)
      BY <1>1, <1>7 DEF UpstreamAnswers, Guard
<1>8. CASE Record(s) \/ Release(s)
  <2>1. /\ pc[s] \in {"recording", "releasing"} /\ attempts' = attempts
        /\ \E there \in {"answering", "done"} : pc' = [pc EXCEPT ![s] = there]
        BY <1>8 DEF Record, Release, AuditDecision
  <2> QED BY <1>1, <2>1
<1>9. CASE Respond(s)
  <2>1. pc[s] = "answering" /\ attempts' = attempts /\ pc' = [pc EXCEPT ![s] = "done"]
        BY <1>9 DEF Respond
  <2> QED BY <1>1, <2>1
<1> QED BY <1>2, <1>3, <1>4, <1>5, <1>6, <1>7, <1>8, <1>9 DEF Handle

LEMMA HandlerAdvances ==
    ASSUME IInv, NEW s \in Requests, TurnAway(s) \/ Receive(s) \/ Handle(s)
    PROVE  StepsLeft(s)' < StepsLeft(s)
<1> DEFINE p == MaxRetries + 1 - attempts[s]
           q == MaxRetries + 1 - attempts'[s]
<1>1. attempts[s] \in 0..(MaxRetries + 1) /\ attempts'[s] \in 0..(MaxRetries + 1)
      BY HandlerTyped DEF IInv, Types, TypeOK
<1>2. p \in Nat /\ q \in Nat
      BY <1>1, BoundsAssumption
<1>3. attempts'[s] = attempts[s] => q = p
      OBVIOUS
<1>4. attempts'[s] = attempts[s] + 1 => p = q + 1
      BY <1>1, BoundsAssumption
<1>5. StepsLeft(s) = Left(pc[s], p) /\ StepsLeft(s)' = Left(pc'[s], q)
      BY DEF StepsLeft, Left
<1> HIDE DEF p, q
<1> QED BY <1>2, <1>3, <1>4, <1>5, HandlerGoesOn DEF Left, Stages

Advances ==
    \A r \in Requests :
        /\ StepsLeft(r) \in 0..(2 * MaxRetries + 7)
        /\ pc[r] = "inspecting" => StepsLeft(r) = 2 * MaxRetries + 6
        /\ StepsLeft(r)' <= StepsLeft(r)
        /\ Handle(r) => StepsLeft(r)' < StepsLeft(r)

(* What bounds the chat handler of app/main.py: every step of a request's    *)
(* handler leaves it fewer steps to take, timeouts and retries of            *)
(* provider.complete included, and nothing that other requests, the approval *)
(* engine, a crash or a restart does gives it more.  A request taken in ends *)
(* after 6 + 2 * _MAX_RETRIES_ON_TIMEOUT steps of its handler at most.       *)
THEOREM HandlersAdvance == Spec => [][Advances]_vars
<1>1. ASSUME IInv, [Next]_vars, NEW r \in Requests
      PROVE  /\ StepsLeft(r) \in 0..(2 * MaxRetries + 7)
             /\ pc[r] = "inspecting" => StepsLeft(r) = 2 * MaxRetries + 6
             /\ StepsLeft(r)' <= StepsLeft(r)
             /\ Handle(r) => StepsLeft(r)' < StepsLeft(r)
  <2>1. /\ pc[r] \in Stages /\ attempts[r] \in 0..(MaxRetries + 1)
        /\ pc[r] = "inspecting" => attempts[r] = 0
        /\ pc[r] = "waiting" => attempts[r] > 0
    <3>1. pc[r] \in Stages /\ attempts[r] \in 0..(MaxRetries + 1)
          BY <1>1 DEF IInv, Types, TypeOK, Stages
    <3> QED BY <1>1, <3>1, BoundsAssumption DEF IInv, Judged
  <2> DEFINE p == MaxRetries + 1 - attempts[r]
  <2>2. /\ p \in 0..(MaxRetries + 1)
        /\ pc[r] = "inspecting" => p = MaxRetries + 1
        /\ pc[r] = "waiting" => p <= MaxRetries
        BY <2>1, BoundsAssumption
  <2>3. StepsLeft(r) = Left(pc[r], p)
        BY DEF StepsLeft
  <2> HIDE DEF p
  <2>4. StepsLeft(r) \in 0..(2 * MaxRetries + 7)
        BY <2>1, <2>2, <2>3, BoundsAssumption DEF Left, Stages
  <2>5. pc[r] = "inspecting" => StepsLeft(r) = 2 * MaxRetries + 6
        BY <2>2, <2>3, BoundsAssumption DEF Left
  <2>6. Handle(r) => StepsLeft(r)' < StepsLeft(r)
        BY <1>1, HandlerAdvances
  <2>7. StepsLeft(r)' <= StepsLeft(r)
    <3>1. CASE UNCHANGED <<pc, attempts>>
      <4>1. StepsLeft(r)' = StepsLeft(r)
            BY <3>1 DEF StepsLeft, Left
      <4> QED BY <2>4, <4>1, BoundsAssumption
    <3>2. ASSUME NEW s \in Requests, TurnAway(s) \/ Receive(s) \/ Handle(s)
          PROVE  StepsLeft(r)' <= StepsLeft(r)
      <4>1. CASE s = r
        <5>1. StepsLeft(r)' < StepsLeft(r)
              BY <1>1, <3>2, <4>1, HandlerAdvances
        <5>2. StepsLeft(r)' \in Nat
          <6>1. pc'[r] \in Stages /\ attempts'[r] \in 0..(MaxRetries + 1)
                BY <1>1, StepKeepsIInv DEF IInv, Types, TypeOK, Stages
          <6>2. MaxRetries + 1 - attempts'[r] \in Nat
                BY <6>1, BoundsAssumption
          <6>3. StepsLeft(r)' = Left(pc'[r], MaxRetries + 1 - attempts'[r])
                BY DEF StepsLeft, Left
          <6> QED BY <6>1, <6>2, <6>3 DEF Left, Stages
        <5> QED BY <2>4, <5>1, <5>2, BoundsAssumption
      <4>2. CASE s # r
        <5>1. pc'[r] = pc[r] /\ attempts'[r] = attempts[r]
              BY <1>1, <3>2, <4>2, OthersUnmoved DEF IInv, Unmoved
        <5>2. StepsLeft(r)' = StepsLeft(r)
              BY <5>1 DEF StepsLeft, Left
        <5> QED BY <2>4, <5>2, BoundsAssumption
      <4> QED BY <4>1, <4>2
    <3>3. CASE Crash
      <4>1. /\ pc'[r] = IF pc[r] = "new" THEN "new" ELSE "done"
            /\ attempts'[r] = attempts[r]
            BY <3>3 DEF Crash
      <4>2. StepsLeft(r)' = StepsLeft(r) \/ StepsLeft(r)' = 0
            BY <4>1 DEF StepsLeft, Left
      <4> QED BY <2>4, <4>2, BoundsAssumption
    <3>4. CASE Engine \/ Restart \/ UNCHANGED vars
      <4>1. UNCHANGED <<pc, attempts>>
            BY <3>4 DEF Engine, Restart, vars, handlerVars
      <4> QED BY <3>1, <4>1
    <3> QED BY <1>1, <3>2, <3>3, <3>4 DEF Next
  <2> QED BY <2>4, <2>5, <2>6, <2>7
<1>2. IInv /\ [Next]_vars => [Advances]_vars
      BY <1>1 DEF Advances
<1> QED BY <1>2, IInvHolds, PTL DEF Spec
==============================================================================
