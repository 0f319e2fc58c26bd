----------------------------- MODULE TextProofs -----------------------------
(***************************************************************************)
(* Merging findings into spans, for any length of text, labels, ranks and     *)
(* findings.  The argument: the spans made so far cover what was looked at,   *)
(* they end where the last of them begins, and what is left begins no        *)
(* earlier than that; so the next finding touches the last span or none.     *)
(* Then the spans are replaced from the right, so the text is as it was up to *)
(* the end of each that is left.                                             *)
(*                                                                         *)
(* And decoding a text in layers, for any texts, decoders and depth.  The     *)
(* argument: whatever has been seen has been noted, at a depth that is not    *)
(* less than its first layer's, and all the texts of a layer are noted by the *)
(* time the layer before has been looked at.                                *)
(***************************************************************************)
EXTENDS Redaction, Normalizer, SequenceTheorems, WellFoundedInduction, TLAPS

Steps == {"merging", "replacing", "redacted", "none", "failed"}

In(p, s) == s.start <= p /\ p < s.end

Made == merged \cup Last
Looked == found \ rest

RedactionTypeOK ==
    /\ step \in Steps
    /\ found \subseteq Spans /\ merged \subseteq Spans
    /\ last = <<>> \/ \E s \in Spans : last = <<s>>

Covered == \A p \in Nat : (\E s \in Made : In(p, s)) <=> (\E s \in Looked : In(p, s))

Apart ==
    /\ \A s, t \in merged : s # t => ~Overlap(s, t)
    /\ \A s \in merged, t \in Last : s.end <= t.start

Ahead == \A s \in Last, r \in rest : s.start <= r.start

LastIsThere == last = <<>> => merged = {} /\ Looked = {}

Named ==
    \A m \in Made :
        /\ \E s \in Looked : Overlap(s, m) /\ s.label = m.label
        /\ \A s \in Looked : Overlap(s, m) => Rank[s.label] <= Rank[m.label]

MergeInv == step = "merging" =>
    rest \subseteq found /\ Covered /\ Apart /\ Ahead /\ LastIsThere /\ Named

RInv == RedactionTypeOK /\ MergeInv /\ MergedIsFound /\ HighestLabelWins

------------------------------------------------------------------------------
LEMMA SpanFields ==
    ASSUME NEW s \in Spans
    PROVE  s.start \in Nat /\ s.end \in Nat /\ s.start < s.end /\ s.label \in Labels
BY RedactionAssumption DEF Spans

(* Spans overlap where they share a position.                                *)
LEMMA OverlapIsShared ==
    ASSUME NEW s \in Spans, NEW t \in Spans
    PROVE  Overlap(s, t) <=> \E p \in Nat : In(p, s) /\ In(p, t)
<1>1. /\ s.start \in Nat /\ s.end \in Nat /\ s.start < s.end
      /\ t.start \in Nat /\ t.end \in Nat /\ t.start < t.end
  BY SpanFields
<1>2. ASSUME Overlap(s, t) PROVE \E p \in Nat : In(p, s) /\ In(p, t)
  <2>1. CASE s.start <= t.start
    BY <1>1, <1>2, <2>1 DEF Overlap, In
  <2>2. CASE t.start < s.start
    BY <1>1, <1>2, <2>2 DEF Overlap, In
  <2> QED BY <1>1, <2>1, <2>2
<1>3. ASSUME NEW p \in Nat, In(p, s), In(p, t) PROVE Overlap(s, t)
  BY <1>1, <1>3 DEF Overlap, In
<1> QED BY <1>2, <1>3

LEMMA PositionsAreIn ==
    ASSUME NEW S \in SUBSET Spans, NEW p
    PROVE  p \in Positions(S) <=> p \in Nat /\ \E s \in S : In(p, s)
<1>1. ASSUME NEW s \in S PROVE p \in s.start..(s.end - 1) <=> p \in Nat /\ In(p, s)
  <2>1. s.start \in Nat /\ s.end \in Nat
    BY SpanFields
  <2> QED BY <2>1 DEF In
<1> QED BY <1>1 DEF Positions

------------------------------------------------------------------------------
LEMMA InitRInv == Init => RInv
<1> SUFFICES ASSUME Init PROVE RInv
  OBVIOUS
<1>1. found \subseteq Spans
  <2>1. PICK f \in [Labels -> Matches] : found = Findings(f)
    BY DEF Init
  <2>2. ASSUME NEW l \in Labels, NEW i \in f[l]
        PROVE  [start |-> i[1], end |-> i[2], label |-> l] \in Spans
    <3>1. i \in Intervals
      BY <2>1 DEF Matches
    <3>2. i[1] \in 0..Length /\ i[2] \in 0..Length /\ i[1] < i[2]
      BY <3>1 DEF Intervals
    <3> QED BY <3>2 DEF Spans
  <2> QED BY <2>1, <2>2 DEF Findings
<1>2. rest = found /\ merged = {} /\ last = <<>> /\ step = "merging" /\ Last = {}
  BY DEF Init, Last
<1> QED BY <1>1, <1>2 DEF RInv, RedactionTypeOK, Steps, MergeInv, Covered, Apart, Ahead,
                      LastIsThere, Named, Made, Looked, MergedIsFound, HighestLabelWins

(* What the loop knows when it takes up the next finding.                    *)
LEMMA FirstIsLeast ==
    ASSUME NEW S \in SUBSET Spans, NEW s \in First(S), NEW r \in S
    PROVE  s \in S /\ s.start <= r.start
<1>1. s \in S /\ Before(s, r)
  BY DEF First
<1> QED BY <1>1, SpanFields DEF Before

(* The last span with a finding that overlaps it: together they are one.     *)
LEMMA JoinedSpan ==
    ASSUME NEW s \in Spans, NEW t \in Spans, s.start <= t.start, t.start < s.end
    PROVE  /\ Joined(s, t) \in Spans
           /\ Joined(s, t).start = s.start
           /\ \A p \in Nat : In(p, Joined(s, t)) <=> In(p, s) \/ In(p, t)
           /\ Joined(s, t).label \in {s.label, t.label}
           /\ Rank[s.label] <= Rank[Joined(s, t).label]
           /\ Rank[t.label] <= Rank[Joined(s, t).label]
<1>1. /\ s.start \in 0..Length /\ s.end \in 0..Length /\ s.start < s.end /\ s.label \in Labels
      /\ t.start \in 0..Length /\ t.end \in 0..Length /\ t.start < t.end /\ t.label \in Labels
  BY DEF Spans
<1>2. Rank[s.label] \in Nat /\ Rank[t.label] \in Nat
  BY <1>1, RedactionAssumption
<1> DEFINE e == IF s.end > t.end THEN s.end ELSE t.end
           l == IF Rank[t.label] > Rank[s.label] THEN t.label ELSE s.label
<1>3. Joined(s, t) = [start |-> s.start, end |-> e, label |-> l]
  BY DEF Joined
<1>4. e \in 0..Length /\ s.start < e /\ l \in Labels
  BY <1>1, RedactionAssumption
<1>5. Joined(s, t) \in Spans
  BY <1>1, <1>3, <1>4 DEF Spans
<1>6. ASSUME NEW p \in Nat PROVE In(p, Joined(s, t)) <=> In(p, s) \/ In(p, t)
  BY <1>1, <1>3, RedactionAssumption DEF In
<1>7. l \in {s.label, t.label} /\ Rank[s.label] <= Rank[l] /\ Rank[t.label] <= Rank[l]
  BY <1>2
<1> QED BY <1>3, <1>5, <1>6, <1>7

(* One turn of the loop: x is what becomes the last span, M the spans before. *)
LEMMA TurnKeeps ==
    ASSUME RInv, step = "merging", NEW span \in First(rest),
           rest' = rest \ {span}, UNCHANGED <<found, step>>,
           NEW x \in Spans, last' = <<x>>, NEW M \in SUBSET Spans, merged' = M,
           M \cup Last = Made \/ M = Made,
           \A p \in Nat : (\E s \in M \cup {x} : In(p, s)) <=> (\E s \in Made : In(p, s)) \/ In(p, span),
           \A s, t \in M : s # t => ~Overlap(s, t),
           \A s \in M : s.end <= x.start,
           x.start <= span.start,
           \A m \in M : m \in Made,
           Overlap(span, x),
           \E s \in Looked \cup {span} : Overlap(s, x) /\ s.label = x.label,
           \A s \in Looked \cup {span} : Overlap(s, x) => Rank[s.label] <= Rank[x.label]
    PROVE  RInv'
<1>1. /\ RedactionTypeOK /\ rest \subseteq found /\ found \subseteq Spans /\ span \in rest /\ span \in Spans
      /\ Covered /\ Apart /\ Ahead /\ Named
  BY DEF RInv, MergeInv, RedactionTypeOK, First
<1>2. Looked' = Looked \cup {span} /\ Last' = {x} /\ Made' = M \cup {x}
  BY <1>1 DEF Looked, Last, Made
<1>3. RedactionTypeOK'
  BY <1>1 DEF RedactionTypeOK
<1>4. Covered'
  <2> SUFFICES ASSUME NEW p \in Nat
               PROVE  (\E s \in M \cup {x} : In(p, s)) <=> (\E s \in Looked \cup {span} : In(p, s))
    BY <1>2 DEF Covered
  <2>1. (\E s \in Made : In(p, s)) <=> (\E s \in Looked : In(p, s))
    BY <1>1 DEF Covered
  <2> QED BY <2>1
<1>5. Apart'
  BY <1>2 DEF Apart
<1>6. Ahead'
  <2> SUFFICES ASSUME NEW r \in rest, r # span PROVE x.start <= r.start
    BY <1>2 DEF Ahead
  <2>1. span.start <= r.start
    BY <1>1, FirstIsLeast
  <2>2. x.start \in Nat /\ span.start \in Nat /\ r.start \in Nat
    BY <1>1, SpanFields
  <2> QED BY <2>1, <2>2
<1>7. Named'
  <2> SUFFICES ASSUME NEW m \in M
               PROVE  /\ \E s \in Looked \cup {span} : Overlap(s, m) /\ s.label = m.label
                      /\ \A s \in Looked \cup {span} : Overlap(s, m) => Rank[s.label] <= Rank[m.label]
    BY <1>2 DEF Named
  <2>1. m \in Made
    OBVIOUS
  <2>2. ~Overlap(span, m)
    <3>1. m.end <= span.start
      BY <1>1, SpanFields
    <3>2. m.end \in Nat /\ span.start \in Nat
      BY <1>1, SpanFields
    <3> QED BY <3>1, <3>2 DEF Overlap
  <2> QED BY <1>1, <2>1, <2>2 DEF Named
<1>8. MergeInv'
  BY <1>1, <1>2, <1>4, <1>5, <1>6, <1>7 DEF MergeInv, LastIsThere
<1>9. MergedIsFound' /\ HighestLabelWins'
  BY DEF MergedIsFound, HighestLabelWins
<1> QED BY <1>3, <1>8, <1>9 DEF RInv

(* What was looked at is in the spans made, and these end with the last.     *)
LEMMA LookedIsBehind ==
    ASSUME RInv, step = "merging", NEW s \in Looked, NEW p \in Nat, In(p, s), NEW x \in Last
    PROVE  In(p, x) \/ p < x.start
<1>1. Covered /\ Apart /\ merged \subseteq Spans /\ Last \subseteq Spans
  BY DEF RInv, MergeInv, RedactionTypeOK, Last
<1>2. PICK m \in Made : In(p, m)
  BY <1>1 DEF Covered
<1>3. CASE m \in merged
  <2>1. m.end <= x.start /\ p < m.end
    BY <1>1, <1>2, <1>3 DEF Apart, In
  <2>2. m.end \in Nat /\ x.start \in Nat
    BY <1>1, <1>3, SpanFields
  <2> QED BY <2>1, <2>2
<1>4. CASE m \in Last
  <2>1. m = x
    BY <1>4 DEF RInv, RedactionTypeOK, Last
  <2> QED BY <1>2, <2>1
<1> QED BY <1>3, <1>4 DEF Made

LEMMA MergeKeeps == ASSUME RInv, Merge PROVE RInv'
<1>1. PICK span \in First(rest) :
         /\ rest' = rest \ {span}
         /\ IF last = <<>> THEN last' = <<span>> /\ merged' = merged
            ELSE IF span.start < last[1].end
            THEN last' = <<Joined(last[1], span)>> /\ merged' = merged
            ELSE last' = <<span>> /\ merged' = merged \cup {last[1]}
  BY DEF Merge
<1>2. /\ step = "merging" /\ UNCHANGED <<found, step>>
      /\ RedactionTypeOK /\ rest \subseteq found /\ found \subseteq Spans /\ merged \subseteq Spans
      /\ Covered /\ Apart /\ Ahead /\ LastIsThere /\ Named
      /\ span \in rest /\ span \in Spans
  BY <1>1 DEF Merge, RInv, MergeInv, RedactionTypeOK, First
<1>3. Overlap(span, span) /\ span.start \in Nat /\ span.end \in Nat /\ span.start < span.end
  BY <1>2, SpanFields DEF Overlap
<1>4. Rank[span.label] \in Nat
  BY <1>2, SpanFields, RedactionAssumption
<1>5. CASE last = <<>>
  <2>1. merged = {} /\ Looked = {} /\ Last = {} /\ Made = {}
    BY <1>2, <1>5 DEF LastIsThere, Last, Made
  <2>2. last' = <<span>> /\ merged' = {}
    BY <1>1, <1>5, <2>1
  <2>3. /\ {} \in SUBSET Spans /\ {} = Made
        /\ \A p \in Nat : (\E s \in {} \cup {span} : In(p, s)) <=>
                           (\E s \in Made : In(p, s)) \/ In(p, span)
    BY <2>1
  <2>4. /\ \E s \in Looked \cup {span} : Overlap(s, span) /\ s.label = span.label
        /\ \A s \in Looked \cup {span} : Overlap(s, span) => Rank[s.label] <= Rank[span.label]
        /\ span.start <= span.start
    BY <1>3, <1>4, <2>1
  <2>5. /\ \A s, t \in {} : s # t => ~Overlap(s, t)
        /\ \A s \in {} : s.end <= span.start
        /\ \A m \in {} : m \in Made
    OBVIOUS
  <2> QED BY <1>1, <1>2, <1>3, <2>2, <2>3, <2>4, <2>5, TurnKeeps
<1>6. CASE last # <<>>
  <2>1. PICK x \in Spans : last = <<x>>
    BY <1>2, <1>6 DEF RedactionTypeOK
  <2>2. Last = {x} /\ Made = merged \cup {x} /\ last[1] = x
    BY <2>1 DEF Last, Made
  <2>3. /\ x.start \in Nat /\ x.end \in Nat /\ x.start < x.end /\ x.start <= span.start
        /\ Rank[x.label] \in Nat
    BY <1>2, <2>2, SpanFields, RedactionAssumption DEF Ahead
  <2>4. \A s \in merged : s.end <= x.start
    BY <1>2, <2>2 DEF Apart
  <2>5. CASE span.start < x.end
    <3> DEFINE j == Joined(x, span)
    <3>1. last' = <<j>> /\ merged' = merged
      BY <1>1, <1>6, <2>2, <2>5
    <3>2. /\ j \in Spans /\ j.start = x.start
          /\ \A p \in Nat : In(p, j) <=> In(p, x) \/ In(p, span)
          /\ j.label \in {x.label, span.label}
          /\ Rank[x.label] <= Rank[j.label] /\ Rank[span.label] <= Rank[j.label]
      BY <1>2, <2>3, <2>5, JoinedSpan
    <3>3. Rank[j.label] \in Nat
      BY <3>2, SpanFields, RedactionAssumption
    <3> HIDE DEF j
    <3>4. \A p \in Nat : (\E s \in merged \cup {j} : In(p, s)) <=>
                         (\E s \in Made : In(p, s)) \/ In(p, span)
      BY <2>2, <3>2
    <3>5. Overlap(span, j)
      <4>1. In(span.start, span) /\ In(span.start, j)
        BY <1>3, <3>2 DEF In
      <4> QED BY <4>1, <1>2, <1>3, <3>2, OverlapIsShared
    <3>6. ASSUME NEW s \in Looked, Overlap(s, j)
          PROVE  Overlap(s, x)
      <4>1. s \in Spans
        BY <1>2 DEF Looked
      <4>2. PICK p \in Nat : In(p, s) /\ In(p, j)
        BY <3>2, <3>6, <4>1, OverlapIsShared
      <4>3. In(p, x) \/ p < x.start
        BY <1>2, <2>2, <4>2, LookedIsBehind
      <4>4. In(p, x)
        BY <4>2, <4>3, <3>2, <2>3, <1>3 DEF In
      <4> QED BY <4>1, <4>2, <4>4, OverlapIsShared
    <3>7. ASSUME NEW s \in Looked, Overlap(s, x)
          PROVE  Overlap(s, j)
      <4>1. s \in Spans
        BY <1>2 DEF Looked
      <4> QED BY <3>7, <4>1, <3>2, OverlapIsShared
    <3>8. \E s \in Looked \cup {span} : Overlap(s, j) /\ s.label = j.label
      <4>1. CASE j.label = span.label
        BY <4>1, <3>5
      <4>2. CASE j.label = x.label
        <5>1. PICK s \in Looked : Overlap(s, x) /\ s.label = x.label
          BY <1>2, <2>2 DEF Named
        <5> QED BY <5>1, <4>2, <3>7
      <4> QED BY <4>1, <4>2, <3>2
    <3>9. ASSUME NEW s \in Looked \cup {span}, Overlap(s, j)
          PROVE  Rank[s.label] <= Rank[j.label]
      <4>1. CASE s = span
        BY <4>1, <3>2
      <4>2. CASE s \in Looked
        <5>1. Rank[s.label] <= Rank[x.label]
          BY <1>2, <2>2, <4>2, <3>6, <3>9 DEF Named
        <5>2. Rank[s.label] \in Nat
          BY <1>2, <4>2, SpanFields, RedactionAssumption DEF Looked
        <5> QED BY <5>1, <5>2, <2>3, <3>2, <3>3
      <4> QED BY <4>1, <4>2
    <3>10. \A s, t \in merged : s # t => ~Overlap(s, t)
      BY <1>2 DEF Apart
    <3>11. \A s \in merged : s.end <= j.start
      BY <2>4, <3>2
    <3>12. j.start <= span.start
      BY <2>3, <3>2
    <3> QED BY <1>1, <1>2, <2>2, <3>1, <3>2, <3>4, <3>5, <3>8, <3>9, <3>10, <3>11, <3>12, TurnKeeps
  <2>6. CASE ~(span.start < x.end)
    <3>1. last' = <<span>> /\ merged' = merged \cup {x}
      BY <1>1, <1>6, <2>2, <2>6
    <3>2. ASSUME NEW s \in Looked PROVE ~Overlap(s, span)
      <4>1. s \in Spans
        BY <1>2 DEF Looked
      <4>2. ASSUME NEW p \in Nat, In(p, s), In(p, span) PROVE FALSE
        <5>1. In(p, x) \/ p < x.start
          BY <1>2, <2>2, <4>2, LookedIsBehind
        <5> QED BY <5>1, <4>2, <2>3, <2>6, <1>3 DEF In
      <4> QED BY <4>1, <4>2, <1>2, OverlapIsShared
    <3>3. ASSUME NEW s \in merged \cup {x} PROVE s.end <= span.start
      <4>1. CASE s = x
        BY <4>1, <2>3, <2>6, <1>3
      <4>2. CASE s \in merged
        <5>1. s.end \in Nat /\ s.end <= x.start
          BY <4>2, <1>2, <2>4, SpanFields
        <5> QED BY <5>1, <2>3, <2>6, <1>3
      <4> QED BY <4>1, <4>2
    <3>4. ASSUME NEW s \in merged \cup {x}, NEW t \in merged \cup {x}, s # t
          PROVE  ~Overlap(s, t)
      <4>1. s.start \in Nat /\ s.end \in Nat /\ t.start \in Nat /\ t.end \in Nat
        BY <1>2, SpanFields
      <4>2. CASE s \in merged /\ t \in merged
        BY <1>2, <3>4, <4>2 DEF Apart
      <4>3. CASE s = x
        BY <2>4, <3>4, <4>1, <4>3 DEF Overlap
      <4>4. CASE t = x
        BY <2>4, <3>4, <4>1, <4>4 DEF Overlap
      <4> QED BY <4>2, <4>3, <4>4
    <3>5. \A p \in Nat : (\E s \in (merged \cup {x}) \cup {span} : In(p, s)) <=>
                         (\E s \in Made : In(p, s)) \/ In(p, span)
      BY <2>2
    <3>6. merged \cup {x} = Made /\ merged \cup {x} \in SUBSET Spans
      BY <1>2, <2>2
    <3>7. \E s \in Looked \cup {span} : Overlap(s, span) /\ s.label = span.label
      BY <1>3
    <3>8. \A s \in Looked \cup {span} : Overlap(s, span) => Rank[s.label] <= Rank[span.label]
      BY <3>2, <1>4
    <3>9. span.start <= span.start
      BY <1>3
    <3> QED BY <1>1, <1>2, <1>3, <3>1, <3>3, <3>4, <3>5, <3>6, <3>7, <3>8, <3>9, TurnKeeps
  <2> QED BY <2>5, <2>6
<1> QED BY <1>5, <1>6

(* The loop is over: everything was looked at.                               *)
LEMMA MergedKeeps == ASSUME RInv, Merged PROVE RInv'
<1>1. /\ RedactionTypeOK /\ Covered /\ Apart /\ Named /\ rest = {} /\ found \subseteq Spans
      /\ UNCHANGED <<found, text>> /\ merged' = Made /\ last' = <<>> /\ step' \in {"none", "replacing"}
      /\ Looked = found
  BY DEF Merged, RInv, MergeInv, RedactionTypeOK, Made, Looked
<1>2. Made \subseteq Spans
  BY <1>1 DEF Made, Last, RedactionTypeOK
<1>3. RedactionTypeOK' /\ MergeInv'
  BY <1>1, <1>2 DEF RedactionTypeOK, Steps, MergeInv
<1>4. Positions(merged') = Positions(found)
  <2>1. ASSUME NEW p PROVE p \in Positions(Made) <=> p \in Positions(found)
    BY <1>1, <1>2, PositionsAreIn DEF Covered
  <2> QED BY <1>1, <2>1
<1>5. ASSUME NEW s \in Made, NEW t \in Made, s # t PROVE ~Overlap(s, t)
  <2>1. s.start \in Nat /\ s.end \in Nat /\ t.start \in Nat /\ t.end \in Nat
    BY <1>2, SpanFields
  <2>2. CASE s \in merged /\ t \in merged
    BY <1>1, <1>5, <2>2 DEF Apart
  <2>3. CASE s \in merged /\ t \in Last
    BY <1>1, <2>1, <2>3 DEF Apart, Overlap
  <2>4. CASE s \in Last /\ t \in merged
    BY <1>1, <2>1, <2>4 DEF Apart, Overlap
  <2>5. CASE s \in Last /\ t \in Last
    BY <1>1, <1>5, <2>5 DEF Last, RedactionTypeOK
  <2> QED BY <2>2, <2>3, <2>4, <2>5 DEF Made
<1>6. Positions(found)' = Positions(found) /\ Positions(merged)' = Positions(merged')
  BY <1>1 DEF Positions
<1>7. MergedIsFound'
  BY <1>1, <1>4, <1>5, <1>6 DEF MergedIsFound, Overlap
<1>8. HighestLabelWins'
  BY <1>1 DEF HighestLabelWins, Named, Overlap
<1> QED BY <1>3, <1>7, <1>8 DEF RInv

(* Replacing, and failing, leave the spans alone.                            *)
LEMMA AfterwardsKeeps ==
    ASSUME RInv, UNCHANGED <<found, merged, last>>, step' \in Steps,
           step' # "failed" => step = "replacing" /\ step' # "merging"
    PROVE  RInv'
<1>1. RedactionTypeOK'
  BY DEF RInv, RedactionTypeOK
<1>2. MergeInv' /\ MergedIsFound' /\ HighestLabelWins'
  BY DEF RInv, MergeInv, MergedIsFound, HighestLabelWins, Steps, Positions, Overlap
<1> QED BY <1>1, <1>2 DEF RInv

LEMMA RedactKeeps == RInv /\ [Redact]_vars => RInv'
<1> SUFFICES ASSUME RInv, [Redact]_vars PROVE RInv'
  OBVIOUS
<1>1. CASE Merge
  BY <1>1, MergeKeeps
<1>2. CASE Merged
  BY <1>2, MergedKeeps
<1>3. CASE Replace
  <2>1. UNCHANGED <<found, merged, last>> /\ step' \in Steps /\ step = "replacing" /\ step' # "merging"
    BY <1>3 DEF Replace, Steps
  <2> QED BY <2>1, AfterwardsKeeps
<1>4. CASE Fail
  BY <1>4, AfterwardsKeeps DEF Fail, Steps
<1>5. CASE UNCHANGED vars
  BY <1>5 DEF vars, RInv, RedactionTypeOK, MergeInv, Covered, Apart, Ahead, LastIsThere, Named,
              Made, Looked, Last, MergedIsFound, HighestLabelWins, Positions, Overlap
<1> QED BY <1>1, <1>2, <1>3, <1>4, <1>5 DEF Redact

------------------------------------------------------------------------------
(* The spans that are replaced cover exactly what was found, and do not       *)
(* overlap: a position is neither left in nor replaced twice (TRN-004).      *)
THEOREM SpansAreExact == RedactionSpec => []MergedIsFound
<1>1. RInv => MergedIsFound
  BY DEF RInv
<1> QED BY InitRInv, RedactKeeps, <1>1, PTL DEF RedactionSpec

(* However findings chain, a span is named for the most sensitive of them.   *)
THEOREM SpansAreNamed == RedactionSpec => []HighestLabelWins
<1>1. RInv => HighestLabelWins
  BY DEF RInv
<1> QED BY InitRInv, RedactKeeps, <1>1, PTL DEF RedactionSpec
------------------------------------------------------------------------------
(* The text.  Spans are replaced from the right, so the text is as it was up  *)
(* to the end of every span that is left.                                    *)
Places == (0..(Length - 1)) \X (Labels \cup {Char})

Contents(t) == {t[i] : i \in DOMAIN t}
Ordered(t) == \A i, j \in DOMAIN t : i < j => t[i][1] < t[j][1]
UntouchedTo(t, n) == n <= Len(t) /\ \A i \in 1..n : t[i] = <<i - 1, Char>>

Chars(P) == {<<p, Char>> : p \in P}
Placeholders(R) == {<<s.start, s.label>> : s \in R}

(* What is in a text of which the spans R were replaced.                      *)
Kept(R) == Chars((0..(Length - 1)) \ Positions(R)) \cup Placeholders(R)

TextInv ==
    /\ step \in {"merging", "none"} => text = Whole
    /\ step = "none" => merged = {}
    /\ step = "redacted" => rest = {}
    /\ step \in {"replacing", "redacted"} =>
           /\ text \in Seq(Places) /\ Ordered(text)
           /\ rest \subseteq merged
           /\ \A r \in rest : UntouchedTo(text, r.end)
           /\ Contents(text) = Kept(merged \ rest)

(* A text without its places a + 1 to b, and x in their stead.               *)
Spliced(u, t, a, b, x) ==
    /\ Len(u) = Len(t) - (b - a - 1)
    /\ \A i \in 1..a : u[i] = t[i]
    /\ u[a + 1] = x
    /\ \A k \in (b + 1)..Len(t) : u[k - (b - a - 1)] = t[k]

LEMMA Splicing ==
    ASSUME NEW S, NEW t \in Seq(S), NEW a \in Nat, NEW b \in Nat, a < b, b <= Len(t), NEW x \in S
    PROVE  LET u == SubSeq(t, 1, a) \o <<x>> \o SubSeq(t, b + 1, Len(t))
           IN  u \in Seq(S) /\ Spliced(u, t, a, b, x)
<1>1. PICK n \in Nat : n = Len(t) /\ DOMAIN t = 1..n /\ \A i \in 1..n : t[i] \in S
  OBVIOUS
<1>2. PICK before : before = SubSeq(t, 1, a)
  OBVIOUS
<1>3. PICK after : after = SubSeq(t, b + 1, n)
  OBVIOUS
<1>4. /\ before \in Seq(S) /\ Len(before) = a
      /\ \A i \in 1..a : before[i] = t[i]
  <2>1. \A i \in 1..a : t[i] \in S
    BY <1>1
  <2>2. /\ before \in Seq(S) /\ Len(before) = IF 1 <= a THEN a - 1 + 1 ELSE 0
        /\ \A i \in 1..(a - 1 + 1) : before[i] = t[1 + i - 1]
    BY <1>2, <2>1, SubSeqProperties
  <2> QED BY <2>2
<1>5. /\ after \in Seq(S) /\ Len(after) = n - b
      /\ \A i \in 1..(n - b) : after[i] = t[b + i]
  <2>1. \A i \in (b + 1)..n : t[i] \in S
    BY <1>1
  <2>2. /\ after \in Seq(S) /\ Len(after) = IF b + 1 <= n THEN n - (b + 1) + 1 ELSE 0
        /\ \A i \in 1..(n - (b + 1) + 1) : after[i] = t[(b + 1) + i - 1]
    BY <1>3, <2>1, SubSeqProperties
  <2>3. n - (b + 1) + 1 = n - b /\ \A i \in 1..(n - b) : (b + 1) + i - 1 = b + i
    BY <1>1
  <2>4. Len(after) = n - b
    BY <1>1, <2>2
  <2>5. ASSUME NEW i \in 1..(n - b) PROVE after[i] = t[b + i]
    BY <2>2, <2>3
  <2> QED BY <2>2, <2>4, <2>5
<1>6. PICK one : one = <<x>> /\ one \in Seq(S) /\ Len(one) = 1 /\ one[1] = x
  <2>1. <<x>> \in Seq(S) /\ Len(<<x>>) = 1 /\ <<x>>[1] = x
    OBVIOUS
  <2> QED BY <2>1, Zenon
<1>7. PICK front : front = before \o one
  OBVIOUS
<1>8. /\ front \in Seq(S) /\ Len(front) = a + 1
      /\ \A i \in 1..(a + 1) : front[i] = IF i <= a THEN before[i] ELSE one[i - a]
  BY <1>4, <1>6, <1>7, ConcatProperties
<1>9. /\ \A i \in 1..a : front[i] = t[i]
      /\ front[a + 1] = x
  BY <1>4, <1>6, <1>8
<1>10. PICK u : u = front \o after
  OBVIOUS
<1>11. /\ u \in Seq(S) /\ Len(u) = (a + 1) + (n - b)
       /\ \A i \in 1..((a + 1) + (n - b)) : u[i] = IF i <= a + 1 THEN front[i] ELSE after[i - (a + 1)]
  <2>1. /\ front \o after \in Seq(S) /\ Len(front \o after) = Len(front) + Len(after)
        /\ \A i \in 1..(Len(front) + Len(after)) :
               (front \o after)[i] = IF i <= Len(front) THEN front[i] ELSE after[i - Len(front)]
    BY <1>5, <1>8, ConcatProperties
  <2>2. Len(front) = a + 1 /\ Len(after) = n - b
    BY <1>5, <1>8
  <2> QED BY <1>10, <2>1, <2>2
<1>12. Len(u) = n - (b - a - 1)
  BY <1>1, <1>11
<1>13. (\A i \in 1..a : u[i] = t[i]) /\ u[a + 1] = x
  BY <1>1, <1>9, <1>11
<1>14. ASSUME NEW k \in (b + 1)..n PROVE u[k - (b - a - 1)] = t[k]
  <2>1. PICK i \in 1..((a + 1) + (n - b)) :
            i = k - (b - a - 1) /\ i > a + 1 /\ i - (a + 1) = k - b /\ k - b \in 1..(n - b) /\ b + (k - b) = k
    BY <1>1
  <2>2. u[i] = after[k - b]
    BY <1>11, <2>1
  <2> QED BY <1>5, <2>1, <2>2
<1>15. Spliced(u, t, a, b, x)
  BY <1>1, <1>12, <1>13, <1>14 DEF Spliced
<1> QED BY <1>1, <1>2, <1>3, <1>6, <1>7, <1>10, <1>11, <1>15

(* One replacement, in a text that is as it was up to the span's end b.       *)
LEMMA SplicedText ==
    ASSUME NEW t \in Seq(Places), Ordered(t), NEW u \in Seq(Places),
           NEW a \in Nat, NEW b \in Nat, a < b, UntouchedTo(t, b),
           NEW l \in Labels, Spliced(u, t, a, b, <<a, l>>)
    PROVE  /\ Ordered(u) /\ UntouchedTo(u, a)
           /\ Contents(u) = (Contents(t) \ Chars(a..(b - 1))) \cup {<<a, l>>}
<1>1. PICK n \in Nat : n = Len(t) /\ DOMAIN t = 1..n /\ b <= n
  BY DEF UntouchedTo
<1>2. PICK m \in Nat : m = n - (b - a - 1) /\ m = Len(u) /\ DOMAIN u = 1..m /\ a < m
  <2>1. n - (b - a - 1) \in Nat /\ a < n - (b - a - 1)
    BY <1>1
  <2> QED BY <1>1, <2>1 DEF Spliced
<1>3. PICK x : x = <<a, l>> /\ x[1] = a
  OBVIOUS
<1>4. /\ \A i \in 1..a : u[i] = t[i]
      /\ u[a + 1] = x
      /\ \A k \in (b + 1)..n : u[k - (b - a - 1)] = t[k]
  BY <1>1, <1>3 DEF Spliced
<1>5. \A i \in 1..b : t[i] = <<i - 1, Char>> /\ t[i][1] = i - 1
  BY DEF UntouchedTo
<1>6. \A k \in 1..n : t[k] \in Places /\ t[k][1] \in Int
  BY <1>1 DEF Places
<1>7. \A i, j \in 1..n : i < j => t[i][1] < t[j][1]
  BY <1>1 DEF Ordered
<1>8. ASSUME NEW k \in (b + 1)..n PROVE b - 1 < t[k][1] /\ a < t[k][1]
  <2>1. b \in 1..n /\ k \in 1..n /\ b < k /\ t[b][1] = b - 1
    BY <1>1, <1>5
  <2>2. t[b][1] < t[k][1]
    BY <1>7, <2>1
  <2> QED BY <1>6, <2>1, <2>2
(* where a place of the new text comes from *)
<1>9. ASSUME NEW i \in 1..m
      PROVE  \/ i <= a /\ i \in 1..n /\ u[i] = t[i] /\ u[i][1] = i - 1
             \/ i = a + 1 /\ u[i] = x
             \/ \E k \in (b + 1)..n : k = i + (b - a - 1) /\ u[i] = t[k]
  <2>1. CASE i <= a
    BY <1>1, <1>4, <1>5, <2>1
  <2>2. CASE i = a + 1
    BY <1>4, <2>2
  <2>3. CASE i > a + 1
    <3>1. PICK k \in (b + 1)..n : k = i + (b - a - 1) /\ k - (b - a - 1) = i
      BY <1>1, <1>2, <2>3
    <3> QED BY <1>4, <3>1
  <2> QED BY <2>1, <2>2, <2>3
<1>10. Ordered(u)
  <2> SUFFICES ASSUME NEW i \in 1..m, NEW j \in 1..m, i < j
               PROVE  u[i][1] < u[j][1]
    BY <1>2 DEF Ordered
  <2>1. CASE j <= a
    <3>1. i <= a /\ u[i][1] = i - 1 /\ u[j][1] = j - 1
      BY <1>9, <2>1
    <3> QED BY <3>1
  <2>2. CASE j = a + 1
    <3>1. i <= a /\ u[i][1] = i - 1 /\ u[j][1] = a
      BY <1>3, <1>9, <2>2
    <3> QED BY <2>2, <3>1
  <2>3. CASE j > a + 1
    <3>1. PICK k \in (b + 1)..n : k = j + (b - a - 1) /\ u[j] = t[k]
      BY <1>9, <2>3
    <3>2. a < u[j][1] /\ u[j][1] \in Int
      BY <1>1, <1>6, <1>8, <3>1
    <3>3. CASE i <= a
      <4>1. u[i][1] = i - 1
        BY <1>9, <3>3
      <4> QED BY <3>2, <3>3, <4>1
    <3>4. CASE i = a + 1
      <4>1. u[i][1] = a
        BY <1>3, <1>4, <3>4
      <4> QED BY <3>2, <4>1
    <3>5. CASE i > a + 1
      <4>1. PICK h \in (b + 1)..n : h = i + (b - a - 1) /\ u[i] = t[h]
        BY <1>9, <3>5
      <4>2. h \in 1..n /\ k \in 1..n /\ h < k
        BY <1>1, <3>1, <4>1
      <4> QED BY <1>7, <3>1, <4>1, <4>2
    <3> QED BY <3>3, <3>4, <3>5
  <2> QED BY <2>1, <2>2, <2>3
<1>11. UntouchedTo(u, a)
  <2>1. ASSUME NEW i \in 1..a PROVE u[i] = <<i - 1, Char>>
    <3>1. i \in 1..b
      OBVIOUS
    <3>2. t[i] = <<i - 1, Char>>
      BY <1>5, <3>1
    <3> QED BY <1>4, <3>2
  <2>2. a <= Len(u)
    BY <1>2
  <2> QED BY <2>1, <2>2 DEF UntouchedTo
<1>12. ASSUME NEW c \in Contents(u), c # x
       PROVE  c \in Contents(t) /\ c \notin Chars(a..(b - 1))
  <2>1. PICK i \in 1..m : u[i] = c
    BY <1>2, <1>12 DEF Contents
  <2>2. CASE i <= a
    <3>1. c = t[i] /\ i \in 1..n /\ c[1] = i - 1
      BY <1>9, <2>1, <2>2
    <3>2. \A p \in a..(b - 1) : c # <<p, Char>>
      BY <2>2, <3>1
    <3> QED BY <1>1, <3>1, <3>2 DEF Contents, Chars
  <2>3. CASE i = a + 1
    BY <1>4, <1>12, <2>1, <2>3
  <2>4. CASE i > a + 1
    <3>1. PICK k \in (b + 1)..n : c = t[k]
      BY <1>9, <2>1, <2>4
    <3>2. b - 1 < c[1] /\ c[1] \in Int /\ k \in 1..n
      BY <1>1, <1>6, <1>8, <3>1
    <3>3. \A p \in a..(b - 1) : c # <<p, Char>>
      BY <3>2
    <3> QED BY <1>1, <3>1, <3>2, <3>3 DEF Contents, Chars
  <2> QED BY <2>2, <2>3, <2>4
<1>13. x \in Contents(u)
  <2>1. a + 1 \in 1..m
    BY <1>2
  <2> QED BY <1>2, <1>4, <2>1 DEF Contents
<1>14. ASSUME NEW c \in Contents(t), c \notin Chars(a..(b - 1))
       PROVE  c \in Contents(u)
  <2>1. PICK k \in 1..n : t[k] = c
    BY <1>1, <1>14 DEF Contents
  <2>2. CASE k <= a
    <3>1. k \in 1..m /\ u[k] = c
      BY <1>2, <1>4, <2>1, <2>2
    <3> QED BY <1>2, <3>1 DEF Contents
  <2>3. CASE k > b
    <3>1. k \in (b + 1)..n /\ k - (b - a - 1) \in 1..m
      BY <1>1, <1>2, <2>3
    <3>2. u[k - (b - a - 1)] = c
      BY <1>4, <2>1, <3>1
    <3> QED BY <1>2, <3>1, <3>2 DEF Contents
  <2>4. CASE k > a /\ k <= b
    <3>1. k - 1 \in a..(b - 1) /\ c = <<k - 1, Char>>
      BY <1>1, <1>5, <2>1, <2>4
    <3> QED BY <1>14, <3>1 DEF Chars
  <2> QED BY <2>2, <2>3, <2>4
<1>15. Contents(u) = (Contents(t) \ Chars(a..(b - 1))) \cup {x}
  <2>1. x \in Contents(u)
    BY <1>13
  <2>2. \A c : c \in Contents(u) => c \in (Contents(t) \ Chars(a..(b - 1))) \cup {x}
    BY <1>12
  <2>3. \A c : c \in Contents(t) \ Chars(a..(b - 1)) => c \in Contents(u)
    BY <1>14
  <2> QED BY <2>1, <2>2, <2>3
<1> QED BY <1>3, <1>10, <1>11, <1>15

LEMMA ReplacedText ==
    ASSUME NEW t \in Seq(Places), Ordered(t),
           NEW s \in Spans, UntouchedTo(t, s.end)
    PROVE  /\ Replaced(t, s) \in Seq(Places) /\ Ordered(Replaced(t, s))
           /\ UntouchedTo(Replaced(t, s), s.start)
           /\ Contents(Replaced(t, s)) =
                  (Contents(t) \ Chars(s.start..(s.end - 1))) \cup {<<s.start, s.label>>}
<1>1. PICK a \in Nat, b \in Nat, l \in Labels :
          a = s.start /\ b = s.end /\ l = s.label /\ a < b /\ a \in 0..(Length - 1)
  <2>1. /\ s.start \in 0..Length /\ s.end \in 0..Length /\ s.start < s.end /\ s.label \in Labels
        /\ Length \in Nat
    BY RedactionAssumption DEF Spans
  <2> QED BY <2>1
<1>2. <<a, l>> \in Places /\ b <= Len(t)
  BY <1>1 DEF Places, UntouchedTo
<1>3. /\ Replaced(t, s) \in Seq(Places)
      /\ Spliced(Replaced(t, s), t, a, b, <<a, l>>)
  BY <1>1, <1>2, Splicing DEF Replaced
<1> HIDE DEF Replaced
<1> QED BY <1>1, <1>3, SplicedText

LEMMA KeptAfter ==
    ASSUME NEW R \in SUBSET Spans, NEW s \in Spans
    PROVE  Kept(R \cup {s}) = (Kept(R) \ Chars(s.start..(s.end - 1))) \cup {<<s.start, s.label>>}
<1>1. Positions(R \cup {s}) = Positions(R) \cup (s.start..(s.end - 1))
  BY DEF Positions
<1>2. Placeholders(R \cup {s}) = Placeholders(R) \cup {<<s.start, s.label>>}
  BY DEF Placeholders
<1>3. \A c \in Placeholders(R) : c \notin Chars(s.start..(s.end - 1))
  BY RedactionAssumption DEF Placeholders, Chars, Spans
<1>4. PICK here : here = s.start..(s.end - 1)
  OBVIOUS
<1>5. PICK all : all = 0..(Length - 1)
  OBVIOUS
<1>6. Chars(all \ (Positions(R) \cup here)) = Chars(all \ Positions(R)) \ Chars(here)
  BY DEF Chars
<1>7. /\ Kept(R) = Chars(all \ Positions(R)) \cup Placeholders(R)
      /\ Kept(R \cup {s}) = Chars(all \ (Positions(R) \cup here)) \cup Placeholders(R \cup {s})
  BY <1>1, <1>4, <1>5 DEF Kept
<1> HIDE DEF Chars, Placeholders
<1> QED BY <1>2, <1>3, <1>4, <1>6, <1>7

LEMMA WholeText ==
    /\ Whole \in Seq(Places) /\ Ordered(Whole) /\ UntouchedTo(Whole, Length)
    /\ Contents(Whole) = Kept({})
<1>1. Length \in Nat
  BY RedactionAssumption
<1>2. /\ Whole \in Seq(Places) /\ Len(Whole) = Length /\ DOMAIN Whole = 1..Length
      /\ \A i \in 1..Length : Whole[i] = <<i - 1, Char>>
  BY <1>1 DEF Whole, Places
<1>3. Ordered(Whole) /\ UntouchedTo(Whole, Length)
  BY <1>1, <1>2 DEF Ordered, UntouchedTo
<1>4. Kept({}) = Chars(0..(Length - 1))
  BY DEF Kept, Positions, Placeholders
<1>5. Contents(Whole) = Chars(0..(Length - 1))
  <2>1. ASSUME NEW i \in 1..Length PROVE Whole[i] \in Chars(0..(Length - 1))
    <3>1. Whole[i] = <<i - 1, Char>> /\ i - 1 \in 0..(Length - 1)
      BY <1>1, <1>2
    <3> QED BY <3>1 DEF Chars
  <2>2. ASSUME NEW p \in 0..(Length - 1) PROVE <<p, Char>> \in Contents(Whole)
    <3>1. p + 1 \in DOMAIN Whole /\ Whole[p + 1] = <<p, Char>>
      BY <1>1, <1>2
    <3> QED BY <3>1 DEF Contents
  <2> QED BY <1>2, <2>1, <2>2 DEF Contents, Chars
<1> QED BY <1>2, <1>3, <1>4, <1>5

LEMMA TextKeeps == RInv /\ TextInv /\ [Redact]_vars => TextInv'
<1> SUFFICES ASSUME RInv, TextInv, [Redact]_vars PROVE TextInv'
  OBVIOUS
<1>t. /\ step \in Steps /\ merged \subseteq Spans
      /\ last = <<>> \/ \E s \in Spans : last = <<s>>
  BY DEF RInv, RedactionTypeOK
<1>1. CASE Merge
  BY <1>1 DEF Merge, TextInv
<1>2. CASE Merged
  <2>1. /\ text' = Whole /\ rest' = merged' /\ merged' = Made
        /\ step' = IF last = <<>> THEN "none" ELSE "replacing"
    BY <1>2 DEF Merged, TextInv, Made
  <2>2. last = <<>> => Made = {}
    BY <1>2 DEF Merged, RInv, MergeInv, LastIsThere, Made, Last
  <2>3. \A r \in Made : UntouchedTo(Whole, r.end)
    <3> SUFFICES ASSUME NEW r \in Made PROVE UntouchedTo(Whole, r.end)
      OBVIOUS
    <3>1. r \in Spans
      BY <1>t DEF Made, Last
    <3>2. r.end \in Nat /\ r.end <= Length /\ Length \in Nat
      BY <3>1, RedactionAssumption DEF Spans
    <3> QED BY <3>2, WholeText DEF UntouchedTo
  <2>4. merged' \ rest' = {}
    BY <2>1
  <2> QED BY <2>1, <2>2, <2>3, <2>4, WholeText DEF TextInv
<1>3. CASE Replace
  <2>1. PICK s \in Rightmost(rest) :
            /\ rest' = rest \ {s} /\ text' = Replaced(text, s)
            /\ step' = IF rest' = {} THEN "redacted" ELSE step
    BY <1>3 DEF Replace
  <2>2. /\ step = "replacing" /\ merged' = merged
        /\ text \in Seq(Places) /\ Ordered(text) /\ rest \subseteq merged
        /\ \A r \in rest : UntouchedTo(text, r.end)
        /\ Contents(text) = Kept(merged \ rest)
    BY <1>3 DEF Replace, TextInv
  <2>3. s \in rest /\ s \in Spans /\ merged \ rest \in SUBSET Spans
    BY <1>t, <2>2 DEF Rightmost
  <2>4. /\ text' \in Seq(Places) /\ Ordered(text') /\ UntouchedTo(text', s.start)
        /\ Contents(text') =
               (Contents(text) \ Chars(s.start..(s.end - 1))) \cup {<<s.start, s.label>>}
    BY <2>1, <2>2, <2>3, ReplacedText
  <2>5. merged' \ rest' = (merged \ rest) \cup {s}
    BY <2>1, <2>2, <2>3
  <2>6. Contents(text') = Kept(merged' \ rest')
    BY <2>2, <2>3, <2>4, <2>5, KeptAfter
  <2>7. ASSUME NEW r \in rest' PROVE UntouchedTo(text', r.end)
    <3>1. r \in rest /\ r # s /\ r \in merged /\ r \in Spans /\ s.start >= r.start
      BY <1>t, <2>1, <2>2, <2>3 DEF Rightmost
    <3>2. ~Overlap(s, r)
      BY <2>2, <2>3, <3>1 DEF RInv, MergedIsFound
    <3>3. r.end \in Nat /\ s.start \in Nat /\ r.end <= s.start
      BY <2>3, <3>1, <3>2, SpanFields DEF Overlap
    <3>4. Len(text') \in Nat
      BY <2>4
    <3> QED BY <2>4, <3>3, <3>4 DEF UntouchedTo
  <2> QED BY <2>1, <2>2, <2>4, <2>6, <2>7 DEF TextInv
<1>4. CASE Fail
  BY <1>4 DEF Fail, TextInv
<1>5. CASE UNCHANGED vars
  BY <1>5 DEF vars, TextInv, Contents, Ordered, UntouchedTo, Kept, Positions, Chars, Placeholders
<1> QED BY <1>1, <1>2, <1>3, <1>4, <1>5 DEF Redact

(* The text handed on has, in order, what nobody found and a placeholder for  *)
(* each span, for a text of any length and any overlapping findings.         *)
THEOREM TextIsExact == RedactionSpec => []TextIsRedacted
<1>1. Init => TextInv
  BY DEF Init, TextInv
<1>2. RInv /\ TextInv => TextIsRedacted
  <2> SUFFICES ASSUME RInv, TextInv, step \in {"none", "redacted"}
               PROVE  /\ Contents(text) = Kept(merged)
                      /\ Ordered(text)
                      /\ Positions(merged) = Positions(found)
    BY DEF TextIsRedacted, Contents, Kept, Chars, Placeholders, Ordered
  <2>1. Positions(merged) = Positions(found)
    BY DEF RInv, MergedIsFound
  <2>2. CASE step = "none"
    BY <2>1, <2>2, WholeText DEF TextInv
  <2>3. CASE step = "redacted"
    <3>1. merged \ rest = merged
      BY <2>3 DEF TextInv
    <3> QED BY <2>1, <2>3, <3>1 DEF TextInv
  <2> QED BY <2>1, <2>2, <2>3
<1> QED BY InitRInv, RedactKeeps, TextKeeps, <1>1, <1>2, PTL DEF RedactionSpec

------------------------------------------------------------------------------
(* Induction and recursion on Nat, over sets instead of predicates. *)

LessOnNat == {ss \in Nat \X Nat : ss[1] < ss[2]}

LEMMA LeastElement ==
    ASSUME NEW T \in SUBSET Nat, T # {}
    PROVE  \E x \in T : \A y \in T : x <= y
<1>1. IsWellFoundedOn(LessOnNat, Nat)
  BY NatLessThanWellFounded DEF OpToRel, LessOnNat
<1>2. PICK x \in T : \A y \in T : ~(<<y, x>> \in LessOnNat)
  BY <1>1, WFMin
<1>3. ASSUME NEW y \in T
      PROVE  x <= y
  <2>1. x \in Nat /\ y \in Nat
    OBVIOUS
  <2>2. <<y, x>> \in Nat \X Nat /\ <<y, x>>[1] = y /\ <<y, x>>[2] = x
    BY <2>1
  <2>3. ~(y < x)
    BY <1>2, <2>2 DEF LessOnNat
  <2>4. QED
    BY <2>1, <2>3
<1>4. QED
  BY <1>3

LEMMA NatSetInduction ==
    ASSUME NEW T, 0 \in T, \A n \in Nat : n \in T => n + 1 \in T
    PROVE  Nat \subseteq T
<1> SUFFICES ASSUME Nat \ T # {} PROVE FALSE
  OBVIOUS
<1>1. PICK x \in Nat \ T : \A y \in Nat \ T : x <= y
  BY LeastElement
<1>2. x # 0 /\ x - 1 \in Nat /\ (x - 1) + 1 = x
  BY <1>1
<1>3. x - 1 \in T
  BY <1>1, <1>2
<1>4. QED
  BY <1>1, <1>2, <1>3

(* The first n values of the function that starts at x and steps by g.       *)
Begins(h, n, x, g) == h[0] = x /\ \A k \in 0..(n - 1) : h[k + 1] = g[h[k]]

LEMMA BeginningsAgree ==
    ASSUME NEW S, NEW x \in S, NEW g \in [S -> S], NEW n \in Nat, NEW m \in Nat,
           NEW h, NEW i, Begins(h, n, x, g), Begins(i, m, x, g)
    PROVE  \A k \in Nat : k <= n /\ k <= m => h[k] = i[k]
<1> DEFINE T == {k \in Nat : k <= n /\ k <= m => h[k] = i[k]}
<1>1. 0 \in T
  BY DEF Begins
<1>2. ASSUME NEW k \in Nat, k \in T
      PROVE  k + 1 \in T
  <2>1. CASE k + 1 <= n /\ k + 1 <= m
    <3>1. k \in 0..(n - 1) /\ k \in 0..(m - 1) /\ h[k] = i[k]
      BY <1>2, <2>1
    <3>2. QED
      BY <3>1 DEF Begins
  <2>2. QED
    BY <2>1
<1> HIDE DEF T
<1>3. Nat \subseteq T
  BY <1>1, <1>2, NatSetInduction
<1>4. QED
  BY <1>3 DEF T

LEMMA BeginningsExist ==
    ASSUME NEW S, NEW x \in S, NEW g \in [S -> S], NEW n \in Nat
    PROVE  \E h \in [0..n -> S] : Begins(h, n, x, g)
<1> DEFINE T == {k \in Nat : \E h \in [0..k -> S] : Begins(h, k, x, g)}
<1>1. 0 \in T
  <2>1. [k \in 0..0 |-> x] \in [0..0 -> S] /\ Begins([k \in 0..0 |-> x], 0, x, g)
    BY DEF Begins
  <2>2. QED
    BY <2>1
<1>2. ASSUME NEW k \in Nat, k \in T
      PROVE  k + 1 \in T
  <2>1. PICK h \in [0..k -> S] : Begins(h, k, x, g)
    BY <1>2
  <2> DEFINE i == [j \in 0..(k + 1) |-> IF j = k + 1 THEN g[h[k]] ELSE h[j]]
  <2>2. i \in [0..(k + 1) -> S]
    OBVIOUS
  <2>3. Begins(i, k + 1, x, g)
    <3>1. i[0] = x
      BY <2>1 DEF Begins
    <3>2. ASSUME NEW j \in 0..k
          PROVE  i[j + 1] = g[i[j]]
      <4>1. CASE j = k
        BY <4>1
      <4>2. CASE j # k
        <5>1. j \in 0..(k - 1) /\ j + 1 \in 0..(k + 1) /\ j + 1 # k + 1 /\ j # k + 1 /\ j \in 0..(k + 1)
          BY <4>2
        <5>2. QED
          BY <2>1, <5>1 DEF Begins
      <4>3. QED
        BY <4>1, <4>2
    <3>3. (k + 1) - 1 = k
      OBVIOUS
    <3>4. QED
      BY <3>1, <3>2, <3>3 DEF Begins
  <2>4. QED
    BY <2>2, <2>3
<1> HIDE DEF T
<1>3. n \in T
  BY <1>1, <1>2, NatSetInduction
<1>4. QED
  BY <1>3 DEF T

LEMMA NatRecursion ==
    ASSUME NEW S, NEW x \in S, NEW g \in [S -> S]
    PROVE  \E f \in [Nat -> S] : f[0] = x /\ \A k \in Nat : f[k + 1] = g[f[k]]
<1> DEFINE H(n) == CHOOSE h \in [0..n -> S] : Begins(h, n, x, g)
           f == [n \in Nat |-> H(n)[n]]
<1>1. \A n \in Nat : H(n) \in [0..n -> S] /\ Begins(H(n), n, x, g)
  BY BeginningsExist
<1> HIDE DEF H
<1>2. f \in [Nat -> S]
  BY <1>1
<1>3. f[0] = x
  BY <1>1 DEF Begins
<1>4. ASSUME NEW k \in Nat
      PROVE  f[k + 1] = g[f[k]]
  <2>1. k \in 0..((k + 1) - 1)
    OBVIOUS
  <2>2. Begins(H(k + 1), k + 1, x, g) /\ Begins(H(k), k, x, g)
    BY <1>1
  <2>3. H(k + 1)[k + 1] = g[H(k + 1)[k]]
    BY <2>1, <2>2 DEF Begins
  <2>4. k <= k + 1 /\ k <= k /\ k + 1 \in Nat
    OBVIOUS
  <2>5. H(k + 1)[k] = H(k)[k]
    BY <2>2, <2>4, BeginningsAgree
  <2>6. QED
    BY <2>3, <2>5
<1>5. QED
  BY <1>2, <1>3, <1>4

------------------------------------------------------------------------------
(* What Within is: a layer more is what the texts so far decode to.          *)

Grown(W) == W \cup {Normal[d] : d \in UNION {yields[t] : t \in W}}

TextsOK ==
    /\ original \in Normals
    /\ yields \in [Normals -> SUBSET (Texts \ {original})]

LEMMA GrownType ==
    ASSUME TextsOK, NEW W \in SUBSET Normals
    PROVE  Grown(W) \in SUBSET Normals
<1>1. \A t \in W : \A d \in yields[t] : Normal[d] \in Normals
  BY NormalizerAssumption DEF TextsOK, Normals
<1>2. QED
  BY <1>1 DEF Grown

LEMMA WithinUnfolds ==
    ASSUME TextsOK
    PROVE  /\ Within \in [Nat -> SUBSET Normals]
           /\ Within[0] = {original}
           /\ \A k \in Nat : Within[k + 1] = Grown(Within[k])
<1> DEFINE g == [W \in SUBSET Normals |-> Grown(W)]
<1>1. g \in [SUBSET Normals -> SUBSET Normals]
  BY GrownType
<1>2. {original} \in SUBSET Normals
  BY DEF TextsOK
<1> HIDE DEF g
<1>3. PICK f \in [Nat -> SUBSET Normals] :
        f[0] = {original} /\ \A k \in Nat : f[k + 1] = g[f[k]]
  <2>1. PICK S : S = SUBSET Normals
    OBVIOUS
  <2>2. {original} \in S /\ g \in [S -> S]
    BY <1>1, <1>2, <2>1
  <2>3. \E f \in [Nat -> S] : f[0] = {original} /\ \A k \in Nat : f[k + 1] = g[f[k]]
    BY <2>2, NatRecursion
  <2>4. QED
    BY <2>1, <2>3
<1>4. \A k \in Nat : f[k + 1] = Grown(f[k])
  <2>1. \A W \in SUBSET Normals : g[W] = Grown(W)
    BY DEF g
  <2>2. \A k \in Nat : f[k] \in SUBSET Normals
    BY <1>3
  <2>3. QED
    BY <1>3, <2>1, <2>2
<1>5. \A k \in Nat : f[k] = IF k = 0 THEN {original} ELSE Grown(f[k - 1])
  <2> TAKE k \in Nat
  <2>1. CASE k # 0
    <3>1. k - 1 \in Nat /\ (k - 1) + 1 = k
      BY <2>1
    <3>2. QED
      BY <2>1, <3>1, <1>4
  <2>2. QED
    BY <2>1, <1>3
<1>6. f = [k \in Nat |-> IF k = 0 THEN {original} ELSE Grown(f[k - 1])]
  BY <1>3, <1>5
<1>7. Within = [k \in Nat |-> IF k = 0 THEN {original} ELSE Grown(Within[k - 1])]
  BY <1>6 DEF Within, Grown
<1>8. \A k \in Nat : Within[k] = IF k = 0 THEN {original} ELSE Grown(Within[k - 1])
  BY <1>7
<1>9. \A k \in Nat : Within[k + 1] = Grown(Within[k])
  <2> TAKE k \in Nat
  <2>1. k + 1 \in Nat /\ k + 1 # 0 /\ (k + 1) - 1 = k
    OBVIOUS
  <2>2. QED
    BY <2>1, <1>8
<1>10. Within[0] = {original}
  BY <1>8
<1>11. Within \in [Nat -> SUBSET Normals]
  <2> DEFINE T == {k \in Nat : Within[k] \in SUBSET Normals}
  <2>1. 0 \in T
    BY <1>2, <1>10
  <2>2. \A k \in Nat : k \in T => k + 1 \in T
    BY <1>9, GrownType
  <2> HIDE DEF T
  <2>3. Nat \subseteq T
    BY <2>1, <2>2, NatSetInduction
  <2>4. \A k \in Nat : Within[k] \in SUBSET Normals
    BY <2>3 DEF T
  <2>5. QED
    BY <2>4, <1>7
<1>12. QED
  BY <1>9, <1>10, <1>11

(* A text that is in a layer is in every later one.                          *)
LEMMA WithinGrows ==
    ASSUME TextsOK, NEW j \in Nat, NEW k \in Nat, j <= k
    PROVE  Within[j] \subseteq Within[k]
<1> DEFINE T == {i \in Nat : Within[j] \subseteq Within[j + i]}
<1>1. 0 \in T
  OBVIOUS
<1>2. ASSUME NEW i \in Nat, i \in T
      PROVE  i + 1 \in T
  <2>1. j + i \in Nat /\ j + (i + 1) = (j + i) + 1
    OBVIOUS
  <2>2. Within[j + (i + 1)] = Grown(Within[j + i])
    BY <2>1, WithinUnfolds
  <2>3. QED
    BY <1>2, <2>2 DEF Grown
<1> HIDE DEF T
<1>3. k - j \in T
  BY <1>1, <1>2, NatSetInduction
<1>4. j + (k - j) = k
  OBVIOUS
<1>5. QED
  BY <1>3, <1>4 DEF T

(* Once a layer adds nothing, none does.                                     *)
LEMMA WithinSettles ==
    ASSUME TextsOK, NEW j \in Nat, Within[j + 1] = Within[j], NEW k \in Nat, j <= k
    PROVE  Within[k] = Within[j]
<1> DEFINE T == {i \in Nat : Within[j + i] = Within[j]}
<1>1. 0 \in T
  OBVIOUS
<1>2. ASSUME NEW i \in Nat, i \in T
      PROVE  i + 1 \in T
  <2>1. j + i \in Nat /\ j + (i + 1) = (j + i) + 1
    OBVIOUS
  <2>2. Within[j + (i + 1)] = Grown(Within[j + i]) /\ Within[j + 1] = Grown(Within[j])
    BY <2>1, WithinUnfolds
  <2>3. QED
    BY <1>2, <2>2
<1> HIDE DEF T
<1>3. k - j \in T
  BY <1>1, <1>2, NatSetInduction
<1>4. j + (k - j) = k
  OBVIOUS
<1>5. QED
  BY <1>3, <1>4 DEF T

------------------------------------------------------------------------------
(* The loop.  A text is skipped for what it was before normalisation, but    *)
(* then what it normalises to has been noted; a text of an earlier layer is  *)
(* decoded again only to find nothing fresh.                                 *)

NormalizerTypeOK ==
    /\ depth \in 1..MaxDepth
    /\ frontier \subseteq Normals /\ next \subseteq Normals
    /\ seen \subseteq Texts /\ original \in seen
    /\ variants \subseteq Normals \X (1..depth)
    /\ decoded \in BOOLEAN

SeenIsNoted == \A d \in seen \ {original} : \E j \in 1..depth : <<Normal[d], j>> \in variants

NotedIsWithin == \A v \in variants : v[1] \in Within[v[2]]

LookedAt == \A t \in Within[depth - 1] \ frontier : yields[t] \subseteq seen

Noted(t, j) == \E v \in variants : v[1] = t /\ v[2] <= j

LayersNoted == \A j \in 0..(depth - 1) : \A t \in Within[j] \ {original} : Noted(t, j)

FrontierIsWithin ==
    /\ frontier \subseteq Within[depth - 1]
    /\ next \subseteq Within[depth]
    /\ \A v \in variants : v[2] = depth => v[1] \in next

LoopEnds == decoded => frontier = {} /\ (next = {} \/ depth = MaxDepth)

NormalizerInv ==
    /\ TextsOK /\ NormalizerTypeOK
    /\ SeenIsNoted /\ NotedIsWithin /\ LookedAt /\ LayersNoted
    /\ FrontierIsWithin /\ LoopEnds

LEMMA NormalizerInit == NInit => NormalizerInv
<1> SUFFICES ASSUME NInit PROVE NormalizerInv
  OBVIOUS
<1>1. TextsOK /\ original \in Texts
  BY NormalizerAssumption DEF NInit, TextsOK, Normals
<1>2. depth = 1 /\ 1 - 1 = 0 /\ frontier = {original} /\ variants = {} /\ Within[0] = {original}
  BY <1>1, WithinUnfolds DEF NInit
<1>3. NormalizerTypeOK
  <2>1. depth \in 1..MaxDepth
    BY <1>2, NormalizerAssumption
  <2>2. QED
    BY <1>1, <1>2, <2>1 DEF NInit, NormalizerTypeOK, TextsOK
<1>4. LayersNoted
  <2>1. \A j \in 0..(depth - 1) : j = 0
    BY <1>2
  <2>2. QED
    BY <2>1, <1>2 DEF LayersNoted
<1>5. QED
  BY <1>1, <1>2, <1>3, <1>4
     DEF NInit, NormalizerInv, SeenIsNoted, NotedIsWithin, LookedAt, FrontierIsWithin, LoopEnds

(* When a layer's last text has been looked at, the next layer is noted too. *)
LEMMA LayerIsComplete ==
    ASSUME NormalizerInv, frontier = {}
    PROVE  \A j \in 0..depth : \A t \in Within[j] \ {original} : Noted(t, j)
<1> SUFFICES ASSUME NEW j \in 0..depth, NEW t \in Within[j] \ {original}
             PROVE  Noted(t, j)
  OBVIOUS
<1>1. CASE j # depth
  <2>1. j \in 0..(depth - 1)
    BY <1>1 DEF NormalizerInv, NormalizerTypeOK
  <2>2. QED
    BY <2>1 DEF NormalizerInv, LayersNoted
<1>2. CASE j = depth
  <2>1. depth - 1 \in Nat /\ (depth - 1) + 1 = depth /\ depth - 1 \in 0..(depth - 1) /\ depth \in Nat
    BY NormalizerAssumption DEF NormalizerInv, NormalizerTypeOK
  <2>2. Within[depth] = Grown(Within[depth - 1])
    BY <2>1, WithinUnfolds DEF NormalizerInv
  <2>3. CASE t \in Within[depth - 1]
    <3>1. PICK v \in variants : v[1] = t /\ v[2] <= depth - 1
      BY <2>1, <2>3 DEF NormalizerInv, LayersNoted, Noted
    <3>2. v[2] \in Nat
      BY <3>1 DEF NormalizerInv, NormalizerTypeOK
    <3>3. QED
      BY <1>2, <2>1, <3>1, <3>2 DEF Noted
  <2>4. CASE t \notin Within[depth - 1]
    <3>1. PICK u \in Within[depth - 1] : \E d \in yields[u] : t = Normal[d]
      BY <1>2, <2>2, <2>4 DEF Grown
    <3>2. PICK d \in yields[u] : t = Normal[d]
      BY <3>1
    <3>3. u \in Normals
      BY <2>1, WithinUnfolds DEF NormalizerInv
    <3>4. d \in seen \ {original}
      BY <3>2, <3>3 DEF NormalizerInv, LookedAt, TextsOK
    <3>5. PICK i \in 1..depth : <<Normal[d], i>> \in variants
      BY <3>4 DEF NormalizerInv, SeenIsNoted
    <3>6. QED
      BY <1>2, <2>1, <3>2, <3>5 DEF Noted
  <2>5. QED
    BY <2>3, <2>4
<1>3. QED
  BY <1>1, <1>2

(* What is in the next layer and is not new was in the layer before.        *)
LEMMA OldIsEarlier ==
    ASSUME NormalizerInv, frontier = {}, NEW t \in Within[depth] \ next
    PROVE  t \in Within[depth - 1]
<1>d. depth - 1 \in Nat /\ depth \in Nat /\ depth \in 0..depth /\ TextsOK
  BY NormalizerAssumption DEF NormalizerInv, NormalizerTypeOK
<1>1. CASE t = original
  <2>1. Within[0] \subseteq Within[depth - 1] /\ Within[0] = {original}
    BY <1>d, WithinUnfolds, WithinGrows
  <2>2. QED
    BY <1>1, <2>1
<1>2. CASE t # original
  <2>1. PICK v \in variants : v[1] = t /\ v[2] <= depth
    BY <1>2, <1>d, LayerIsComplete DEF Noted
  <2>2. v[2] # depth
    BY <2>1 DEF NormalizerInv, FrontierIsWithin
  <2>3. v[2] \in Nat /\ v[2] <= depth - 1
    BY <2>1, <2>2, <1>d DEF NormalizerInv, NormalizerTypeOK
  <2>4. Within[v[2]] \subseteq Within[depth - 1]
    BY <2>3, <1>d, WithinGrows
  <2>5. QED
    BY <2>1, <2>4 DEF NormalizerInv, NotedIsWithin
<1>3. QED
  BY <1>1, <1>2

LEMMA NormalizerStep == NormalizerInv /\ [Normalize]_nvars => NormalizerInv'
<1> SUFFICES ASSUME NormalizerInv, [Normalize]_nvars PROVE NormalizerInv'
  OBVIOUS
<1>u. UNCHANGED <<original, yields>>
  BY DEF Normalize, Layer, Decode, nvars
<1>w. Within' = Within /\ TextsOK' /\ TextsOK
  BY <1>u DEF Within, NormalizerInv, TextsOK
<1>d. depth \in 1..MaxDepth /\ MaxDepth \in Nat /\ depth - 1 \in Nat /\ depth \in Nat
      /\ (depth - 1) + 1 = depth
  BY NormalizerAssumption DEF NormalizerInv, NormalizerTypeOK
<1>1. ASSUME NEW t \in Normals, Decode(t)
      PROVE  NormalizerInv'
  <2>1. /\ ~decoded /\ t \in frontier
        /\ frontier' = frontier \ {t}
        /\ seen' = seen \cup Fresh(t)
        /\ variants' = variants \cup {<<Normal[d], depth>> : d \in Fresh(t)}
        /\ next' = next \cup {Normal[d] : d \in Fresh(t)}
        /\ UNCHANGED <<depth, decoded>>
    BY <1>1 DEF Decode
  <2>2. \A d \in Fresh(t) : d \in yields[t] /\ d \in Texts /\ Normal[d] \in Normals
    BY <1>w, NormalizerAssumption DEF Fresh, TextsOK, Normals
  <2>3. \A d \in Fresh(t) : Normal[d] \in Within[depth]
    <3>1. Within[depth] = Grown(Within[depth - 1]) /\ t \in Within[depth - 1]
      BY <2>1, <1>d, <1>w, WithinUnfolds DEF NormalizerInv, FrontierIsWithin
    <3>2. QED
      BY <3>1, <2>2 DEF Grown
  <2>4. NormalizerTypeOK'
    BY <2>1, <2>2, <1>u, <1>d DEF NormalizerInv, NormalizerTypeOK
  <2>5. SeenIsNoted'
    <3>1. ASSUME NEW d \in seen' \ {original'}
          PROVE  \E j \in 1..depth' : <<Normal[d], j>> \in variants'
      <4>1. CASE d \in Fresh(t)
        BY <4>1, <2>1, <1>d
      <4>2. CASE d \in seen \ {original}
        BY <4>2, <2>1 DEF NormalizerInv, SeenIsNoted
      <4>3. QED
        BY <4>1, <4>2, <2>1, <1>u
    <3>2. QED
      BY <3>1 DEF SeenIsNoted
  <2>6. NotedIsWithin'
    BY <2>1, <2>3, <1>w DEF NormalizerInv, NotedIsWithin
  <2>7. LookedAt'
    BY <2>1, <1>u, <1>w DEF NormalizerInv, LookedAt, Fresh
  <2>8. LayersNoted'
    BY <2>1, <1>u, <1>w DEF NormalizerInv, LayersNoted, Noted
  <2>9. FrontierIsWithin'
    BY <2>1, <2>3, <1>w, <1>d DEF NormalizerInv, FrontierIsWithin, NormalizerTypeOK
  <2>10. LoopEnds'
    BY <2>1 DEF LoopEnds
  <2>11. QED
    BY <1>w, <2>4, <2>5, <2>6, <2>7, <2>8, <2>9, <2>10 DEF NormalizerInv
<1>2. CASE Layer /\ ~(next = {} \/ depth = MaxDepth)
  <2>1. /\ frontier = {} /\ depth' = depth + 1 /\ frontier' = next /\ next' = {}
        /\ UNCHANGED <<decoded, seen, variants>> /\ ~decoded
    BY <1>2 DEF Layer
  <2>d. depth' \in 1..MaxDepth /\ depth' - 1 = depth /\ 1..depth \subseteq 1..depth'
    BY <2>1, <1>2, <1>d
  <2>2. NormalizerTypeOK'
    BY <2>1, <2>d, <1>u DEF NormalizerInv, NormalizerTypeOK
  <2>3. SeenIsNoted'
    BY <2>1, <2>d, <1>u DEF NormalizerInv, SeenIsNoted
  <2>4. NotedIsWithin'
    BY <2>1, <1>w DEF NormalizerInv, NotedIsWithin
  <2>5. LayersNoted'
    <3>1. 0..(depth' - 1) = 0..depth
      BY <2>d
    <3>2. \A j \in 0..depth : \A t \in Within[j] \ {original} : Noted(t, j)
      BY <2>1, LayerIsComplete
    <3>3. QED
      BY <3>1, <3>2, <2>1, <1>u, <1>w DEF LayersNoted, Noted
  <2>6. LookedAt'
    <3>1. \A t \in Within[depth] \ next : t \in Within[depth - 1]
      BY <2>1, OldIsEarlier
    <3>2. \A t \in Within[depth - 1] : yields[t] \subseteq seen
      BY <2>1 DEF NormalizerInv, LookedAt
    <3>3. QED
      BY <3>1, <3>2, <2>1, <2>d, <1>u, <1>w DEF LookedAt
  <2>7. FrontierIsWithin'
    <3>1. \A v \in variants : v[2] # depth'
      BY <2>1, <1>d DEF NormalizerInv, NormalizerTypeOK
    <3>2. QED
      BY <3>1, <2>1, <2>d, <1>w DEF NormalizerInv, FrontierIsWithin
  <2>8. LoopEnds'
    BY <2>1 DEF LoopEnds
  <2>9. QED
    BY <1>w, <2>2, <2>3, <2>4, <2>5, <2>6, <2>7, <2>8 DEF NormalizerInv
<1>3. CASE Layer /\ (next = {} \/ depth = MaxDepth)
  <2>1. /\ frontier = {} /\ decoded' = TRUE
        /\ UNCHANGED <<depth, frontier, next, seen, variants>>
    BY <1>3 DEF Layer
  <2>2. QED
    BY <2>1, <1>3, <1>u, <1>w
       DEF NormalizerInv, NormalizerTypeOK, SeenIsNoted, NotedIsWithin, LookedAt,
           LayersNoted, Noted, FrontierIsWithin, LoopEnds
<1>4. CASE UNCHANGED nvars
  BY <1>4, <1>u, <1>w
     DEF nvars, NormalizerInv, NormalizerTypeOK, SeenIsNoted, NotedIsWithin, LookedAt,
         LayersNoted, Noted, FrontierIsWithin, LoopEnds
<1>5. QED
  BY <1>1, <1>2, <1>3, <1>4 DEF Normalize

(* When nothing new came of a layer, there is nothing deeper.                *)
LEMMA NothingDeeper ==
    ASSUME NormalizerInv, frontier = {}, next = {}, NEW k \in Nat, depth - 1 <= k
    PROVE  Within[k] = Within[depth - 1]
<1>d. depth - 1 \in Nat /\ depth \in Nat /\ (depth - 1) + 1 = depth /\ TextsOK
  BY NormalizerAssumption DEF NormalizerInv, NormalizerTypeOK
<1>1. \A t \in Within[depth] : t \in Within[depth - 1]
  BY OldIsEarlier
<1>2. Within[(depth - 1) + 1] = Within[depth - 1]
  <2>1. Within[depth - 1] \subseteq Within[depth]
    BY <1>d, WithinGrows
  <2>2. QED
    BY <2>1, <1>1, <1>d
<1>3. QED
  BY <1>2, <1>d, WithinSettles

(* The first of a text's layers is where it was noted, and there is one.     *)
LEMMA NotedAtFirstLayer ==
    ASSUME NormalizerInv, decoded, NEW t \in Within[MaxDepth] \ {original}
    PROVE  \E v \in variants :
             v[1] = t /\ \A k \in 0..MaxDepth : t \in Within[k] => v[2] <= k
<1>d. /\ depth \in Nat /\ depth - 1 \in Nat /\ MaxDepth \in Nat
      /\ depth <= MaxDepth /\ depth - 1 <= MaxDepth
      /\ frontier = {} /\ (next = {} \/ depth = MaxDepth)
  BY NormalizerAssumption DEF NormalizerInv, NormalizerTypeOK, LoopEnds
<1> DEFINE T == {k \in Nat : t \in Within[k]}
<1>1. \E k \in T : k <= depth
  <2>1. CASE depth = MaxDepth
    BY <2>1, <1>d
  <2>2. CASE next = {}
    <3>1. t \in Within[depth - 1]
      BY <2>2, <1>d, NothingDeeper
    <3>2. QED
      BY <3>1, <1>d
  <2>3. QED
    BY <1>d, <2>1, <2>2
<1> HIDE DEF T
<1>2. T \in SUBSET Nat /\ T # {}
  BY <1>1 DEF T
<1>3. PICK j \in T : \A k \in T : j <= k
  BY <1>2, LeastElement
<1>4. j \in 0..depth
  BY <1>1, <1>2, <1>3, <1>d
<1>5. t \in Within[j] \ {original}
  BY <1>3 DEF T
<1>6. PICK v \in variants : v[1] = t /\ v[2] <= j
  BY <1>4, <1>5, <1>d, LayerIsComplete DEF Noted
<1>7. v[2] \in Nat
  BY <1>d, <1>6 DEF NormalizerInv, NormalizerTypeOK
<1>8. ASSUME NEW k \in 0..MaxDepth, t \in Within[k]
      PROVE  v[2] <= k
  <2>1. k \in T /\ k \in Nat
    BY <1>8, <1>d DEF T
  <2>2. j <= k /\ j \in Nat
    BY <2>1, <1>2, <1>3
  <2>3. QED
    BY <2>1, <2>2, <1>6, <1>7
<1>9. QED
  BY <1>6, <1>8

LEMMA LayersDecoded == NormalizerInv => EveryLayerIsDecoded
<1> SUFFICES ASSUME NormalizerInv, decoded
             PROVE  {original} \cup {v[1] : v \in variants} = Within[MaxDepth]
  BY NotedAtFirstLayer DEF EveryLayerIsDecoded
<1>d. depth \in Nat /\ MaxDepth \in Nat /\ depth <= MaxDepth /\ TextsOK
  BY NormalizerAssumption DEF NormalizerInv, NormalizerTypeOK
<1>1. original \in Within[MaxDepth]
  <2>1. Within[0] \subseteq Within[MaxDepth] /\ Within[0] = {original}
    BY <1>d, WithinUnfolds, WithinGrows
  <2>2. QED
    BY <2>1
<1>2. ASSUME NEW v \in variants
      PROVE  v[1] \in Within[MaxDepth]
  <2>1. v[2] \in Nat /\ v[2] <= MaxDepth
    BY <1>d DEF NormalizerInv, NormalizerTypeOK
  <2>2. Within[v[2]] \subseteq Within[MaxDepth]
    BY <2>1, <1>d, WithinGrows
  <2>3. QED
    BY <2>2 DEF NormalizerInv, NotedIsWithin
<1>3. \A t \in Within[MaxDepth] \ {original} : \E v \in variants : v[1] = t
  BY NotedAtFirstLayer
<1>4. QED
  BY <1>1, <1>2, <1>3

(* SYS-012, for any texts, decoders and depth limit: when normalize is done,  *)
(* the detectors have been given the text, whatever it decodes to within     *)
(* _MAX_DECODE_DEPTH layers, at the first layer it appears in, and nothing    *)
(* deeper -- though it skips texts it has seen by what they were before      *)
(* normalisation, and texts may decode to each other.                       *)
THEOREM LayersAreDecoded == NormalizerSpec => []EveryLayerIsDecoded
<1>1. NormalizerSpec => []NormalizerInv
  BY NormalizerInit, NormalizerStep, PTL DEF NormalizerSpec
<1>2. QED
  BY <1>1, LayersDecoded, PTL
==============================================================================
