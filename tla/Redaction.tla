----------------------------- MODULE Redaction -----------------------------
(***************************************************************************)
(* apply_redact (app/transform.py): what the finders found is merged into     *)
(* spans that do not overlap, and these are replaced by placeholders, the    *)
(* last one first.  A text is its positions; a placeholder takes one place,  *)
(* whatever the length of the span it stands for.                           *)
(***************************************************************************)
EXTENDS Naturals, Sequences, FiniteSets

CONSTANTS
    Length,     \* positions of a text
    Labels,     \* what a finder looks for
    Turn,       \* for a label, its finder's turn in _find_redaction_spans
    Rank,       \* _SENSITIVITY_RANK
    Char        \* not a label: a position that is still there

ASSUME RedactionAssumption ==
    /\ Length \in Nat
    /\ Turn \in [Labels -> Nat] /\ Rank \in [Labels -> Nat]
    /\ \A a, b \in Labels : Turn[a] = Turn[b] => a = b
    /\ Char \notin Labels

Spans == {s \in [start : 0..Length, end : 0..Length, label : Labels] : s.start < s.end}

VARIABLES
    found,      \* what the finders found
    step,       \* "merging", "replacing", "redacted", "none" or "failed"
    rest,       \* found, less what _merge_overlapping has looked at
    merged,     \* its result so far, but for the last span
    last,       \* merged[-1], if any
    text        \* the result of apply_redact so far

vars == <<found, step, rest, merged, last, text>>

Overlap(s, t) == s.start < t.end /\ t.start < s.end

Positions(S) == UNION {s.start..(s.end - 1) : s \in S}

Last == {last[i] : i \in DOMAIN last}

Whole == [i \in 1..Length |-> <<i - 1, Char>>]

Intervals == {i \in (0..Length) \X (0..Length) : i[1] < i[2]}

(* finditer's matches do not overlap: only those of different finders do.    *)
Matches == {M \in SUBSET Intervals : \A i, j \in M : i # j => i[2] <= j[1] \/ j[2] <= i[1]}

Findings(f) ==
    UNION {{[start |-> i[1], end |-> i[2], label |-> l] : i \in f[l]} : l \in Labels}

Init ==
    /\ \E f \in [Labels -> Matches] : found = Findings(f)
    /\ rest = found
    /\ merged = {}
    /\ last = <<>>
    /\ text = Whole
    /\ step = "merging"

------------------------------------------------------------------------------
(* sorted by start, and stable.                                              *)
Before(s, t) ==
    s.start < t.start \/ (s.start = t.start /\ Turn[s.label] <= Turn[t.label])

First(S) == {s \in S : \A t \in S : Before(s, t)}

(* Fault: the merged span ends where its last span does (MergedIsFound).     *)
JoinedToLast(s, t) ==
    [start |-> s.start, end |-> t.end,
     label |-> IF Rank[t.label] > Rank[s.label] THEN t.label ELSE s.label]

(* Fault: the later label wins (HighestLabelWins).                           *)
JoinedLater(s, t) ==
    [start |-> s.start, end |-> IF s.end > t.end THEN s.end ELSE t.end, label |-> t.label]

(* Two spans as one, with the label that ranks higher, or the earlier.       *)
Joined(s, t) ==
    [start |-> s.start, end |-> IF s.end > t.end THEN s.end ELSE t.end,
     label |-> IF Rank[t.label] > Rank[s.label] THEN t.label ELSE s.label]

(* One turn of _merge_overlapping's loop.                                    *)
Merge ==
    /\ step = "merging"
    /\ \E span \in First(rest) :
           /\ rest' = rest \ {span}
           /\ IF last = <<>> THEN last' = <<span>> /\ merged' = merged
              ELSE IF span.start < last[1].end
              THEN last' = <<Joined(last[1], span)>> /\ merged' = merged
              ELSE last' = <<span>> /\ merged' = merged \cup {last[1]}
    /\ UNCHANGED <<found, step, text>>

Merged ==
    /\ step = "merging" /\ rest = {}
    /\ step' = IF last = <<>> THEN "none" ELSE "replacing"
    /\ merged' = merged \cup Last
    /\ rest' = merged'
    /\ last' = <<>>
    /\ UNCHANGED <<found, text>>

(* Fault: the first span first (TextIsRedacted).                             *)
RightmostFirst(S) == {s \in S : \A t \in S : s.start <= t.start}

Rightmost(S) == {s \in S : \A t \in S : s.start >= t.start}

(* result[:start] + placeholder + result[end:]                              *)
Replaced(t, s) ==
    SubSeq(t, 1, s.start) \o << <<s.start, s.label>> >> \o SubSeq(t, s.end + 1, Len(t))

Replace ==
    /\ step = "replacing"
    /\ \E span \in Rightmost(rest) :
           /\ rest' = rest \ {span}
           /\ text' = Replaced(text, span)
           /\ step' = IF rest' = {} THEN "redacted" ELSE step
    /\ UNCHANGED <<found, merged, last>>

(* Whatever is raised on the way becomes a TransformationError (TRN-007).    *)
Fail ==
    /\ step \in {"merging", "replacing"}
    /\ step' = "failed"
    /\ UNCHANGED <<found, rest, merged, last, text>>

Redact == Merge \/ Merged \/ Replace \/ Fail

RedactionSpec == Init /\ [][Redact]_vars

------------------------------------------------------------------------------
(* The merged spans cover the positions that were found and no others, and    *)
(* none twice, however the findings overlap and chain (TRN-004).             *)
MergedIsFound ==
    step \in {"none", "replacing", "redacted"} =>
        /\ Positions(merged) = Positions(found)
        /\ \A s, t \in merged : s # t => ~Overlap(s, t)

(* A merged span is named for the most sensitive of the findings in it.      *)
HighestLabelWins ==
    step \in {"none", "replacing", "redacted"} =>
        \A m \in merged :
            /\ \E s \in found : Overlap(s, m) /\ s.label = m.label
            /\ \A s \in found : Overlap(s, m) => Rank[s.label] <= Rank[m.label]

(* The text handed on keeps, in order, exactly the positions nobody found,    *)
(* and a placeholder for every merged span where it began: offsets of the    *)
(* original stay good although every replacement changes the length.        *)
TextIsRedacted ==
    step \in {"none", "redacted"} =>
        /\ {text[i] : i \in DOMAIN text} =
               {<<p, Char>> : p \in (0..(Length - 1)) \ Positions(found)}
               \cup {<<s.start, s.label>> : s \in merged}
        /\ \A i, j \in DOMAIN text : i < j => text[i][1] < text[j][1]
==============================================================================
