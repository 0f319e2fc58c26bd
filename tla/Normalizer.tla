----------------------------- MODULE Normalizer -----------------------------
(***************************************************************************)
(* normalize (app/normalizer.py): a text in normal form, and what its         *)
(* base64, hex and percent candidates decode to, and theirs, down to         *)
(* MaxDepth layers.  Texts are values; `yields' is what the decoders make of *)
(* a text's candidates, `raising' the texts with a candidate on which a      *)
(* decoder raises.  Nothing here needs normalize_text to be idempotent.      *)
(***************************************************************************)
EXTENDS Naturals, FiniteSets

CONSTANTS
    Texts,      \* texts
    Normal,     \* normalize_text: of a text, its normal form
    MaxDepth    \* _MAX_DECODE_DEPTH_DEFAULT

ASSUME NormalizerAssumption ==
    /\ Normal \in [Texts -> Texts]
    /\ MaxDepth \in Nat \ {0}

Normals == {Normal[t] : t \in Texts}

VARIABLES
    original,   \* normalize_text of the text that came in
    yields,     \* for a text to be decoded, the texts its candidates decode to
    raising,    \* texts with a candidate on which a decoder raises
    depth,      \* the loop's
    frontier,   \* texts of the last layer not looked at yet
    next,       \* next_frontier
    seen,       \* decoded texts, as they were decoded
    variants,   \* DecodedVariants: a text and its depth
    hadError,   \* had_decode_error
    decoded     \* whether the loop is over

nvars == <<original, yields, raising, depth, frontier, next, seen, variants, hadError, decoded>>

(* A code is longer than what it stands for, so nothing decodes to the text   *)
(* that came in.                                                            *)
NInit ==
    /\ original \in Normals
    /\ yields \in [Normals -> SUBSET (Texts \ {original})]
    /\ raising \in SUBSET Normals
    /\ depth = 1
    /\ frontier = {original} /\ next = {}
    /\ seen = {original}
    /\ variants = {}
    /\ hadError = FALSE
    /\ decoded = FALSE

------------------------------------------------------------------------------
(* Fault: an error ends the text's decoding (EveryLayerIsDecoded).           *)
FreshUnlessRaised(t) == IF t \in raising THEN {} ELSE yields[t] \ seen

(* A candidate that raises is passed over; the others count.                 *)
Fresh(t) == yields[t] \ seen

(* One text of the frontier, with every decoder and every candidate.         *)
Decode(t) ==
    /\ ~decoded /\ t \in frontier
    /\ frontier' = frontier \ {t}
    /\ seen' = seen \cup Fresh(t)
    /\ variants' = variants \cup {<<Normal[d], depth>> : d \in Fresh(t)}
    /\ next' = next \cup {Normal[d] : d \in Fresh(t)}
    /\ hadError' = (hadError \/ t \in raising)
    /\ UNCHANGED <<original, yields, raising, depth, decoded>>

(* The end of a layer, and perhaps of the loop.                              *)
Layer ==
    /\ ~decoded /\ frontier = {}
    /\ IF next = {} \/ depth = MaxDepth
       THEN decoded' = TRUE /\ UNCHANGED <<depth, frontier, next>>
       ELSE /\ depth' = depth + 1
            /\ frontier' = next /\ next' = {}
            /\ UNCHANGED decoded
    /\ UNCHANGED <<original, yields, raising, seen, variants, hadError>>

Normalize == Layer \/ \E t \in Normals : Decode(t)

NormalizerSpec == NInit /\ [][Normalize]_nvars

------------------------------------------------------------------------------
(* The texts to be decoded that one comes to in k steps or less.             *)
Within[k \in Nat] ==
    IF k = 0 THEN {original}
    ELSE Within[k - 1] \cup {Normal[d] : d \in UNION {yields[t] : t \in Within[k - 1]}}

(* The detectors see everything that is MaxDepth layers deep or less, at the  *)
(* depth of its first layer, and nothing deeper, although texts are skipped  *)
(* by what they were before normalisation and texts may decode to each       *)
(* other (SYS-012).                                                         *)
EveryLayerIsDecoded ==
    decoded =>
        /\ {original} \cup {v[1] : v \in variants} = Within[MaxDepth]
        /\ \A t \in Within[MaxDepth] \ {original} :
               \E v \in variants : v[1] = t /\ \A k \in 0..MaxDepth : t \in Within[k] => v[2] <= k
==============================================================================
