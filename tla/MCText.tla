------------------------------- MODULE MCText -------------------------------
(* Redaction and Normalizer side by side.  They share nothing, so a behaviour  *)
(* has one text of interest, to redact or to decode.                        *)
EXTENDS Redaction, Normalizer, TLC

CONSTANTS plain, half, raw, b64

MCTurn == ("EMAIL" :> 1) @@ ("SSN" :> 2) @@ ("PEM" :> 3)
MCRank == ("EMAIL" :> 2) @@ ("SSN" :> 4) @@ ("PEM" :> 6)
(* The normal form of raw has a normal form of its own.                      *)
MCNormal == (plain :> plain) @@ (half :> plain) @@ (raw :> half) @@ (b64 :> b64)

NothingToDecode ==
    /\ original = plain /\ yields = [t \in Normals |-> {}] /\ raising = {}
    /\ depth = 1 /\ frontier = {} /\ next = {} /\ seen = {plain} /\ variants = {}
    /\ hadError = FALSE /\ decoded = TRUE

NothingToRedact ==
    /\ found = {} /\ rest = {} /\ merged = {} /\ last = <<>>
    /\ text = Whole /\ step = "none"

MCInit == (Init /\ NothingToDecode) \/ (NothingToRedact /\ NInit)

MCNext == \/ Redact /\ UNCHANGED nvars
          \/ Normalize /\ UNCHANGED vars

MCSpec == MCInit /\ [][MCNext]_<<vars, nvars>>
==============================================================================
