----------------------------- MODULE MCAuditChain -----------------------------
(* Instances of AuditChain for TLC. *)
EXTENDS AuditChain, TLC

CONSTANTS a1, a2

MCStreams == {a1, a2}
MCSymmetry == Permutations(MCStreams)
==============================================================================
