---------------------------- MODULE MCRateLimiter ----------------------------
(* Instances of RateLimiter for TLC. *)
EXTENDS RateLimiter, TLC

CONSTANTS i1, i2, s1, s2

MCIdentities == {i1, i2}
MCSlots == {s1, s2}
MCSymmetry == Permutations(MCIdentities) \cup Permutations(MCSlots)
==============================================================================
