-------------------------- MODULE MCApprovalMetrics --------------------------
(* Instances of ApprovalMetrics for TLC. *)
EXTENDS ApprovalMetrics, TLC

CONSTANTS a1, a2, h1, h2, k1

MCOneApproval == {a1}
MCTwoApprovals == {a1, a2}
MCHandlers == {h1, h2}
MCSymmetry == Permutations(MCTwoApprovals) \cup Permutations(MCHandlers)
==============================================================================
