----------------------------- MODULE MCApprovals -----------------------------
(* Instances of Approvals for TLC. *)
EXTENDS ApprovalsImpl, TLC

CONSTANTS a1, h1, h2, w1, k1, k2

MCOneApproval == {a1}
MCHandlers == {h1, h2}
MCKeys == {k1, k2}

(* Handlers are interchangeable, and so are keys.  Safety runs only. *)
MCSymmetry == Permutations(MCHandlers) \cup Permutations(MCKeys)
==============================================================================
