---------------------------- MODULE ApprovalsImpl ----------------------------
(* Approvals implements ApprovalLifecycle.  A row's state is its phase, the  *)
(* resume counter its tries; the right to call belongs to the request that   *)
(* made the claim and lives in that request's memory only.                   *)
EXTENDS Approvals

Permitted == [a \in Approvals |-> \E p \in Procs : pc[p] = "claimed" /\ target[p] = a]

L == INSTANCE ApprovalLifecycle WITH
        phase <- state, tries <- attempts, permitted <- Permitted, made <- calls

(* Every step of the engine, over sweeps, concurrent requests, crashes and   *)
(* restarts, is a step of the diagram of SPEC.md 9.2 or changes nothing in   *)
(* it; in particular a claim is worth at most one upstream call.             *)
ImplementsLifecycle == L!Lifecycle
==============================================================================
