-------------------------- MODULE ApprovalLifecycle --------------------------
(***************************************************************************)
(* What the approval engine promises of each approval, without processes,   *)
(* clocks, keys or rows: the diagram of SPEC.md 9.2, with the right to call *)
(* the upstream that goes with a claim.  A claim gives permission for one   *)
(* call; a crash may take the permission away, never give it back; a        *)
(* restart returns a claimed approval for another try or gives it up.       *)
(***************************************************************************)
EXTENDS Naturals

CONSTANTS Approvals, MaxResumeAttempts

VARIABLES
    phase,      \* where the approval is in the diagram
    tries,      \* claims so far
    permitted,  \* a claim is held whose call has not been made
    made        \* upstream calls so far

lvars == <<phase, tries, permitted, made>>

LInit ==
    /\ phase = [a \in Approvals |-> "NONE"]
    /\ tries = [a \in Approvals |-> 0]
    /\ permitted = [a \in Approvals |-> FALSE]
    /\ made = [a \in Approvals |-> 0]

Goes(a, from, to) == phase[a] \in from /\ phase' = [phase EXCEPT ![a] = to]

Submit(a) == Goes(a, {"NONE"}, "PENDING") /\ UNCHANGED <<tries, permitted, made>>

Review(a) ==
    /\ \E verdict \in {"APPROVED", "DENIED"} : Goes(a, {"PENDING"}, verdict)
    /\ UNCHANGED <<tries, permitted, made>>

(* Any number of waiting approvals expire together. *)
Expire(gone) ==
    /\ \A a \in gone : phase[a] \in {"PENDING", "APPROVED"}
    /\ phase' = [a \in Approvals |-> IF a \in gone THEN "EXPIRED" ELSE phase[a]]
    /\ UNCHANGED <<tries, permitted, made>>

Claim(a) ==
    /\ Goes(a, {"APPROVED"}, "RESUMING")
    /\ tries[a] < MaxResumeAttempts
    /\ tries' = [tries EXCEPT ![a] = @ + 1]
    /\ permitted' = [permitted EXCEPT ![a] = TRUE]
    /\ UNCHANGED made

Call(a) ==
    /\ permitted[a]
    /\ permitted' = [permitted EXCEPT ![a] = FALSE]
    /\ made' = [made EXCEPT ![a] = @ + 1]
    /\ UNCHANGED <<phase, tries>>

(* Refused unsent (changed arguments) or after the call (output guard). *)
Refuse(a) ==
    /\ Goes(a, {"RESUMING"}, "DENIED")
    /\ permitted' = [permitted EXCEPT ![a] = FALSE]
    /\ UNCHANGED <<tries, made>>

(* Only a call that was made completes an approval. *)
Finish(a) ==
    /\ Goes(a, {"RESUMING"}, "COMPLETED")
    /\ ~permitted[a] /\ made[a] > 0
    /\ UNCHANGED <<tries, permitted, made>>

Crash ==
    /\ permitted' = [a \in Approvals |-> FALSE]
    /\ UNCHANGED <<phase, tries, made>>

(* Every claimed approval at once, none of them with a call still due. *)
Recover ==
    /\ \A a \in Approvals : ~permitted[a]
    /\ phase' = [a \in Approvals |->
                    IF phase[a] # "RESUMING" THEN phase[a]
                    ELSE IF tries[a] < MaxResumeAttempts THEN "APPROVED"
                    ELSE "FAILED"]
    /\ UNCHANGED <<tries, permitted, made>>

LNext ==
    \/ \E a \in Approvals :
           \/ Submit(a) \/ Review(a) \/ Claim(a)
           \/ Call(a) \/ Refuse(a) \/ Finish(a)
    \/ \E gone \in SUBSET Approvals : Expire(gone)
    \/ Crash
    \/ Recover

Lifecycle == LInit /\ [][LNext]_lvars
==============================================================================
