------------------------------ MODULE Approvals ------------------------------
(***************************************************************************)
(* The approval engine of app/approvals.py: rows of approval_requests,      *)
(* their transaction, decision and audit rows, and the processes that      *)
(* change them -- reviewers' decision requests (decide_and_resume), direct  *)
(* callers of resume_approved, the lazy expiry sweep, and the startup      *)
(* reconciliation that follows a crash.                                     *)
(*                                                                         *)
(* Every immediate_transaction (app/db.py) is one atomic step, and any      *)
(* other step may come between two of them: the engine relies on BEGIN      *)
(* IMMEDIATE and on nothing else.  What is in the database survives a       *)
(* crash; what a process holds in memory (pc, target, form, late, copy)     *)
(* does not.                                                                *)
(*                                                                         *)
(* A definition whose comment begins with "Fault:" is not the code's: it is *)
(* a plausible mistake in the definition after it, kept to show that the    *)
(* property it names would notice.                                          *)
(***************************************************************************)
EXTENDS Naturals, Sequences, FiniteSets

CONSTANTS
    Approvals,          \* approval ids the gateway may mint
    Handlers,           \* decision requests in progress at the same time
    Workers,            \* callers of resume_approved other than a decision
    Creators,           \* identities that submit chat requests
    Reviewers,          \* identities that hold a reviewer key
    Keys,               \* Idempotency-Key values clients send
    MaxResumeAttempts,  \* MAX_RESUME_ATTEMPTS
    MaxCrashes,         \* bound: crashes of the gateway process
    None

ASSUME MaxResumeAttemptsAssumption == MaxResumeAttempts \in Nat \ {0}
ASSUME MaxCrashesAssumption == MaxCrashes \in Nat
ASSUME NoneAssumption == None \notin Approvals \cup Keys
ASSUME ProcsAssumption == Handlers \cap Workers = {}

VARIABLES
    (* approval_requests and transactions *)
    state,      \* ApprovalRow.state, "NONE" before the row exists
    attempts,   \* ApprovalRow.resume_attempts
    creator,    \* ApprovalRow.creator_identity_id
    elapsed,    \* expires_at <= the present time
    intact,     \* transformed_payload still hashes to material_args_hash
    result,     \* completion_result is set
    status,     \* TransactionRow.status
    (* approval_decisions and audit_events *)
    decisions,
    audit,
    (* the gateway process *)
    up,
    policy,     \* AppState.policy is not None
    crashes,
    (* one control state per request in progress *)
    pc,
    target,     \* the approval_id argument
    form,       \* the decision request's body, reviewer and key
    late,       \* elapsed[target] when the present function was entered
    copy,       \* intact[target] as read by the claim
    (* the upstream provider *)
    calls       \* provider.complete calls made for the approval, ever

rowVars == <<state, attempts, creator, elapsed, intact, result, status>>
logVars == <<decisions, audit>>
gatewayVars == <<up, policy, crashes>>
procVars == <<pc, target, form, late, copy>>
vars == <<rowVars, logVars, gatewayVars, procVars, calls>>

------------------------------------------------------------------------------
(* Types *)

ApprovalStates == {"PENDING", "APPROVED", "DENIED", "EXPIRED", "RESUMING",
                   "COMPLETED", "FAILED", "CANCELLED"}
Terminal == {"DENIED", "EXPIRED", "COMPLETED", "FAILED", "CANCELLED"}
RowStates == ApprovalStates \cup {"NONE"}

Procs == Handlers \cup Workers
Control == {"idle", "decide", "claim", "claimed", "upstream"}

Form == [decision : {"APPROVE", "DENY"}, noted : BOOLEAN,
         reviewer : Reviewers, key : Keys]

DecisionRow == [approval : Approvals, decision : {"APPROVE", "DENY"},
                noted : BOOLEAN, reviewer : Reviewers \cup {"system"},
                key : Keys \cup {None}]

AuditEvent == [from : RowStates, to : RowStates]

(* The transitions of ALLOWED_TRANSITIONS.  The code's _transition raises on *)
(* any other pair; Move below has no such guard, so that OnlyDrawnTransitions *)
(* shows the raise is never reached.                                         *)
AllowedTransitions ==
    {<<"PENDING", "APPROVED">>, <<"PENDING", "DENIED">>,
     <<"PENDING", "EXPIRED">>, <<"PENDING", "CANCELLED">>,
     <<"APPROVED", "RESUMING">>, <<"APPROVED", "EXPIRED">>,
     <<"RESUMING", "COMPLETED">>, <<"RESUMING", "DENIED">>,
     <<"RESUMING", "APPROVED">>}

TypeOK ==
    /\ state \in [Approvals -> RowStates]
    /\ attempts \in [Approvals -> Nat]
    /\ creator \in [Approvals -> Creators \cup {None}]
    /\ elapsed \in [Approvals -> BOOLEAN]
    /\ intact \in [Approvals -> BOOLEAN]
    /\ result \in [Approvals -> BOOLEAN]
    /\ status \in [Approvals -> RowStates]
    /\ decisions \subseteq DecisionRow
    /\ audit \in [Approvals -> Seq(AuditEvent)]
    /\ up \in BOOLEAN /\ policy \in BOOLEAN /\ crashes \in 0..MaxCrashes
    /\ pc \in [Procs -> Control]
    /\ target \in [Procs -> Approvals \cup {None}]
    /\ form \in [Procs -> Form \cup {None}]
    /\ late \in [Procs -> BOOLEAN]
    /\ copy \in [Procs -> BOOLEAN]
    /\ calls \in [Approvals -> Nat]

Init ==
    /\ state = [a \in Approvals |-> "NONE"]
    /\ attempts = [a \in Approvals |-> 0]
    /\ creator = [a \in Approvals |-> None]
    /\ elapsed = [a \in Approvals |-> FALSE]
    /\ intact = [a \in Approvals |-> TRUE]
    /\ result = [a \in Approvals |-> FALSE]
    /\ status = [a \in Approvals |-> "NONE"]
    /\ decisions = {}
    /\ audit = [a \in Approvals |-> <<>>]
    /\ up = FALSE /\ policy = FALSE /\ crashes = 0
    /\ pc = [p \in Procs |-> "idle"]
    /\ target = [p \in Procs |-> None]
    /\ form = [p \in Procs |-> None]
    /\ late = [p \in Procs |-> FALSE]
    /\ copy = [p \in Procs |-> TRUE]
    /\ calls = [a \in Approvals |-> 0]

------------------------------------------------------------------------------
(* Helpers *)

(* One row changes state: _transition, the transaction's status and _audit. *)
Move(a, to) ==
    /\ state' = [state EXCEPT ![a] = to]
    /\ status' = [status EXCEPT ![a] = to]
    /\ audit' = [audit EXCEPT ![a] = Append(@, [from |-> state[a], to |-> to])]

(* Fault: the sweep audits every row as coming from PENDING                 *)
(* (AuditReplaysToRow).                                                     *)
MoveAllFromPending(moved, to) ==
    /\ state' = [a \in Approvals |-> IF a \in moved THEN to[a] ELSE state[a]]
    /\ status' = [a \in Approvals |-> IF a \in moved THEN to[a] ELSE status[a]]
    /\ audit' = [a \in Approvals |->
                    IF a \in moved
                    THEN Append(audit[a], [from |-> "PENDING", to |-> to[a]])
                    ELSE audit[a]]

(* Fault: the transactions row is forgotten (PollsAgreeWithRow).            *)
MoveAllStatusKept(moved, to) ==
    /\ state' = [a \in Approvals |-> IF a \in moved THEN to[a] ELSE state[a]]
    /\ audit' = [a \in Approvals |->
                    IF a \in moved
                    THEN Append(audit[a], [from |-> state[a], to |-> to[a]])
                    ELSE audit[a]]
    /\ UNCHANGED status

(* The same for every row of moved, in one transaction. *)
MoveAll(moved, to) ==
    /\ state' = [a \in Approvals |-> IF a \in moved THEN to[a] ELSE state[a]]
    /\ status' = [a \in Approvals |-> IF a \in moved THEN to[a] ELSE status[a]]
    /\ audit' = [a \in Approvals |->
                    IF a \in moved
                    THEN Append(audit[a], [from |-> state[a], to |-> to[a]])
                    ELSE audit[a]]

(* The request of p ends, whatever it answers. *)
Finish(p) ==
    /\ pc' = [pc EXCEPT ![p] = "idle"]
    /\ target' = [target EXCEPT ![p] = None]
    /\ form' = [form EXCEPT ![p] = None]
    /\ late' = [late EXCEPT ![p] = FALSE]
    /\ copy' = [copy EXCEPT ![p] = TRUE]

(* A function that reads the clock before it takes the write lock sees the  *)
(* deadline as it was at some moment between its entry and the lock.        *)
ClockReadings(p) == {late[p], elapsed[target[p]]}

------------------------------------------------------------------------------
(* create_approval: the chat handler reaches it only under a loaded policy. *)

CreateApproval(a, who) ==
    /\ up /\ policy
    /\ state[a] = "NONE"
    /\ Move(a, "PENDING")
    /\ creator' = [creator EXCEPT ![a] = who]
    /\ UNCHANGED <<attempts, elapsed, intact, result, decisions, calls>>
    /\ UNCHANGED <<gatewayVars, procVars>>

------------------------------------------------------------------------------
(* The environment *)

(* The row's TTL runs out; recorded only while some code still looks. *)
TTLElapses(a) ==
    /\ state[a] \in {"PENDING", "APPROVED", "RESUMING"}
    /\ ~elapsed[a]
    /\ elapsed' = [elapsed EXCEPT ![a] = TRUE]
    /\ UNCHANGED <<state, attempts, creator, intact, result, status, calls>>
    /\ UNCHANGED <<logVars, gatewayVars, procVars>>

(* The stored payload stops matching its hash (a direct write to the       *)
(* database: no code of the gateway updates transformed_payload).           *)
PayloadAltered(a) ==
    /\ state[a] \in {"PENDING", "APPROVED", "RESUMING"}
    /\ intact[a]
    /\ intact' = [intact EXCEPT ![a] = FALSE]
    /\ UNCHANGED <<state, attempts, creator, elapsed, result, status, calls>>
    /\ UNCHANGED <<logVars, gatewayVars, procVars>>

------------------------------------------------------------------------------
(* sweep_expired *)

(* Fault: rows in progress expire too (OnlyDrawnTransitions).               *)
ElapsedAny == {a \in Approvals :
                  state[a] \in {"PENDING", "APPROVED", "RESUMING"} /\ elapsed[a]}

(* Fault: only undecided rows expire (EventuallyAtRest).                    *)
ElapsedUndecided == {a \in Approvals : state[a] = "PENDING" /\ elapsed[a]}

Elapsed == {a \in Approvals : state[a] \in {"PENDING", "APPROVED"} /\ elapsed[a]}

SweepExpired == MoveAll(Elapsed, [a \in Approvals |-> "EXPIRED"])

(* The read-only routes that sweep before they answer: GET requests/{id},   *)
(* GET approvals, the dashboard index and the console's approvals list.     *)
Poll ==
    /\ up
    /\ Elapsed # {}
    /\ SweepExpired
    /\ UNCHANGED <<attempts, creator, elapsed, intact, result, decisions, calls>>
    /\ UNCHANGED <<gatewayVars, procVars>>

------------------------------------------------------------------------------
(* decide_and_resume, first transaction: the sweep. *)

ReceiveDecision(h, a, f) ==
    /\ up
    /\ pc[h] = "idle"
    /\ SweepExpired
    /\ pc' = [pc EXCEPT ![h] = "decide"]
    /\ target' = [target EXCEPT ![h] = a]
    /\ form' = [form EXCEPT ![h] = f]
    /\ late' = [late EXCEPT ![h] = elapsed[a]]
    /\ UNCHANGED <<attempts, creator, elapsed, intact, result, decisions, calls>>
    /\ UNCHANGED <<gatewayVars, copy>>

(* Fault: the creator may decide (DecisionsExplainState).                   *)
AppliesBySelf(f, a, expired) ==
    /\ \A d \in decisions : d.key # f.key
    /\ state[a] = "PENDING"
    /\ ~expired
    /\ f.decision = "DENY" => f.noted

(* Fault: a key is looked up for this approval only (KeysDecideOnce).       *)
AppliesKeyPerApproval(f, a, expired) ==
    /\ \A d \in decisions : d.approval = a => d.key # f.key
    /\ state[a] = "PENDING"
    /\ ~expired
    /\ f.reviewer # creator[a]
    /\ f.decision = "DENY" => f.noted

(* decide_approval, second transaction.  A key already on record is a       *)
(* replay or a conflict, before the approval is even looked up; a PENDING   *)
(* row found elapsed is set to EXPIRED and then rolled back by the raise.   *)
Applies(f, a, expired) ==
    /\ \A d \in decisions : d.key # f.key
    /\ state[a] = "PENDING"
    /\ ~expired
    /\ f.reviewer # creator[a]
    /\ f.decision = "DENY" => f.noted

ClientRow(f, a) == [approval |-> a, decision |-> f.decision, noted |-> f.noted,
                    reviewer |-> f.reviewer, key |-> f.key]

(* Fault: a replayed key goes on to the resume (ResumedOnce).               *)
DecideReplayResumes(h, expired) ==
    /\ pc[h] = "decide" /\ expired \in ClockReadings(h)
    /\ ~Applies(form[h], target[h], expired)
    /\ IF policy /\ ClientRow(form[h], target[h]) \in decisions
       THEN /\ pc' = [pc EXCEPT ![h] = "claim"]
            /\ form' = [form EXCEPT ![h] = None]
            /\ UNCHANGED <<target, late, copy>>
       ELSE Finish(h)
    /\ UNCHANGED <<rowVars, logVars, gatewayVars, calls>>

(* Replayed, or refused with a 4xx: nothing is written. *)
DecideWithoutEffect(h, expired) ==
    /\ pc[h] = "decide" /\ expired \in ClockReadings(h)
    /\ ~Applies(form[h], target[h], expired)
    /\ Finish(h)
    /\ UNCHANGED <<rowVars, logVars, gatewayVars, calls>>

DecideDeny(h, expired) ==
    /\ pc[h] = "decide" /\ expired \in ClockReadings(h)
    /\ form[h].decision = "DENY"
    /\ Applies(form[h], target[h], expired)
    /\ Move(target[h], "DENIED")
    /\ decisions' = decisions \cup {ClientRow(form[h], target[h])}
    /\ Finish(h)
    /\ UNCHANGED <<attempts, creator, elapsed, intact, result, calls, gatewayVars>>

(* An approval goes on to resume_approved, or, without a policy, answers    *)
(* POLICY_UNAVAILABLE over a decision that stays committed.                 *)
DecideApprove(h, expired) ==
    /\ pc[h] = "decide" /\ expired \in ClockReadings(h)
    /\ form[h].decision = "APPROVE"
    /\ Applies(form[h], target[h], expired)
    /\ Move(target[h], "APPROVED")
    /\ decisions' = decisions \cup {ClientRow(form[h], target[h])}
    /\ \/ /\ policy
          /\ pc' = [pc EXCEPT ![h] = "claim"]
          /\ form' = [form EXCEPT ![h] = None]
          /\ late' = [late EXCEPT ![h] = elapsed[target[h]]]
          /\ UNCHANGED <<target, copy>>
       \/ ~policy /\ Finish(h)
    /\ UNCHANGED <<attempts, creator, elapsed, intact, result, calls, gatewayVars>>

------------------------------------------------------------------------------
(* resume_approved *)

(* A caller other than decide_and_resume: the tests run twenty at a time.   *)
StartResume(w, a) ==
    /\ up /\ policy
    /\ pc[w] = "idle"
    /\ pc' = [pc EXCEPT ![w] = "claim"]
    /\ target' = [target EXCEPT ![w] = a]
    /\ late' = [late EXCEPT ![w] = elapsed[a]]
    /\ UNCHANGED <<rowVars, logVars, gatewayVars, form, copy, calls>>

(* Fault: a claimed row may be claimed again (ClaimIsExclusive).            *)
EligibleAgain(a) == state[a] \in {"APPROVED", "RESUMING"}

(* The re-read at the head of the claim's transaction. *)
Eligible(a) == state[a] = "APPROVED"

ClaimNotEligible(p) ==
    /\ pc[p] = "claim"
    /\ ~Eligible(target[p])
    /\ Finish(p)
    /\ UNCHANGED <<rowVars, logVars, gatewayVars, calls>>

ClaimExpires(p) ==
    /\ pc[p] = "claim"
    /\ Eligible(target[p])
    /\ TRUE \in ClockReadings(p)
    /\ Move(target[p], "EXPIRED")
    /\ Finish(p)
    /\ UNCHANGED <<attempts, creator, elapsed, intact, result, decisions, calls>>
    /\ UNCHANGED gatewayVars

(* The claim leaves the transaction's status alone. *)
Claim(p) ==
    /\ pc[p] = "claim"
    /\ Eligible(target[p])
    /\ FALSE \in ClockReadings(p)
    /\ state' = [state EXCEPT ![target[p]] = "RESUMING"]
    /\ audit' = [audit EXCEPT ![target[p]] =
                    Append(@, [from |-> "APPROVED", to |-> "RESUMING"])]
    /\ attempts' = [attempts EXCEPT ![target[p]] = @ + 1]
    /\ pc' = [pc EXCEPT ![p] = "claimed"]
    /\ copy' = [copy EXCEPT ![p] = intact[target[p]]]
    /\ late' = [late EXCEPT ![p] = FALSE]
    /\ UNCHANGED <<creator, elapsed, intact, result, status, decisions, calls>>
    /\ UNCHANGED <<gatewayVars, target, form>>

SystemRow(a) == [approval |-> a, decision |-> "DENY", noted |-> TRUE,
                 reviewer |-> "system", key |-> None]

(* The DENIED ending shared by a changed payload and a refused response. *)
SystemDeny(p) ==
    /\ Move(target[p], "DENIED")
    /\ decisions' = decisions \cup {SystemRow(target[p])}
    /\ Finish(p)
    /\ UNCHANGED <<attempts, creator, elapsed, intact, result, calls, gatewayVars>>

ArgumentsChanged(p) == pc[p] = "claimed" /\ ~copy[p] /\ SystemDeny(p)

(* Fault: the claim is not spent by its call (ImplementsLifecycle).         *)
CallUpstreamAgain(p) ==
    /\ pc[p] = "claimed"
    /\ copy[p]
    /\ calls' = [calls EXCEPT ![target[p]] = @ + 1]
    /\ UNCHANGED <<rowVars, logVars, gatewayVars, procVars>>

CallUpstream(p) ==
    /\ pc[p] = "claimed"
    /\ copy[p]
    /\ calls' = [calls EXCEPT ![target[p]] = @ + 1]
    /\ pc' = [pc EXCEPT ![p] = "upstream"]
    /\ UNCHANGED <<rowVars, logVars, gatewayVars, target, form, late, copy>>

(* provider.complete or run_output_guard raises: nobody moves the row on. *)
UpstreamFails(p) ==
    /\ pc[p] = "upstream"
    /\ Finish(p)
    /\ UNCHANGED <<rowVars, logVars, gatewayVars, calls>>

OutputGuardDenies(p) == pc[p] = "upstream" /\ SystemDeny(p)

Complete(p) ==
    /\ pc[p] = "upstream"
    /\ Move(target[p], "COMPLETED")
    /\ result' = [result EXCEPT ![target[p]] = TRUE]
    /\ Finish(p)
    /\ UNCHANGED <<attempts, creator, elapsed, intact, decisions, calls>>
    /\ UNCHANGED gatewayVars

------------------------------------------------------------------------------
(* Crash and restart *)

Crash ==
    /\ up
    /\ crashes < MaxCrashes
    /\ up' = FALSE
    /\ crashes' = crashes + 1
    /\ policy' = FALSE
    /\ pc' = [p \in Procs |-> "idle"]
    /\ target' = [p \in Procs |-> None]
    /\ form' = [p \in Procs |-> None]
    /\ late' = [p \in Procs |-> FALSE]
    /\ copy' = [p \in Procs |-> TRUE]
    /\ UNCHANGED <<rowVars, logVars, calls>>

(* Fault: one try too many (CallsBounded).                                  *)
ReconcileToOneMore == [a \in Approvals |->
    IF attempts[a] <= MaxResumeAttempts THEN "APPROVED" ELSE "FAILED"]

(* Fault: a state outside APPROVAL_STATES (TypeOK).                         *)
ReconcileToRetrying == [a \in Approvals |->
    IF attempts[a] < MaxResumeAttempts THEN "RETRYING" ELSE "FAILED"]

(* Fault: a policy that does not load cuts the startup short               *)
(* (CrashStrandsNothing).                                                   *)
StartupPolicyFirst(loaded) ==
    /\ ~up
    /\ IF loaded
       THEN MoveAll({a \in Approvals : state[a] = "RESUMING"},
                    [a \in Approvals |->
                        IF attempts[a] < MaxResumeAttempts THEN "APPROVED" ELSE "FAILED"])
       ELSE UNCHANGED <<state, status, audit>>
    /\ up' = TRUE
    /\ policy' = loaded
    /\ UNCHANGED <<attempts, creator, elapsed, intact, result, decisions, calls>>
    /\ UNCHANGED <<crashes, procVars>>

(* reconcile_resuming_on_startup, then the policy loads or does not.        *)
ReconcileTo == [a \in Approvals |->
    IF attempts[a] < MaxResumeAttempts THEN "APPROVED" ELSE "FAILED"]

Startup(loaded) ==
    /\ ~up
    /\ MoveAll({a \in Approvals : state[a] = "RESUMING"}, ReconcileTo)
    /\ up' = TRUE
    /\ policy' = loaded
    /\ UNCHANGED <<attempts, creator, elapsed, intact, result, decisions, calls>>
    /\ UNCHANGED <<crashes, procVars>>

------------------------------------------------------------------------------
Resume(p) ==
    \/ ClaimNotEligible(p) \/ ClaimExpires(p) \/ Claim(p)
    \/ ArgumentsChanged(p) \/ CallUpstream(p)
    \/ UpstreamFails(p) \/ OutputGuardDenies(p) \/ Complete(p)

Decide(h) ==
    \E expired \in BOOLEAN :
        \/ DecideWithoutEffect(h, expired)
        \/ DecideDeny(h, expired)
        \/ DecideApprove(h, expired)

Next ==
    \/ \E a \in Approvals, who \in Creators : CreateApproval(a, who)
    \/ \E a \in Approvals : TTLElapses(a) \/ PayloadAltered(a)
    \/ Poll
    \/ \E h \in Handlers, a \in Approvals, f \in Form : ReceiveDecision(h, a, f)
    \/ \E h \in Handlers : Decide(h)
    \/ \E w \in Workers, a \in Approvals : StartResume(w, a)
    \/ \E p \in Procs : Resume(p)
    \/ Crash
    \/ \E loaded \in BOOLEAN : Startup(loaded)

Spec == Init /\ [][Next]_vars

(* A request in progress runs to its next await and the event loop resumes  *)
(* it; the provider call ends, by a response or by its timeout; deadlines   *)
(* pass; clients that were handed a poll_url keep polling it; the container *)
(* restarts after a crash.  No new request has to arrive.                   *)
Fairness ==
    /\ \A h \in Handlers : WF_vars(Decide(h))
    /\ \A p \in Procs : WF_vars(Resume(p))
    /\ \A a \in Approvals : WF_vars(TTLElapses(a))
    /\ WF_vars(Poll)
    /\ WF_vars(\E loaded \in BOOLEAN : Startup(loaded))

FairSpec == Spec /\ Fairness

------------------------------------------------------------------------------
(* Safety *)

Holds(p, a) == pc[p] \in {"claimed", "upstream"} /\ target[p] = a

(* APR-011: between a claim and its end the row is RESUMING and no other    *)
(* request works on it; what goes upstream is a payload that still hashed   *)
(* to what was approved (APR-013).                                          *)
ClaimIsExclusive ==
    \A p \in Procs, a \in Approvals : Holds(p, a) =>
        /\ state[a] = "RESUMING"
        /\ \A q \in Procs : Holds(q, a) => q = p
        /\ pc[p] = "upstream" => copy[p]

(* APR-014: claims are counted before the provider is called, so the        *)
(* persisted counter bounds the upstream calls, over any number of crashes. *)
CallsBounded ==
    \A a \in Approvals : calls[a] <= attempts[a] /\ attempts[a] <= MaxResumeAttempts

RowsOf(a) == {d \in decisions : d.approval = a}

GrantedOnce(a) ==
    \E d \in RowsOf(a) :
        /\ d.decision = "APPROVE" /\ d.reviewer \in Reviewers \ {creator[a]}
        /\ RowsOf(a) \subseteq {d, SystemRow(a)}

(* APR-001, APR-002, APR-009: the decision rows explain the state.  Nothing *)
(* is called, resumed or completed without one approval by somebody other   *)
(* than the creator; a reviewer's denial means the provider was never       *)
(* called; only the resume worker denies after an approval.                 *)
DecisionsExplainState ==
    \A a \in Approvals :
        /\ state[a] \in {"NONE", "PENDING"} => RowsOf(a) = {} /\ calls[a] = 0
        /\ state[a] \in {"APPROVED", "RESUMING", "COMPLETED", "FAILED"} =>
               GrantedOnce(a) /\ SystemRow(a) \notin decisions
        /\ state[a] = "EXPIRED" =>
               \/ RowsOf(a) = {} /\ calls[a] = 0
               \/ GrantedOnce(a) /\ SystemRow(a) \notin decisions
        /\ state[a] = "DENIED" =>
               \/ GrantedOnce(a) /\ SystemRow(a) \in decisions
               \/ /\ calls[a] = 0
                  /\ \E d \in RowsOf(a) :
                        /\ RowsOf(a) = {d}
                        /\ d.decision = "DENY" /\ d.noted
                        /\ d.reviewer \in Reviewers \ {creator[a]}

(* APR-010: a key decides one approval, once. *)
KeysDecideOnce ==
    \A d, e \in decisions : d.key = e.key /\ d.key # None => d = e

(* APR-015: the audit chain of an approval replays to its row, one RESUMING *)
(* entry for each counted attempt, whichever path moved it.                 *)
AuditReplaysToRow ==
    \A a \in Approvals : LET trail == audit[a] IN
        /\ trail = <<>> <=> state[a] = "NONE"
        /\ trail # <<>> => trail[1].from = "NONE" /\ trail[Len(trail)].to = state[a]
        /\ \A i \in 1..(Len(trail) - 1) : trail[i].to = trail[i + 1].from
        /\ Cardinality({i \in 1..Len(trail) : trail[i].to = "RESUMING"}) = attempts[a]

(* What a polling client reads: a COMPLETED status has a result to return,  *)
(* one that came from upstream, and the only lag of the status behind the   *)
(* row is APPROVED for RESUMING.                                            *)
PollsAgreeWithRow ==
    \A a \in Approvals :
        /\ status[a] = state[a] \/ (state[a] = "RESUMING" /\ status[a] = "APPROVED")
        /\ result[a] <=> status[a] = "COMPLETED"
        /\ result[a] => calls[a] > 0

(* APR-011, "MUST NOT resume twice": where decisions are the only callers   *)
(* of resume_approved, as in the gateway, no approval is claimed again,     *)
(* through replayed keys, crashes and restarts alike.                       *)
ResumedOnce == Workers = {} => \A a \in Approvals : attempts[a] <= 1

(* APR-003: every change of a row is a drawn edge, or the FAILED of the     *)
(* startup reconciliation; so _transition never has anything to refuse, and *)
(* a terminal state is never left.                                          *)
OnlyDrawnTransitions ==
    [][\A a \in Approvals : state'[a] # state[a] =>
           <<state[a], state'[a]>> \in
               AllowedTransitions \cup {<<"NONE", "PENDING">>, <<"RESUMING", "FAILED">>}]_vars

------------------------------------------------------------------------------
(* The inductive strengthening of ClaimIsExclusive and CallsBounded.        *)

(* A request in progress knows what it works on; a gateway that is down has *)
(* no request in progress.                                                  *)
RequestsWellFormed ==
    \A p \in Procs :
        /\ pc[p] # "idle" => up /\ target[p] \in Approvals
        /\ pc[p] = "decide" => p \in Handlers /\ form[p] \in Form

(* A row that may still be claimed has an attempt left, and a claim whose   *)
(* call is not made yet is one attempt ahead of the calls.                  *)
AttemptsInStep ==
    \A a \in Approvals :
        /\ state[a] \in {"NONE", "PENDING"} => attempts[a] = 0
        /\ state[a] = "APPROVED" => attempts[a] < MaxResumeAttempts
        /\ \A p \in Procs :
               pc[p] = "claimed" /\ target[p] = a => calls[a] < attempts[a]
        (* what a COMPLETED row's result was taken from *)
        /\ \A p \in Procs : pc[p] = "upstream" /\ target[p] = a => calls[a] > 0

IInv ==
    /\ TypeOK
    /\ RequestsWellFormed
    /\ ClaimIsExclusive
    /\ CallsBounded
    /\ AttemptsInStep
    /\ PollsAgreeWithRow

------------------------------------------------------------------------------
(* Liveness, under FairSpec *)

Orphaned(a) == state[a] = "RESUMING" /\ up /\ \A p \in Procs : ~Holds(p, a)

(* APR-007: no approval waits for ever.  It ends in a terminal state, or is *)
(* left RESUMING by a provider failure until the next restart.              *)
EventuallyAtRest ==
    \A a \in Approvals :
        <>[](state[a] \in Terminal \cup {"NONE"} \/ Orphaned(a))

(* APR-014, "A crash MUST NOT strand an approval".                          *)
CrashStrandsNothing ==
    \A a \in Approvals :
        (state[a] = "RESUMING" /\ ~up) ~> state[a] \in Terminal
==============================================================================
