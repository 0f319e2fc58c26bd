--------------------------- MODULE ApprovalsProofs ---------------------------
(* Proofs about Approvals, for any sets of approvals, requests, identities   *)
(* and keys, any MAX_RESUME_ATTEMPTS and any number of crashes.              *)
EXTENDS ApprovalsImpl, ApprovalMetrics, FiniteSetTheorems, TLAPS

------------------------------------------------------------------------------
(* What the building blocks of the actions keep typed *)

LEMMA MoveType ==
    ASSUME TypeOK, NEW a \in Approvals, NEW to \in RowStates, Move(a, to)
    PROVE  /\ state' \in [Approvals -> RowStates]
           /\ status' \in [Approvals -> RowStates]
           /\ audit' \in [Approvals -> Seq(AuditEvent)]
<1> DEFINE event == [from |-> state[a], to |-> to]
<1>1. event \in AuditEvent
  BY DEF TypeOK, AuditEvent
<1>2. Append(audit[a], event) \in Seq(AuditEvent)
  BY <1>1 DEF TypeOK
<1>3. QED
  BY <1>2 DEF Move, TypeOK

LEMMA MoveAllType ==
    ASSUME TypeOK, NEW moved, NEW to \in [Approvals -> RowStates], MoveAll(moved, to)
    PROVE  /\ state' \in [Approvals -> RowStates]
           /\ status' \in [Approvals -> RowStates]
           /\ audit' \in [Approvals -> Seq(AuditEvent)]
<1>1. \A a \in Approvals :
        Append(audit[a], [from |-> state[a], to |-> to[a]]) \in Seq(AuditEvent)
  <2> TAKE a \in Approvals
  <2>1. [from |-> state[a], to |-> to[a]] \in AuditEvent
    BY DEF TypeOK, AuditEvent
  <2>2. QED
    BY <2>1 DEF TypeOK
<1>2. QED
  BY <1>1 DEF MoveAll, TypeOK

ProcTypes ==
    /\ pc \in [Procs -> Control]
    /\ target \in [Procs -> Approvals \cup {None}]
    /\ form \in [Procs -> Form \cup {None}]
    /\ late \in [Procs -> BOOLEAN]
    /\ copy \in [Procs -> BOOLEAN]

LEMMA FinishType ==
    ASSUME TypeOK, RequestsWellFormed, NEW p \in Procs, Finish(p), up' = up
    PROVE  ProcTypes' /\ RequestsWellFormed'
<1>1. ProcTypes'
  BY DEF TypeOK, ProcTypes, Finish, Control
<1>2. RequestsWellFormed'
  BY DEF TypeOK, RequestsWellFormed, Finish, Control
<1>3. QED
  BY <1>1, <1>2

------------------------------------------------------------------------------
(* Type correctness.  The type of the rows depends on requests knowing what  *)
(* they work on, so the two are one invariant.                               *)

TypeInv == TypeOK /\ RequestsWellFormed

LEMMA TypeInvInit == Init => TypeInv
<1> SUFFICES ASSUME Init PROVE TypeInv
  OBVIOUS
<1>1. /\ elapsed \in [Approvals -> BOOLEAN]
      /\ intact \in [Approvals -> BOOLEAN]
      /\ result \in [Approvals -> BOOLEAN]
      /\ late \in [Procs -> BOOLEAN]
      /\ copy \in [Procs -> BOOLEAN]
      /\ up \in BOOLEAN /\ policy \in BOOLEAN
  BY Zenon DEF Init
<1>2. RequestsWellFormed
  BY DEF Init, RequestsWellFormed
<1>3. QED
  BY <1>1, <1>2, MaxCrashesAssumption
     DEF Init, TypeInv, TypeOK, RowStates, ApprovalStates, Control

(* Whatever ends a request and moves its row keeps the types. *)
LEMMA MoveAndFinishType ==
    ASSUME TypeInv, NEW p \in Procs, NEW a \in Approvals, NEW to \in RowStates,
           Move(a, to), Finish(p), up' = up
    PROVE  /\ state' \in [Approvals -> RowStates]
           /\ status' \in [Approvals -> RowStates]
           /\ audit' \in [Approvals -> Seq(AuditEvent)]
           /\ ProcTypes' /\ RequestsWellFormed'
BY MoveType, FinishType DEF TypeInv

LEMMA SystemDenyType ==
    ASSUME TypeInv, NEW p \in Procs, pc[p] # "idle", SystemDeny(p)
    PROVE  TypeInv'
<1>1. target[p] \in Approvals /\ "DENIED" \in RowStates
  BY DEF TypeInv, RequestsWellFormed, RowStates, ApprovalStates
<1>2. SystemRow(target[p]) \in DecisionRow
  BY <1>1 DEF SystemRow, DecisionRow
<1>3. /\ Move(target[p], "DENIED") /\ Finish(p) /\ up' = up
      /\ decisions' = decisions \cup {SystemRow(target[p])}
      /\ UNCHANGED <<attempts, creator, elapsed, intact, result, calls, policy, crashes>>
  BY DEF SystemDeny, gatewayVars
<1>4. QED
  BY <1>1, <1>2, <1>3, MoveAndFinishType DEF TypeInv, TypeOK, ProcTypes

LEMMA TypeInvStep == TypeInv /\ [Next]_vars => TypeInv'
<1> SUFFICES ASSUME TypeInv, [Next]_vars PROVE TypeInv'
  OBVIOUS
<1> USE DEF TypeInv
<1>s. {"PENDING", "APPROVED", "DENIED", "EXPIRED", "RESUMING", "COMPLETED", "FAILED"}
        \subseteq RowStates
  BY DEF RowStates, ApprovalStates
<1>e. [a \in Approvals |-> "EXPIRED"] \in [Approvals -> RowStates]
  BY <1>s
<1>1. ASSUME NEW a \in Approvals, NEW who \in Creators, CreateApproval(a, who)
      PROVE  TypeInv'
  <2>1. Move(a, "PENDING")
    BY <1>1 DEF CreateApproval
  <2>2. QED
    BY <1>1, <2>1, <1>s, MoveType
       DEF CreateApproval, TypeOK, RequestsWellFormed, gatewayVars, procVars
<1>2. ASSUME NEW a \in Approvals, TTLElapses(a) \/ PayloadAltered(a)
      PROVE  TypeInv'
  BY <1>2 DEF TTLElapses, PayloadAltered, TypeOK, RequestsWellFormed,
              logVars, gatewayVars, procVars
<1>3. CASE Poll
  <2>1. MoveAll(Elapsed, [a \in Approvals |-> "EXPIRED"])
    BY <1>3 DEF Poll, SweepExpired
  <2>2. QED
    BY <1>3, <2>1, <1>e, MoveAllType
       DEF Poll, TypeOK, RequestsWellFormed, gatewayVars, procVars
<1>4. ASSUME NEW h \in Handlers, NEW a \in Approvals, NEW f \in Form,
             ReceiveDecision(h, a, f)
      PROVE  TypeInv'
  <2>1. MoveAll(Elapsed, [b \in Approvals |-> "EXPIRED"])
    BY <1>4 DEF ReceiveDecision, SweepExpired
  <2>2. QED
    BY <1>4, <2>1, <1>e, MoveAllType
       DEF ReceiveDecision, TypeOK, RequestsWellFormed, gatewayVars, Procs, Control
<1>5. ASSUME NEW h \in Handlers, NEW expired \in BOOLEAN, DecideWithoutEffect(h, expired)
      PROVE  TypeInv'
  BY <1>5, FinishType
     DEF DecideWithoutEffect, TypeOK, ProcTypes, Procs, rowVars, logVars, gatewayVars
<1>6. ASSUME NEW h \in Handlers, NEW expired \in BOOLEAN, DecideDeny(h, expired)
      PROVE  TypeInv'
  <2>1. h \in Procs /\ target[h] \in Approvals /\ form[h] \in Form
    BY <1>6 DEF DecideDeny, RequestsWellFormed, Procs
  <2>2. ClientRow(form[h], target[h]) \in DecisionRow
    BY <2>1 DEF ClientRow, DecisionRow, Form
  <2>3. /\ Move(target[h], "DENIED") /\ Finish(h) /\ up' = up
        /\ decisions' = decisions \cup {ClientRow(form[h], target[h])}
        /\ UNCHANGED <<attempts, creator, elapsed, intact, result, calls, policy, crashes>>
    BY <1>6 DEF DecideDeny, gatewayVars
  <2>4. QED
    BY <2>1, <2>2, <2>3, <1>s, MoveAndFinishType DEF TypeOK, ProcTypes
<1>7. ASSUME NEW h \in Handlers, NEW expired \in BOOLEAN, DecideApprove(h, expired)
      PROVE  TypeInv'
  <2>1. h \in Procs /\ target[h] \in Approvals /\ form[h] \in Form /\ up
    BY <1>7 DEF DecideApprove, RequestsWellFormed, Procs
  <2>2. ClientRow(form[h], target[h]) \in DecisionRow
    BY <2>1 DEF ClientRow, DecisionRow, Form
  <2>3. /\ Move(target[h], "APPROVED") /\ up' = up
        /\ decisions' = decisions \cup {ClientRow(form[h], target[h])}
        /\ UNCHANGED <<attempts, creator, elapsed, intact, result, calls, policy, crashes>>
    BY <1>7 DEF DecideApprove, gatewayVars
  <2>4. ProcTypes' /\ RequestsWellFormed'
    <3>1. CASE Finish(h)
      BY <3>1, <2>1, <2>3, FinishType
    <3>2. CASE /\ pc' = [pc EXCEPT ![h] = "claim"]
               /\ form' = [form EXCEPT ![h] = None]
               /\ late' = [late EXCEPT ![h] = elapsed[target[h]]]
               /\ UNCHANGED <<target, copy>>
      BY <3>2, <2>1, <2>3 DEF TypeOK, ProcTypes, RequestsWellFormed, Control
    <3>3. QED
      BY <1>7, <3>1, <3>2 DEF DecideApprove
  <2>5. QED
    BY <2>1, <2>2, <2>3, <2>4, <1>s, MoveType DEF TypeOK, ProcTypes
<1>8. ASSUME NEW w \in Workers, NEW a \in Approvals, StartResume(w, a)
      PROVE  TypeInv'
  BY <1>8 DEF StartResume, TypeOK, RequestsWellFormed, Procs, Control,
              rowVars, logVars, gatewayVars
<1>9. ASSUME NEW p \in Procs, ClaimNotEligible(p) \/ UpstreamFails(p)
      PROVE  TypeInv'
  BY <1>9, FinishType
     DEF ClaimNotEligible, UpstreamFails, TypeOK, ProcTypes, rowVars, logVars, gatewayVars
<1>10. ASSUME NEW p \in Procs, ClaimExpires(p)
       PROVE  TypeInv'
  <2>1. target[p] \in Approvals
    BY <1>10 DEF ClaimExpires, Eligible, RequestsWellFormed
  <2>2. QED
    BY <1>10, <2>1, <1>s, MoveAndFinishType
       DEF ClaimExpires, Eligible, TypeOK, ProcTypes, gatewayVars
<1>11. ASSUME NEW p \in Procs, Claim(p)
       PROVE  TypeInv'
  <2>1. target[p] \in Approvals
    BY <1>11 DEF Claim, Eligible, RequestsWellFormed
  <2>2. [from |-> "APPROVED", to |-> "RESUMING"] \in AuditEvent
    BY <1>s DEF AuditEvent
  <2>3. Append(audit[target[p]], [from |-> "APPROVED", to |-> "RESUMING"]) \in Seq(AuditEvent)
    BY <2>1, <2>2 DEF TypeOK
  <2>4. audit' \in [Approvals -> Seq(AuditEvent)]
    BY <1>11, <2>3 DEF Claim, Eligible, TypeOK
  <2>5. QED
    BY <1>11, <2>1, <2>4, <1>s
       DEF Claim, Eligible, TypeOK, RequestsWellFormed, Control, gatewayVars
<1>12. ASSUME NEW p \in Procs, ArgumentsChanged(p) \/ OutputGuardDenies(p)
       PROVE  TypeInv'
  BY <1>12, SystemDenyType DEF ArgumentsChanged, OutputGuardDenies
<1>13. ASSUME NEW p \in Procs, CallUpstream(p)
       PROVE  TypeInv'
  BY <1>13 DEF CallUpstream, TypeOK, RequestsWellFormed, Control,
               rowVars, logVars, gatewayVars
<1>14. ASSUME NEW p \in Procs, Complete(p)
       PROVE  TypeInv'
  <2>1. target[p] \in Approvals
    BY <1>14 DEF Complete, RequestsWellFormed
  <2>2. QED
    BY <1>14, <2>1, <1>s, MoveAndFinishType
       DEF Complete, TypeOK, ProcTypes, gatewayVars
<1>15. CASE Crash
  <2>1. /\ late' \in [Procs -> BOOLEAN] /\ copy' \in [Procs -> BOOLEAN]
        /\ up' \in BOOLEAN /\ policy' \in BOOLEAN
    BY <1>15, Zenon DEF Crash
  <2>2. crashes' \in 0..MaxCrashes
    BY <1>15, MaxCrashesAssumption DEF Crash, TypeOK
  <2>3. /\ pc' \in [Procs -> Control]
        /\ target' \in [Procs -> Approvals \cup {None}]
        /\ form' \in [Procs -> Form \cup {None}]
        /\ RequestsWellFormed'
    BY <1>15 DEF Crash, RequestsWellFormed, Control
  <2>4. QED
    BY <1>15, <2>1, <2>2, <2>3 DEF Crash, TypeOK, rowVars, logVars
<1>16. ASSUME NEW loaded \in BOOLEAN, Startup(loaded)
       PROVE  TypeInv'
  <2>1. ReconcileTo \in [Approvals -> RowStates]
    BY <1>s DEF ReconcileTo
  <2>2. MoveAll({a \in Approvals : state[a] = "RESUMING"}, ReconcileTo)
    BY <1>16 DEF Startup
  <2>3. QED
    BY <1>16, <2>1, <2>2, MoveAllType
       DEF Startup, TypeOK, RequestsWellFormed, procVars
<1>17. CASE UNCHANGED vars
  BY <1>17 DEF vars, rowVars, logVars, gatewayVars, procVars, TypeOK, RequestsWellFormed
<1>18. QED
  BY <1>1, <1>2, <1>3, <1>4, <1>5, <1>6, <1>7, <1>8, <1>9, <1>10, <1>11, <1>12,
     <1>13, <1>14, <1>15, <1>16, <1>17
     DEF Next, Decide, Resume

(* Every value the engine stores is of its declared type, and a request that *)
(* survived to its next transaction still names its approval: the rows and   *)
(* handler frames of app/approvals.py, after any sequence of requests,       *)
(* sweeps, crashes and restarts.                                             *)
THEOREM TypeCorrect == Spec => []TypeOK
<1>1. Spec => []TypeInv
  BY TypeInvInit, TypeInvStep, PTL DEF Spec
<1>2. TypeInv => TypeOK
  BY DEF TypeInv
<1>3. QED
  BY <1>1, <1>2, PTL

------------------------------------------------------------------------------
(* Exclusive claims and bounded calls *)

LEMMA IInvInit == Init => IInv
<1> SUFFICES ASSUME Init PROVE IInv
  OBVIOUS
<1>1. TypeOK /\ RequestsWellFormed
  BY TypeInvInit DEF TypeInv
<1>2. ClaimIsExclusive
  BY DEF Init, ClaimIsExclusive, Holds
<1>3. CallsBounded
  BY MaxResumeAttemptsAssumption DEF Init, CallsBounded
<1>4. AttemptsInStep
  BY DEF Init, AttemptsInStep
<1>5. PollsAgreeWithRow
  BY DEF Init, PollsAgreeWithRow
<1>6. QED
  BY <1>1, <1>2, <1>3, <1>4, <1>5 DEF IInv

(* The parts of IInv beyond the types.                                       *)
Safety == ClaimIsExclusive /\ CallsBounded /\ AttemptsInStep /\ PollsAgreeWithRow

(* A request that ends lets go of what it held and disturbs no other.        *)
LEMMA FinishReleases ==
    ASSUME TypeOK, NEW p \in Procs, Finish(p)
    PROVE  \A q \in Procs : pc'[q] # "idle" =>
               /\ q # p
               /\ pc'[q] = pc[q] /\ target'[q] = target[q] /\ copy'[q] = copy[q]
BY DEF TypeOK, Finish, Control

(* The part of AttemptsInStep about requests follows for every row whose     *)
(* attempts and calls did not change, if no request came to hold a claim.    *)
LEMMA ExclusiveKept ==
    ASSUME ClaimIsExclusive, UNCHANGED state,
           \A q \in Procs : pc'[q] # "idle" =>
               pc'[q] = pc[q] /\ target'[q] = target[q] /\ copy'[q] = copy[q]
    PROVE  ClaimIsExclusive'
<1> SUFFICES ASSUME NEW p \in Procs, NEW a \in Approvals, Holds(p, a)'
             PROVE  /\ state'[a] = "RESUMING"
                    /\ \A q \in Procs : Holds(q, a)' => q = p
                    /\ pc'[p] = "upstream" => copy'[p]
  BY DEF ClaimIsExclusive
<1>1. \A q \in Procs : Holds(q, a)' => Holds(q, a)
  BY DEF Holds
<1>2. /\ state[a] = "RESUMING"
      /\ \A q \in Procs : Holds(q, a) => q = p
      /\ pc[p] = "upstream" => copy[p]
  BY <1>1 DEF ClaimIsExclusive
<1>3. pc'[p] = pc[p] /\ copy'[p] = copy[p]
  BY DEF Holds
<1>4. QED
  BY <1>1, <1>2, <1>3

LEMMA AttemptsInStepKept ==
    ASSUME TypeOK, AttemptsInStep, UNCHANGED <<attempts, calls>>,
           \A q \in Procs : pc'[q] \in {"claimed", "upstream"} =>
               pc'[q] = pc[q] /\ target'[q] = target[q],
           \A a \in Approvals : state'[a] = state[a] \/ state'[a] \notin {"NONE", "PENDING", "APPROVED"}
    PROVE  AttemptsInStep'
<1> SUFFICES ASSUME NEW a \in Approvals
             PROVE  /\ state'[a] \in {"NONE", "PENDING"} => attempts'[a] = 0
                    /\ state'[a] = "APPROVED" => attempts'[a] < MaxResumeAttempts
                    /\ \A q \in Procs : pc'[q] = "claimed" /\ target'[q] = a
                                            => calls'[a] < attempts'[a]
                    /\ \A q \in Procs : pc'[q] = "upstream" /\ target'[q] = a => calls'[a] > 0
  BY DEF AttemptsInStep
<1>1. attempts'[a] = attempts[a] /\ calls'[a] = calls[a]
  OBVIOUS
<1>2. state'[a] \in {"NONE", "PENDING"} => attempts'[a] = 0
  BY <1>1 DEF AttemptsInStep
<1>3. state'[a] = "APPROVED" => attempts'[a] < MaxResumeAttempts
  BY <1>1 DEF AttemptsInStep
<1>4. \A q \in Procs : pc'[q] = "claimed" /\ target'[q] = a => calls'[a] < attempts'[a]
  BY <1>1 DEF AttemptsInStep
<1>5. \A q \in Procs : pc'[q] = "upstream" /\ target'[q] = a => calls'[a] > 0
  BY <1>1 DEF AttemptsInStep
<1>6. QED
  BY <1>2, <1>3, <1>4, <1>5

(* Ending a claim: the one request that held row a lets go as a moves on.    *)
LEMMA EndOfClaimExclusive ==
    ASSUME TypeOK, ClaimIsExclusive, NEW p \in Procs, NEW a \in Approvals, Holds(p, a),
           \A b \in Approvals : b # a => state'[b] = state[b],
           \A q \in Procs : pc'[q] # "idle" =>
               q # p /\ pc'[q] = pc[q] /\ target'[q] = target[q] /\ copy'[q] = copy[q]
    PROVE  ClaimIsExclusive'
<1> SUFFICES ASSUME NEW q \in Procs, NEW b \in Approvals, Holds(q, b)'
             PROVE  /\ state'[b] = "RESUMING"
                    /\ \A r \in Procs : Holds(r, b)' => r = q
                    /\ pc'[q] = "upstream" => copy'[q]
  BY DEF ClaimIsExclusive
<1>1. \A r \in Procs : Holds(r, b)' => Holds(r, b) /\ r # p /\ copy'[r] = copy[r] /\ pc'[r] = pc[r]
  BY DEF Holds
<1>2. Holds(q, b) /\ q # p /\ copy'[q] = copy[q] /\ pc'[q] = pc[q]
  BY <1>1
<1>3. b # a
  BY <1>2 DEF ClaimIsExclusive
<1>4. state'[b] = "RESUMING"
  BY <1>2, <1>3 DEF ClaimIsExclusive
<1>5. QED
  BY <1>1, <1>2, <1>4 DEF ClaimIsExclusive

LEMMA SystemDenySafety ==
    ASSUME IInv, NEW p \in Procs, pc[p] \in {"claimed", "upstream"}, SystemDeny(p)
    PROVE  Safety'
<1>1. PICK a \in Approvals : a = target[p] /\ Holds(p, a)
  BY DEF IInv, RequestsWellFormed, Holds
<1>2. /\ state' = [state EXCEPT ![a] = "DENIED"]
      /\ status' = [status EXCEPT ![a] = "DENIED"]
      /\ UNCHANGED <<attempts, result, calls>>
  BY <1>1 DEF SystemDeny, Move
<1>3. \A q \in Procs : pc'[q] # "idle" =>
          q # p /\ pc'[q] = pc[q] /\ target'[q] = target[q] /\ copy'[q] = copy[q]
  BY FinishReleases DEF SystemDeny, IInv
<1>4. \A b \in Approvals : state'[b] = IF b = a THEN "DENIED" ELSE state[b]
  BY <1>2 DEF IInv, TypeOK
<1>5. ClaimIsExclusive'
  BY <1>1, <1>3, <1>4, EndOfClaimExclusive DEF IInv
<1>6. CallsBounded'
  BY <1>2 DEF IInv, CallsBounded
<1>7. AttemptsInStep'
  BY <1>2, <1>3, <1>4, AttemptsInStepKept DEF IInv
<1>8. PollsAgreeWithRow'
  <2>1. state[a] = "RESUMING" /\ ~result[a]
    BY <1>1 DEF IInv, ClaimIsExclusive, PollsAgreeWithRow
  <2>2. QED
    BY <1>2, <2>1 DEF IInv, PollsAgreeWithRow, TypeOK
<1>9. QED
  BY <1>5, <1>6, <1>7, <1>8 DEF Safety

LEMMA SafetyStep == IInv /\ [Next]_vars => Safety'
<1> SUFFICES ASSUME IInv, [Next]_vars PROVE Safety'
  OBVIOUS
<1> USE MaxResumeAttemptsAssumption
    DEF IInv, Safety, TypeOK, RequestsWellFormed, ClaimIsExclusive, CallsBounded,
        AttemptsInStep, PollsAgreeWithRow, Holds, Procs, RowStates, ApprovalStates, Control
<1>1. ASSUME NEW a \in Approvals, NEW who \in Creators, CreateApproval(a, who)
      PROVE  Safety'
  BY <1>1 DEF CreateApproval, Move, gatewayVars, procVars
<1>2. ASSUME NEW a \in Approvals, TTLElapses(a) \/ PayloadAltered(a)
      PROVE  Safety'
  <2>1. ClaimIsExclusive'
    BY <1>2 DEF TTLElapses, PayloadAltered, logVars, gatewayVars, procVars
  <2>2. CallsBounded'
    BY <1>2 DEF TTLElapses, PayloadAltered, logVars, gatewayVars, procVars
  <2>3. AttemptsInStep'
    BY <1>2 DEF TTLElapses, PayloadAltered, logVars, gatewayVars, procVars
  <2>4. PollsAgreeWithRow'
    BY <1>2 DEF TTLElapses, PayloadAltered, logVars, gatewayVars, procVars
  <2>5. QED
    BY <2>1, <2>2, <2>3, <2>4
<1>3. CASE Poll
  BY <1>3 DEF Poll, SweepExpired, Elapsed, MoveAll, gatewayVars, procVars
<1>4. ASSUME NEW h \in Handlers, NEW a \in Approvals, NEW f \in Form,
             ReceiveDecision(h, a, f)
      PROVE  Safety'
  BY <1>4 DEF ReceiveDecision, SweepExpired, Elapsed, MoveAll, gatewayVars
<1>5. ASSUME NEW h \in Handlers, NEW expired \in BOOLEAN, DecideWithoutEffect(h, expired)
      PROVE  Safety'
  BY <1>5 DEF DecideWithoutEffect, Finish, rowVars, logVars, gatewayVars
<1>6. ASSUME NEW h \in Handlers, NEW expired \in BOOLEAN, DecideDeny(h, expired)
      PROVE  Safety'
  BY <1>6 DEF DecideDeny, Applies, Move, Finish, gatewayVars
<1>7. ASSUME NEW h \in Handlers, NEW expired \in BOOLEAN, DecideApprove(h, expired)
      PROVE  Safety'
  <2>1. /\ state[target[h]] = "PENDING" /\ target[h] \in Approvals
        /\ Move(target[h], "APPROVED") /\ UNCHANGED <<attempts, result, calls>>
    BY <1>7 DEF DecideApprove, Applies
  <2>2. \A q \in Procs : pc'[q] \in {"claimed", "upstream"} =>
            pc'[q] = pc[q] /\ target'[q] = target[q] /\ copy'[q] = copy[q]
    <3>1. CASE Finish(h)
      BY <3>1, FinishReleases
    <3>2. CASE /\ pc' = [pc EXCEPT ![h] = "claim"]
               /\ UNCHANGED <<target, copy>>
      BY <3>2
    <3>3. QED
      BY <1>7, <3>1, <3>2 DEF DecideApprove
  <2>3. ClaimIsExclusive'
    BY <2>1, <2>2 DEF Move
  <2>4. CallsBounded'
    BY <2>1, <2>2 DEF Move
  <2>5. AttemptsInStep'
    BY <2>1, <2>2 DEF Move
  <2>6. PollsAgreeWithRow'
    BY <2>1, <2>2 DEF Move
  <2>7. QED
    BY <2>3, <2>4, <2>5, <2>6
<1>8. ASSUME NEW w \in Workers, NEW a \in Approvals, StartResume(w, a)
      PROVE  Safety'
  BY <1>8 DEF StartResume, rowVars, logVars, gatewayVars
<1>9. ASSUME NEW p \in Procs, ClaimNotEligible(p) \/ UpstreamFails(p)
      PROVE  Safety'
  <2>1. \A q \in Procs : pc'[q] # "idle" =>
            /\ q # p
            /\ pc'[q] = pc[q] /\ target'[q] = target[q] /\ copy'[q] = copy[q]
    BY <1>9, FinishReleases DEF ClaimNotEligible, UpstreamFails
  <2>2. UNCHANGED <<state, attempts, calls, status, result>>
    BY <1>9 DEF ClaimNotEligible, UpstreamFails, rowVars
  <2>3. ClaimIsExclusive'
    BY <2>1, <2>2, ExclusiveKept
  <2>4. CallsBounded'
    BY <2>2
  <2>5. AttemptsInStep'
    BY <2>1, <2>2, AttemptsInStepKept
  <2>6. PollsAgreeWithRow'
    BY <2>2
  <2>7. QED
    BY <2>3, <2>4, <2>5, <2>6
<1>10. ASSUME NEW p \in Procs, ClaimExpires(p)
       PROVE  Safety'
  BY <1>10 DEF ClaimExpires, Eligible, Move, Finish, gatewayVars
<1>11. ASSUME NEW p \in Procs, Claim(p)
       PROVE  Safety'
  <2>1. target[p] \in Approvals /\ state[target[p]] = "APPROVED" /\ pc[p] = "claim"
    BY <1>11 DEF Claim, Eligible
  <2>2. \A q \in Procs : pc[q] \in {"claimed", "upstream"} => target[q] # target[p]
    BY <2>1
  <2>3. ClaimIsExclusive'
    BY <1>11, <2>1, <2>2 DEF Claim, Eligible
  <2>4. CallsBounded'
    BY <1>11, <2>1, <2>2 DEF Claim, Eligible
  <2>5. AttemptsInStep'
    BY <1>11, <2>1, <2>2 DEF Claim, Eligible
  <2>6. PollsAgreeWithRow'
    BY <1>11, <2>1, <2>2 DEF Claim, Eligible
  <2>7. QED
    BY <2>3, <2>4, <2>5, <2>6
<1>12. ASSUME NEW p \in Procs, ArgumentsChanged(p) \/ OutputGuardDenies(p)
       PROVE  Safety'
  <2>1. pc[p] \in {"claimed", "upstream"} /\ SystemDeny(p)
    BY <1>12 DEF ArgumentsChanged, OutputGuardDenies
  <2>2. QED
    BY <2>1, SystemDenySafety
<1>13. ASSUME NEW p \in Procs, CallUpstream(p)
       PROVE  Safety'
  <2>1. target[p] \in Approvals /\ Holds(p, target[p])
    BY <1>13 DEF CallUpstream
  <2>2. \A q \in Procs : q # p => pc'[q] = pc[q]
    BY <1>13 DEF CallUpstream
  <2>3. ClaimIsExclusive'
    BY <1>13, <2>1, <2>2 DEF CallUpstream, rowVars, logVars, gatewayVars
  <2>4. CallsBounded'
    BY <1>13, <2>1, <2>2 DEF CallUpstream, rowVars, logVars, gatewayVars
  <2>5. AttemptsInStep'
    <3>1. /\ calls' = [calls EXCEPT ![target[p]] = @ + 1]
          /\ UNCHANGED <<state, attempts, target>>
      BY <1>13 DEF CallUpstream, rowVars
    <3>2. \A q \in Procs : pc'[q] = "claimed" => q # p /\ target[q] # target[p]
      BY <1>13, <2>1, <2>2 DEF CallUpstream
    <3>3. \A a \in Approvals : calls'[a] >= calls[a]
                             /\ (a # target[p] => calls'[a] = calls[a])
      BY <2>1, <3>1
    <3>4. calls'[target[p]] > 0
      BY <2>1, <3>1
    <3>5. \A a \in Approvals, q \in Procs :
              pc'[q] = "claimed" /\ target'[q] = a => calls'[a] < attempts'[a]
      BY <2>2, <3>1, <3>2, <3>3
    <3>6. ASSUME NEW a \in Approvals, NEW q \in Procs, pc'[q] = "upstream", target'[q] = a
          PROVE  calls'[a] > 0
      <4>1. CASE a = target[p]
        BY <3>4, <4>1
      <4>2. CASE a # target[p]
        <5>1. q # p /\ pc[q] = "upstream" /\ target[q] = a
          BY <2>2, <3>1, <3>6, <4>2
        <5>2. QED
          BY <3>3, <4>2, <5>1
      <4>3. QED
        BY <4>1, <4>2
    <3>7. \A a \in Approvals :
              /\ state'[a] \in {"NONE", "PENDING"} => attempts'[a] = 0
              /\ state'[a] = "APPROVED" => attempts'[a] < MaxResumeAttempts
      BY <3>1
    <3>8. QED
      BY <3>5, <3>6, <3>7
  <2>6. PollsAgreeWithRow'
    BY <1>13, <2>1, <2>2 DEF CallUpstream, rowVars, logVars, gatewayVars
  <2>7. QED
    BY <2>3, <2>4, <2>5, <2>6
<1>14. ASSUME NEW p \in Procs, Complete(p)
       PROVE  Safety'
  <2>1. ClaimIsExclusive'
    BY <1>14 DEF Complete, Move, Finish, gatewayVars
  <2>2. CallsBounded'
    BY <1>14 DEF Complete, Move, Finish, gatewayVars
  <2>3. AttemptsInStep'
    BY <1>14 DEF Complete, Move, Finish, gatewayVars
  <2>4. PollsAgreeWithRow'
    BY <1>14 DEF Complete, Move, Finish, gatewayVars
  <2>5. QED
    BY <2>1, <2>2, <2>3, <2>4
<1>15. CASE Crash
  BY <1>15 DEF Crash, rowVars, logVars
<1>16. ASSUME NEW loaded \in BOOLEAN, Startup(loaded)
       PROVE  Safety'
  BY <1>16 DEF Startup, MoveAll, ReconcileTo, procVars
<1>17. CASE UNCHANGED vars
  BY <1>17 DEF vars, rowVars, logVars, gatewayVars, procVars
<1>18. QED
  BY <1>1, <1>2, <1>3, <1>4, <1>5, <1>6, <1>7, <1>8, <1>9, <1>10, <1>11, <1>12,
     <1>13, <1>14, <1>15, <1>16, <1>17
     DEF Next, Decide, Resume

LEMMA IInvInvariant == Spec => []IInv
<1>1. IInv /\ [Next]_vars => IInv'
  BY TypeInvStep, SafetyStep DEF IInv, TypeInv, Safety
<1>2. QED
  BY IInvInit, <1>1, PTL DEF Spec

(* APR-011: however many requests race for an approval, and whatever crashes *)
(* in between, at most one of them is between its claim and its end; the row *)
(* says RESUMING meanwhile, and what that one sends is an unaltered payload. *)
THEOREM ExclusiveClaims == Spec => []ClaimIsExclusive
<1>1. IInv => ClaimIsExclusive
  BY DEF IInv
<1>2. QED
  BY IInvInvariant, <1>1, PTL

(* APR-014: no approval is sent upstream more than MAX_RESUME_ATTEMPTS       *)
(* times, nor more often than its persisted resume_attempts says.            *)
THEOREM BoundedCalls == Spec => []CallsBounded
<1>1. IInv => CallsBounded
  BY DEF IInv
<1>2. QED
  BY IInvInvariant, <1>1, PTL

(* GET requests/{id} never reports COMPLETED without a result that came from *)
(* upstream, nor a result under another status, and its status differs from  *)
(* the approval's only as APPROVED for RESUMING.                             *)
THEOREM PollsAgree == Spec => []PollsAgreeWithRow
<1>1. IInv => PollsAgreeWithRow
  BY DEF IInv
<1>2. QED
  BY IInvInvariant, <1>1, PTL

------------------------------------------------------------------------------
(* The diagram *)

Drawn == AllowedTransitions \cup {<<"NONE", "PENDING">>, <<"RESUMING", "FAILED">>}

Edge(a) == state'[a] # state[a] => <<state[a], state'[a]>> \in Drawn

(* A step that moves one row along a drawn edge moves rows along drawn edges. *)
LEMMA OneEdge ==
    ASSUME TypeOK, NEW b \in Approvals, NEW to,
           state' = [state EXCEPT ![b] = to], <<state[b], to>> \in Drawn
    PROVE  \A a \in Approvals : Edge(a)
BY DEF TypeOK, Edge

LEMMA SweepEdges ==
    ASSUME TypeOK, SweepExpired
    PROVE  \A a \in Approvals : Edge(a)
BY DEF TypeOK, SweepExpired, MoveAll, Elapsed, Edge, Drawn, AllowedTransitions

LEMMA DrawnStep == IInv /\ [Next]_vars => \A a \in Approvals : Edge(a)
<1> SUFFICES ASSUME IInv, [Next]_vars PROVE \A a \in Approvals : Edge(a)
  OBVIOUS
<1>t. TypeOK
  BY DEF IInv
<1>k. ASSUME UNCHANGED state PROVE \A a \in Approvals : Edge(a)
  BY <1>k DEF Edge
<1>1. ASSUME NEW a \in Approvals, NEW who \in Creators, CreateApproval(a, who)
      PROVE  \A b \in Approvals : Edge(b)
  <2>1. state' = [state EXCEPT ![a] = "PENDING"] /\ <<state[a], "PENDING">> \in Drawn
    BY <1>1 DEF CreateApproval, Move, Drawn
  <2>2. QED
    BY <2>1, <1>t, OneEdge
<1>2. ASSUME NEW a \in Approvals, TTLElapses(a) \/ PayloadAltered(a)
      PROVE  \A b \in Approvals : Edge(b)
  BY <1>2, <1>k DEF TTLElapses, PayloadAltered
<1>3. ASSUME Poll \/ \E h \in Handlers, a \in Approvals, f \in Form : ReceiveDecision(h, a, f)
      PROVE  \A b \in Approvals : Edge(b)
  BY <1>3, <1>t, SweepEdges DEF Poll, ReceiveDecision
<1>4. ASSUME NEW h \in Handlers, NEW expired \in BOOLEAN, DecideWithoutEffect(h, expired)
      PROVE  \A b \in Approvals : Edge(b)
  BY <1>4, <1>k DEF DecideWithoutEffect, rowVars
<1>5. ASSUME NEW h \in Handlers, NEW expired \in BOOLEAN,
             DecideDeny(h, expired) \/ DecideApprove(h, expired)
      PROVE  \A b \in Approvals : Edge(b)
  <2>1. target[h] \in Approvals
    BY <1>5 DEF DecideDeny, DecideApprove, IInv, RequestsWellFormed, Procs
  <2>2. PICK to \in {"DENIED", "APPROVED"} :
            state' = [state EXCEPT ![target[h]] = to] /\ state[target[h]] = "PENDING"
    BY <1>5 DEF DecideDeny, DecideApprove, Move, Applies
  <2>3. <<state[target[h]], to>> \in Drawn
    BY <2>2 DEF Drawn, AllowedTransitions
  <2>4. QED
    BY <2>1, <2>2, <2>3, <1>t, OneEdge
<1>6. ASSUME NEW w \in Workers, NEW a \in Approvals, StartResume(w, a)
      PROVE  \A b \in Approvals : Edge(b)
  BY <1>6, <1>k DEF StartResume, rowVars
<1>7. ASSUME NEW p \in Procs, ClaimNotEligible(p) \/ CallUpstream(p) \/ UpstreamFails(p)
      PROVE  \A b \in Approvals : Edge(b)
  BY <1>7, <1>k DEF ClaimNotEligible, CallUpstream, UpstreamFails, rowVars
<1>8. ASSUME NEW p \in Procs, ClaimExpires(p) \/ Claim(p)
      PROVE  \A b \in Approvals : Edge(b)
  <2>1. target[p] \in Approvals
    BY <1>8 DEF ClaimExpires, Eligible, Claim, IInv, RequestsWellFormed
  <2>2. PICK to \in {"EXPIRED", "RESUMING"} :
            state' = [state EXCEPT ![target[p]] = to] /\ state[target[p]] = "APPROVED"
    BY <1>8 DEF ClaimExpires, Eligible, Claim, Move
  <2>3. <<state[target[p]], to>> \in Drawn
    BY <2>2 DEF Drawn, AllowedTransitions
  <2>4. QED
    BY <2>1, <2>2, <2>3, <1>t, OneEdge
<1>9. ASSUME NEW p \in Procs, ArgumentsChanged(p) \/ OutputGuardDenies(p) \/ Complete(p)
      PROVE  \A b \in Approvals : Edge(b)
  <2>1. target[p] \in Approvals /\ state[target[p]] = "RESUMING"
    BY <1>9 DEF ArgumentsChanged, OutputGuardDenies, Complete,
                IInv, RequestsWellFormed, ClaimIsExclusive, Holds
  <2>2. PICK to \in {"DENIED", "COMPLETED"} : state' = [state EXCEPT ![target[p]] = to]
    BY <1>9 DEF ArgumentsChanged, OutputGuardDenies, SystemDeny, Complete, Move
  <2>3. <<state[target[p]], to>> \in Drawn
    BY <2>1, <2>2 DEF Drawn, AllowedTransitions
  <2>4. QED
    BY <2>1, <2>2, <2>3, <1>t, OneEdge
<1>10. ASSUME Crash \/ UNCHANGED vars
       PROVE  \A b \in Approvals : Edge(b)
  BY <1>10, <1>k DEF Crash, vars, rowVars
<1>11. ASSUME NEW loaded \in BOOLEAN, Startup(loaded)
       PROVE  \A b \in Approvals : Edge(b)
  BY <1>11, <1>t DEF Startup, MoveAll, ReconcileTo, Edge, Drawn, AllowedTransitions, TypeOK
<1>12. QED
  BY <1>1, <1>2, <1>3, <1>4, <1>5, <1>6, <1>7, <1>8, <1>9, <1>10, <1>11
     DEF Next, Decide, Resume

(* APR-001, APR-003: no sequence of requests, sweeps, crashes and restarts   *)
(* takes a row along an edge SPEC.md 9.2 does not draw, so the check inside  *)
(* _transition has nothing to refuse and a terminal state is never left.     *)
THEOREM DrawnTransitions == Spec => OnlyDrawnTransitions
<1>1. IInv /\ [Next]_vars =>
          [\A a \in Approvals : state'[a] # state[a] =>
               <<state[a], state'[a]>> \in
                   AllowedTransitions \cup {<<"NONE", "PENDING">>, <<"RESUMING", "FAILED">>}]_vars
  BY DrawnStep DEF Edge, Drawn
<1>2. QED
  BY <1>1, IInvInvariant, PTL DEF Spec, OnlyDrawnTransitions

------------------------------------------------------------------------------
(* Idempotency keys *)

(* What a step may add to the decisions: one row for a key not yet on        *)
(* record, or the resume worker's own row, which has no key.                 *)
AddsDecision(a) ==
    \/ \E f \in Form :
           /\ decisions' = decisions \cup {ClientRow(f, a)}
           /\ \A e \in decisions : e.key # f.key
    \/ decisions' = decisions \cup {SystemRow(a)}

LEMMA DecisionsStep ==
    TypeInv /\ [Next]_vars =>
        decisions' = decisions \/ \E a \in Approvals : AddsDecision(a)
<1> SUFFICES ASSUME TypeInv, [Next]_vars
             PROVE  decisions' = decisions \/ \E a \in Approvals : AddsDecision(a)
  OBVIOUS
<1>1. ASSUME NEW h \in Handlers, NEW expired \in BOOLEAN,
             DecideDeny(h, expired) \/ DecideApprove(h, expired)
      PROVE  \E a \in Approvals : AddsDecision(a)
  <2>1. target[h] \in Approvals /\ form[h] \in Form
    BY <1>1 DEF DecideDeny, DecideApprove, TypeInv, RequestsWellFormed, Procs
  <2>2. /\ decisions' = decisions \cup {ClientRow(form[h], target[h])}
        /\ \A e \in decisions : e.key # form[h].key
    BY <1>1 DEF DecideDeny, DecideApprove, Applies
  <2>3. QED
    BY <2>1, <2>2, Zenon DEF AddsDecision
<1>2. ASSUME NEW p \in Procs, ArgumentsChanged(p) \/ OutputGuardDenies(p)
      PROVE  \E a \in Approvals : AddsDecision(a)
  <2>1. decisions' = decisions \cup {SystemRow(target[p])}
    BY <1>2 DEF ArgumentsChanged, OutputGuardDenies, SystemDeny
  <2>2. target[p] \in Approvals
    BY <1>2 DEF ArgumentsChanged, OutputGuardDenies, TypeInv, RequestsWellFormed
  <2>3. QED
    BY <2>1, <2>2, Zenon DEF AddsDecision
<1>3. ASSUME NEW p \in Procs,
             ClaimNotEligible(p) \/ ClaimExpires(p) \/ Claim(p)
             \/ CallUpstream(p) \/ UpstreamFails(p) \/ Complete(p)
      PROVE  decisions' = decisions
  BY <1>3 DEF ClaimNotEligible, ClaimExpires, Claim, CallUpstream, UpstreamFails,
              Complete, logVars
<1>4. ASSUME NEW h \in Handlers, NEW expired \in BOOLEAN, DecideWithoutEffect(h, expired)
      PROVE  decisions' = decisions
  BY <1>4 DEF DecideWithoutEffect, logVars
<1>5. ASSUME \/ \E a \in Approvals, who \in Creators : CreateApproval(a, who)
             \/ \E a \in Approvals : TTLElapses(a) \/ PayloadAltered(a)
             \/ Poll
             \/ \E h \in Handlers, a \in Approvals, f \in Form : ReceiveDecision(h, a, f)
             \/ \E w \in Workers, a \in Approvals : StartResume(w, a)
             \/ Crash
             \/ \E loaded \in BOOLEAN : Startup(loaded)
             \/ UNCHANGED vars
      PROVE  decisions' = decisions
  BY <1>5 DEF CreateApproval, TTLElapses, PayloadAltered, Poll, ReceiveDecision,
              StartResume, Crash, Startup, vars, logVars
<1>6. QED
  BY <1>1, <1>2, <1>3, <1>4, <1>5 DEF Next, Decide, Resume

LEMMA KeysStep == TypeInv /\ KeysDecideOnce /\ [Next]_vars => KeysDecideOnce'
<1> SUFFICES ASSUME TypeInv, KeysDecideOnce, [Next]_vars PROVE KeysDecideOnce'
  OBVIOUS
<1>1. CASE decisions' = decisions
  BY <1>1 DEF KeysDecideOnce
<1>2. ASSUME NEW a \in Approvals, AddsDecision(a) PROVE KeysDecideOnce'
  <2>1. CASE decisions' = decisions \cup {SystemRow(a)}
    BY <2>1 DEF KeysDecideOnce, SystemRow
  <2>2. ASSUME NEW f \in Form, decisions' = decisions \cup {ClientRow(f, a)},
               \A e \in decisions : e.key # f.key
        PROVE  KeysDecideOnce'
    BY <2>2 DEF KeysDecideOnce, ClientRow
  <2>3. QED
    BY <1>2, <2>1, <2>2, Zenon DEF AddsDecision
<1>3. QED
  BY <1>1, <1>2, DecisionsStep

(* APR-010: whatever requests race with one Idempotency-Key, for one         *)
(* approval or for several, at most one decision is ever recorded under it.  *)
THEOREM KeysOnce == Spec => []KeysDecideOnce
<1>1. Init => KeysDecideOnce
  BY DEF Init, KeysDecideOnce
<1>2. IInv => TypeInv
  BY DEF IInv, TypeInv
<1>3. QED
  BY <1>1, <1>2, KeysStep, IInvInvariant, PTL DEF Spec

------------------------------------------------------------------------------
(* Decision rows *)

(* DecisionsExplainState of one approval, by the rows on record for it.       *)
Explained(a) ==
    /\ state[a] \in {"NONE", "PENDING"} => RowsOf(a) = {} /\ calls[a] = 0
    /\ state[a] \in {"APPROVED", "RESUMING", "COMPLETED", "FAILED"} =>
           GrantedOnce(a) /\ SystemRow(a) \notin RowsOf(a)
    /\ state[a] = "EXPIRED" =>
           \/ RowsOf(a) = {} /\ calls[a] = 0
           \/ GrantedOnce(a) /\ SystemRow(a) \notin RowsOf(a)
    /\ state[a] = "DENIED" =>
           \/ GrantedOnce(a) /\ SystemRow(a) \in RowsOf(a)
           \/ /\ calls[a] = 0
              /\ \E d \in RowsOf(a) :
                    /\ RowsOf(a) = {d}
                    /\ d.decision = "DENY" /\ d.noted
                    /\ d.reviewer \in Reviewers \ {creator[a]}

LEMMA ExplainedByRows == DecisionsExplainState <=> \A a \in Approvals : Explained(a)
<1>1. \A a \in Approvals : SystemRow(a) \in decisions <=> SystemRow(a) \in RowsOf(a)
  BY DEF SystemRow, RowsOf
<1>2. QED
  BY <1>1 DEF DecisionsExplainState, Explained

(* A row that gains no decision stays explained over an edge that asks for   *)
(* none, and over a call that is made for it while it is RESUMING.            *)
LEMMA ExplainedKept ==
    ASSUME NEW a \in Approvals, Explained(a),
           RowsOf(a)' = RowsOf(a),
           creator'[a] = creator[a] \/ state[a] = "NONE",
           calls'[a] = calls[a] \/ state[a] = "RESUMING",
           \/ state'[a] = state[a]
           \/ state[a] = "NONE" /\ state'[a] = "PENDING"
           \/ state[a] \in {"PENDING", "APPROVED"} /\ state'[a] = "EXPIRED"
           \/ state[a] = "APPROVED" /\ state'[a] = "RESUMING"
           \/ state[a] = "RESUMING" /\ state'[a] \in {"APPROVED", "COMPLETED", "FAILED"}
    PROVE  Explained(a)'
<1>1. SystemRow(a)' = SystemRow(a)
  BY DEF SystemRow
<1>2. CASE state[a] = "NONE"
  BY <1>1, <1>2 DEF Explained
<1>3. CASE state[a] # "NONE"
  <2>1. creator'[a] = creator[a]
    BY <1>3
  <2>2. GrantedOnce(a) => GrantedOnce(a)'
    BY <1>1, <2>1 DEF GrantedOnce
  <2>3. CASE state'[a] = state[a]
    BY <1>1, <1>3, <2>1, <2>2, <2>3 DEF Explained
  <2>4. CASE state'[a] # state[a]
    BY <1>1, <1>3, <2>1, <2>2, <2>4 DEF Explained
  <2>5. QED
    BY <2>3, <2>4
<1>4. QED
  BY <1>2, <1>3

(* A reviewer's row on a PENDING approval.                                   *)
LEMMA ReviewExplains ==
    ASSUME NEW a \in Approvals, Explained(a), state[a] = "PENDING", NEW f \in Form,
           RowsOf(a)' = RowsOf(a) \cup {ClientRow(f, a)},
           f.reviewer # creator[a], creator'[a] = creator[a], calls'[a] = calls[a],
           \/ f.decision = "APPROVE" /\ state'[a] = "APPROVED"
           \/ f.decision = "DENY" /\ f.noted /\ state'[a] = "DENIED"
    PROVE  Explained(a)'
<1> DEFINE row == ClientRow(f, a)
<1>1. RowsOf(a)' = {row} /\ calls'[a] = 0
  BY DEF Explained
<1>2. /\ row.decision = f.decision /\ row.noted = f.noted
      /\ row.reviewer \in Reviewers \ {creator'[a]}
  BY DEF ClientRow, Form
<1>3. CASE state'[a] = "APPROVED"
  <2>1. row.decision = "APPROVE" /\ row # SystemRow(a)' /\ SystemRow(a)' = SystemRow(a)
    BY <1>2, <1>3 DEF ClientRow, SystemRow
  <2>2. GrantedOnce(a)'
    BY <1>1, <1>2, <2>1 DEF GrantedOnce
  <2>3. QED
    BY <1>1, <1>3, <2>1, <2>2 DEF Explained
<1>4. CASE state'[a] = "DENIED"
  <2>1. row.decision = "DENY" /\ row.noted
    BY <1>2, <1>4
  <2>2. QED
    BY <1>1, <1>2, <1>4, <2>1 DEF Explained
<1>5. QED
  BY <1>3, <1>4

(* The resume worker's row on a RESUMING one.                                *)
LEMMA RefusalExplains ==
    ASSUME NEW a \in Approvals, Explained(a), state[a] = "RESUMING",
           RowsOf(a)' = RowsOf(a) \cup {SystemRow(a)},
           creator'[a] = creator[a], state'[a] = "DENIED"
    PROVE  Explained(a)'
<1>1. SystemRow(a)' = SystemRow(a)
  BY DEF SystemRow
<1>2. GrantedOnce(a)'
  BY <1>1 DEF Explained, GrantedOnce
<1>3. QED
  BY <1>1, <1>2 DEF Explained

LEMMA ExplainStep ==
    IInv /\ [Next]_vars /\ (\A a \in Approvals : Explained(a)) => \A a \in Approvals : Explained(a)'
<1> SUFFICES ASSUME IInv, [Next]_vars, \A a \in Approvals : Explained(a),
                    NEW a \in Approvals
             PROVE  Explained(a)'
  OBVIOUS
<1>t. TypeOK
  BY DEF IInv
<1>r. ASSUME decisions' = decisions PROVE RowsOf(a)' = RowsOf(a)
  BY <1>r DEF RowsOf
<1>1. ASSUME NEW b \in Approvals, NEW who \in Creators, CreateApproval(b, who)
      PROVE  Explained(a)'
  BY <1>1, <1>r, <1>t, ExplainedKept DEF CreateApproval, Move, TypeOK
<1>2. ASSUME \/ \E b \in Approvals : TTLElapses(b) \/ PayloadAltered(b)
             \/ Crash
             \/ UNCHANGED vars
             \/ \E h \in Handlers, expired \in BOOLEAN : DecideWithoutEffect(h, expired)
             \/ \E w \in Workers, b \in Approvals : StartResume(w, b)
             \/ \E p \in Procs : ClaimNotEligible(p) \/ UpstreamFails(p)
      PROVE  Explained(a)'
  <2>1. UNCHANGED <<state, creator, calls, decisions>>
    BY <1>2 DEF TTLElapses, PayloadAltered, Crash, vars, DecideWithoutEffect, StartResume,
                ClaimNotEligible, UpstreamFails, rowVars, logVars
  <2>2. QED
    BY <2>1, <1>r, ExplainedKept
<1>3. ASSUME Poll \/ \E h \in Handlers, b \in Approvals, f \in Form : ReceiveDecision(h, b, f)
      PROVE  Explained(a)'
  <2>1. SweepExpired /\ UNCHANGED <<creator, calls, decisions>>
    BY <1>3 DEF Poll, ReceiveDecision
  <2>2. \/ state'[a] = state[a]
        \/ state[a] \in {"PENDING", "APPROVED"} /\ state'[a] = "EXPIRED"
    BY <2>1 DEF SweepExpired, MoveAll, Elapsed
  <2>3. QED
    BY <2>1, <2>2, <1>r, ExplainedKept
<1>4. ASSUME NEW h \in Handlers, NEW expired \in BOOLEAN,
             DecideDeny(h, expired) \/ DecideApprove(h, expired)
      PROVE  Explained(a)'
  <2>1. target[h] \in Approvals /\ form[h] \in Form
    BY <1>4 DEF DecideDeny, DecideApprove, IInv, RequestsWellFormed, Procs
  <2>2. /\ state[target[h]] = "PENDING" /\ form[h].reviewer # creator[target[h]]
        /\ decisions' = decisions \cup {ClientRow(form[h], target[h])}
        /\ UNCHANGED <<creator, calls>>
        /\ \/ form[h].decision = "APPROVE" /\ state' = [state EXCEPT ![target[h]] = "APPROVED"]
           \/ /\ form[h].decision = "DENY" /\ form[h].noted
              /\ state' = [state EXCEPT ![target[h]] = "DENIED"]
    BY <1>4 DEF DecideDeny, DecideApprove, Applies, Move
  <2>3. CASE a = target[h]
    <3>1. RowsOf(a)' = RowsOf(a) \cup {ClientRow(form[h], a)}
      BY <2>2, <2>3 DEF RowsOf, ClientRow
    <3>2. QED
      BY <2>1, <2>2, <2>3, <3>1, <1>t, ReviewExplains DEF TypeOK
  <2>4. CASE a # target[h]
    <3>1. RowsOf(a)' = RowsOf(a)
      BY <2>2, <2>4 DEF RowsOf, ClientRow
    <3>2. QED
      BY <2>2, <2>4, <3>1, <1>t, ExplainedKept DEF TypeOK
  <2>5. QED
    BY <2>3, <2>4
<1>5. ASSUME NEW p \in Procs, ClaimExpires(p) \/ Claim(p)
      PROVE  Explained(a)'
  <2>1. target[p] \in Approvals
    BY <1>5 DEF ClaimExpires, Eligible, Claim, IInv, RequestsWellFormed
  <2>2. /\ state[target[p]] = "APPROVED" /\ UNCHANGED <<creator, calls, decisions>>
        /\ \E to \in {"EXPIRED", "RESUMING"} : state' = [state EXCEPT ![target[p]] = to]
    BY <1>5 DEF ClaimExpires, Eligible, Claim, Move
  <2>3. QED
    BY <2>1, <2>2, <1>r, <1>t, ExplainedKept DEF TypeOK
<1>6. ASSUME NEW p \in Procs, ArgumentsChanged(p) \/ OutputGuardDenies(p)
      PROVE  Explained(a)'
  <2>1. target[p] \in Approvals /\ state[target[p]] = "RESUMING"
    BY <1>6 DEF ArgumentsChanged, OutputGuardDenies, IInv, RequestsWellFormed,
                ClaimIsExclusive, Holds
  <2>2. /\ decisions' = decisions \cup {SystemRow(target[p])}
        /\ UNCHANGED <<creator, calls>>
        /\ state' = [state EXCEPT ![target[p]] = "DENIED"]
    BY <1>6 DEF ArgumentsChanged, OutputGuardDenies, SystemDeny, Move
  <2>3. CASE a = target[p]
    <3>1. RowsOf(a)' = RowsOf(a) \cup {SystemRow(a)}
      BY <2>2, <2>3 DEF RowsOf, SystemRow
    <3>2. QED
      BY <2>1, <2>2, <2>3, <3>1, <1>t, RefusalExplains DEF TypeOK
  <2>4. CASE a # target[p]
    <3>1. RowsOf(a)' = RowsOf(a)
      BY <2>2, <2>4 DEF RowsOf, SystemRow
    <3>2. QED
      BY <2>2, <2>4, <3>1, <1>t, ExplainedKept DEF TypeOK
  <2>5. QED
    BY <2>3, <2>4
<1>7. ASSUME NEW p \in Procs, CallUpstream(p) \/ Complete(p)
      PROVE  Explained(a)'
  <2>1. target[p] \in Approvals /\ state[target[p]] = "RESUMING"
    BY <1>7 DEF CallUpstream, Complete, IInv, RequestsWellFormed, ClaimIsExclusive, Holds
  <2>2. /\ UNCHANGED <<creator, decisions>>
        /\ \/ UNCHANGED state /\ calls' = [calls EXCEPT ![target[p]] = @ + 1]
           \/ UNCHANGED calls /\ state' = [state EXCEPT ![target[p]] = "COMPLETED"]
    BY <1>7 DEF CallUpstream, Complete, Move, rowVars, logVars
  <2>3. QED
    BY <2>1, <2>2, <1>r, <1>t, ExplainedKept DEF TypeOK
<1>8. ASSUME NEW loaded \in BOOLEAN, Startup(loaded)
      PROVE  Explained(a)'
  <2>1. /\ UNCHANGED <<creator, calls, decisions>>
        /\ \/ state'[a] = state[a]
           \/ state[a] = "RESUMING" /\ state'[a] \in {"APPROVED", "FAILED"}
    BY <1>8 DEF Startup, MoveAll, ReconcileTo
  <2>2. QED
    BY <2>1, <1>r, ExplainedKept
<1>9. QED
  BY <1>1, <1>2, <1>3, <1>4, <1>5, <1>6, <1>7, <1>8 DEF Next, Decide, Resume

(* APR-001, APR-002, APR-009: the rows of approval_decisions explain where   *)
(* an approval is.  It goes on only by one approval of somebody other than   *)
(* its creator, and what a reviewer denied was never sent.                   *)
THEOREM DecisionsExplain == Spec => []DecisionsExplainState
<1> DEFINE AllExplained == \A a \in Approvals : Explained(a)
<1>1. Init => AllExplained
  BY DEF Init, Explained, RowsOf
<1>2. IInv /\ [Next]_vars /\ AllExplained => AllExplained'
  BY ExplainStep
<1>3. AllExplained => DecisionsExplainState
  BY ExplainedByRows
<1> HIDE DEF AllExplained
<1>4. QED
  BY <1>1, <1>2, <1>3, IInvInvariant, PTL DEF Spec

------------------------------------------------------------------------------
(* One claim each, where decisions are the only callers of resume_approved.   *)
(* A request on its way to its claim is the one that approved the row, the    *)
(* row was never claimed, and it cannot be approved again.                   *)
Approver(p) ==
    /\ state[target[p]] \notin {"NONE", "PENDING"} /\ attempts[target[p]] = 0
    /\ \A q \in Procs : pc[q] = "claim" /\ target[q] = target[p] => q = p

OnceInv ==
    /\ \A a \in Approvals : attempts[a] <= 1
    /\ \A p \in Procs : pc[p] = "claim" => Approver(p)

(* Rows may move on, and requests end, while no attempt is counted.           *)
LEMMA OnceKept ==
    ASSUME IInv, OnceInv, UNCHANGED attempts,
           \A a \in Approvals : state[a] \notin {"NONE", "PENDING"} => state'[a] \notin {"NONE", "PENDING"},
           \A q \in Procs : pc'[q] = "claim" => pc[q] = "claim" /\ target'[q] = target[q]
    PROVE  OnceInv'
<1>1. \A a \in Approvals : attempts'[a] <= 1
  BY DEF OnceInv
<1>2. ASSUME NEW p \in Procs, pc'[p] = "claim" PROVE Approver(p)'
  <2>1. pc[p] = "claim" /\ target'[p] = target[p] /\ target[p] \in Approvals
    BY <1>2 DEF IInv, RequestsWellFormed
  <2>2. Approver(p)
    BY <2>1 DEF OnceInv
  <2>3. QED
    BY <2>1, <2>2 DEF Approver
<1>3. QED
  BY <1>1, <1>2 DEF OnceInv

LEMMA OnceStep == Workers = {} /\ IInv /\ [Next]_vars /\ OnceInv => OnceInv'
<1> SUFFICES ASSUME Workers = {}, IInv, [Next]_vars, OnceInv PROVE OnceInv'
  OBVIOUS
<1>t. TypeOK
  BY DEF IInv
<1>1. ASSUME NEW a \in Approvals, NEW who \in Creators, CreateApproval(a, who)
      PROVE  OnceInv'
  <2>1. /\ UNCHANGED <<attempts, pc, target>> /\ state[a] = "NONE"
        /\ state' = [state EXCEPT ![a] = "PENDING"]
    BY <1>1 DEF CreateApproval, Move, procVars
  <2>2. QED
    BY <2>1, <1>t, OnceKept DEF TypeOK
<1>2. ASSUME \/ \E a \in Approvals : TTLElapses(a) \/ PayloadAltered(a)
             \/ UNCHANGED vars
             \/ \E p \in Procs : CallUpstream(p)
      PROVE  OnceInv'
  <2>1. /\ UNCHANGED <<attempts, state, target>>
        /\ \A q \in Procs : pc'[q] = "claim" => pc[q] = "claim"
    BY <1>2, <1>t DEF TTLElapses, PayloadAltered, CallUpstream, vars, rowVars, procVars, TypeOK
  <2>2. QED
    BY <2>1, OnceKept
<1>3. ASSUME Poll \/ \E h \in Handlers, a \in Approvals, f \in Form : ReceiveDecision(h, a, f)
      PROVE  OnceInv'
  <2>1. SweepExpired /\ UNCHANGED attempts
    BY <1>3 DEF Poll, ReceiveDecision
  <2>2. \A a \in Approvals : state'[a] = state[a] \/ state'[a] = "EXPIRED"
    BY <2>1 DEF SweepExpired, MoveAll
  <2>3. \A q \in Procs : pc'[q] = "claim" => pc[q] = "claim" /\ target'[q] = target[q]
    BY <1>3, <1>t DEF Poll, ReceiveDecision, procVars, TypeOK
  <2>4. QED
    BY <2>1, <2>2, <2>3, OnceKept
<1>4. ASSUME NEW p \in Procs, Finish(p), UNCHANGED attempts,
             \/ UNCHANGED state
             \/ /\ target[p] \in Approvals
                /\ \E to \in {"DENIED", "APPROVED", "EXPIRED", "COMPLETED"} :
                       state' = [state EXCEPT ![target[p]] = to]
      PROVE  OnceInv'
  <2>1. \A q \in Procs : pc'[q] = "claim" => pc[q] = "claim" /\ target'[q] = target[q]
    BY <1>4, <1>t, FinishReleases
  <2>2. QED
    BY <1>4, <2>1, <1>t, OnceKept DEF TypeOK
<1>5. ASSUME NEW h \in Handlers, NEW expired \in BOOLEAN,
             DecideWithoutEffect(h, expired) \/ DecideDeny(h, expired)
      PROVE  OnceInv'
  <2>1. h \in Procs /\ target[h] \in Approvals /\ Finish(h) /\ UNCHANGED attempts
    BY <1>5 DEF DecideWithoutEffect, DecideDeny, rowVars, IInv, RequestsWellFormed, Procs
  <2>2. UNCHANGED state \/ state' = [state EXCEPT ![target[h]] = "DENIED"]
    BY <1>5 DEF DecideWithoutEffect, DecideDeny, rowVars, Move
  <2>3. QED
    BY <2>1, <2>2, <1>4
<1>6. ASSUME NEW h \in Handlers, NEW expired \in BOOLEAN, DecideApprove(h, expired)
      PROVE  OnceInv'
  <2>1. h \in Procs /\ target[h] \in Approvals /\ UNCHANGED attempts
    BY <1>6 DEF DecideApprove, IInv, RequestsWellFormed, Procs
  <2>2. state[target[h]] = "PENDING" /\ state' = [state EXCEPT ![target[h]] = "APPROVED"]
    BY <1>6 DEF DecideApprove, Applies, Move
  <2>3. CASE Finish(h)
    BY <2>1, <2>2, <2>3, <1>4
  <2>4. CASE pc' = [pc EXCEPT ![h] = "claim"] /\ UNCHANGED target
    <3>1. attempts[target[h]] = 0
      BY <2>1, <2>2 DEF IInv, AttemptsInStep
    <3>2. \A q \in Procs : pc[q] = "claim" => target[q] \in Approvals /\ target[q] # target[h]
      BY <2>2 DEF OnceInv, Approver, IInv, RequestsWellFormed
    <3>3. /\ \A q \in Procs : pc'[q] = "claim" => q = h \/ pc[q] = "claim"
          /\ \A b \in Approvals : state'[b] \in {"NONE", "PENDING"} => state'[b] = state[b]
          /\ state'[target[h]] = "APPROVED"
      BY <2>1, <2>2, <2>4, <1>t DEF TypeOK
    <3>4. ASSUME NEW p \in Procs, pc'[p] = "claim" PROVE Approver(p)'
      <4>1. CASE p = h
        BY <4>1, <2>1, <2>4, <3>1, <3>2, <3>3 DEF Approver
      <4>2. CASE p # h
        <5>1. pc[p] = "claim" /\ Approver(p)
          BY <3>3, <3>4, <4>2 DEF OnceInv
        <5>2. QED
          BY <5>1, <4>2, <2>1, <2>4, <3>2, <3>3 DEF Approver
      <4>3. QED
        BY <4>1, <4>2
    <3>5. QED
      BY <2>1, <3>4 DEF OnceInv
  <2>5. QED
    BY <1>6, <2>3, <2>4 DEF DecideApprove
<1>7. ASSUME NEW p \in Procs,
             \/ ClaimNotEligible(p) \/ UpstreamFails(p) \/ ClaimExpires(p)
             \/ ArgumentsChanged(p) \/ OutputGuardDenies(p) \/ Complete(p)
      PROVE  OnceInv'
  <2>1. target[p] \in Approvals /\ Finish(p) /\ UNCHANGED attempts
    BY <1>7 DEF ClaimNotEligible, UpstreamFails, ClaimExpires, Eligible, ArgumentsChanged,
                OutputGuardDenies, SystemDeny, Complete, rowVars, IInv, RequestsWellFormed
  <2>2. \/ UNCHANGED state
        \/ \E to \in {"DENIED", "EXPIRED", "COMPLETED"} : state' = [state EXCEPT ![target[p]] = to]
    BY <1>7 DEF ClaimNotEligible, UpstreamFails, ClaimExpires, ArgumentsChanged,
                OutputGuardDenies, SystemDeny, Complete, rowVars, Move
  <2>3. QED
    BY <2>1, <2>2, <1>4
<1>8. ASSUME NEW p \in Procs, Claim(p)
      PROVE  OnceInv'
  <2>1. target[p] \in Approvals /\ Approver(p) /\ pc[p] = "claim"
    BY <1>8 DEF Claim, Eligible, IInv, RequestsWellFormed, OnceInv
  <2>2. /\ attempts' = [attempts EXCEPT ![target[p]] = @ + 1] /\ UNCHANGED target
        /\ state' = [state EXCEPT ![target[p]] = "RESUMING"]
        /\ pc' = [pc EXCEPT ![p] = "claimed"]
    BY <1>8 DEF Claim
  <2>3. \A a \in Approvals : attempts'[a] <= 1
    BY <2>1, <2>2, <1>t DEF OnceInv, Approver, TypeOK
  <2>4. ASSUME NEW q \in Procs, pc'[q] = "claim" PROVE Approver(q)'
    <3>1. q # p /\ pc[q] = "claim" /\ target[q] \in Approvals
      BY <2>2, <2>4, <1>t DEF TypeOK, IInv, RequestsWellFormed
    <3>2. Approver(q) /\ target[q] # target[p]
      BY <2>1, <3>1 DEF OnceInv, Approver
    <3>3. \A r \in Procs : pc'[r] = "claim" => pc[r] = "claim"
      BY <2>2, <1>t DEF TypeOK
    <3>4. QED
      BY <2>1, <2>2, <3>1, <3>2, <3>3, <1>t DEF Approver, TypeOK
  <2>5. QED
    BY <2>3, <2>4 DEF OnceInv
<1>9. CASE Crash
  <2>1. /\ UNCHANGED <<state, attempts>> /\ \A q \in Procs : pc'[q] # "claim"
    BY <1>9 DEF Crash, rowVars
  <2>2. QED
    BY <2>1, OnceKept
<1>10. ASSUME NEW loaded \in BOOLEAN, Startup(loaded)
       PROVE  OnceInv'
  <2>1. /\ UNCHANGED <<attempts, pc, target>>
        /\ \A a \in Approvals : state'[a] = state[a] \/ state'[a] \in {"APPROVED", "FAILED"}
    BY <1>10 DEF Startup, MoveAll, ReconcileTo, procVars
  <2>2. QED
    BY <2>1, OnceKept
<1>11. QED
  BY <1>1, <1>2, <1>3, <1>5, <1>6, <1>7, <1>8, <1>9, <1>10 DEF Next, Decide, Resume

(* APR-011, "MUST NOT resume twice": with decisions as the only callers of    *)
(* resume_approved no approval is claimed again, whatever keys are replayed   *)
(* and however often the process crashes.                                   *)
THEOREM ClaimedOnce == Spec => []ResumedOnce
<1>1. CASE Workers = {}
  <2>1. Init => OnceInv
    BY DEF Init, OnceInv
  <2>2. IInv /\ [Next]_vars /\ OnceInv => OnceInv'
    BY <1>1, OnceStep
  <2>3. OnceInv => ResumedOnce
    BY DEF OnceInv, ResumedOnce
  <2>4. QED
    BY <2>1, <2>2, <2>3, IInvInvariant, PTL DEF Spec
<1>2. CASE Workers # {}
  <2>1. ResumedOnce
    BY <1>2 DEF ResumedOnce
  <2>2. QED
    BY <2>1, PTL
<1>3. QED
  BY <1>1, <1>2

------------------------------------------------------------------------------
(* The audit trail *)

(* The entries of a trail that record a claim.                               *)
ClaimEntries(trail) == {i \in 1..Len(trail) : trail[i].to = "RESUMING"}

(* AuditReplaysToRow of one trail: it leads to state s over n claims.         *)
Replays(trail, s, n) ==
    /\ trail = <<>> <=> s = "NONE"
    /\ trail # <<>> => trail[1].from = "NONE" /\ trail[Len(trail)].to = s
    /\ \A i \in 1..(Len(trail) - 1) : trail[i].to = trail[i + 1].from
    /\ Cardinality(ClaimEntries(trail)) = n

LEMMA ClaimEntriesFinite ==
    ASSUME NEW trail \in Seq(AuditEvent)
    PROVE  IsFiniteSet(ClaimEntries(trail)) /\ Cardinality(ClaimEntries(trail)) \in Nat
<1>1. IsFiniteSet(1..Len(trail))
  BY FS_Interval
<1>2. ClaimEntries(trail) \in SUBSET (1..Len(trail))
  BY DEF ClaimEntries
<1>3. IsFiniteSet(ClaimEntries(trail))
  BY <1>1, <1>2, FS_Subset
<1>4. QED
  BY <1>3, FS_CardinalityType

(* What an entry from the trail's end adds to it.                            *)
LEMMA EntryReplays ==
    ASSUME NEW trail \in Seq(AuditEvent), NEW s \in RowStates, NEW to \in RowStates \ {"NONE"},
           NEW n, Replays(trail, s, n)
    PROVE  Replays(Append(trail, [from |-> s, to |-> to]), to, IF to = "RESUMING" THEN n + 1 ELSE n)
<1> DEFINE e == [from |-> s, to |-> to]
           longer == Append(trail, e)
           k == Len(trail)
<1>1. /\ k \in Nat /\ Len(longer) = k + 1 /\ longer # <<>> /\ longer[k + 1] = e
      /\ \A i \in 1..k : longer[i] = trail[i]
      /\ e.from = s /\ e.to = to
  BY DEF AuditEvent
<1>c. Cardinality(ClaimEntries(longer)) = IF to = "RESUMING" THEN n + 1 ELSE n
  <2>1. ClaimEntries(longer) = ClaimEntries(trail) \cup (IF to = "RESUMING" THEN {k + 1} ELSE {})
    BY <1>1 DEF ClaimEntries
  <2>2. k + 1 \notin ClaimEntries(trail)
    BY <1>1 DEF ClaimEntries
  <2>3. CASE to = "RESUMING"
    <3> DEFINE old == ClaimEntries(trail)
    <3>1. IsFiniteSet(old) /\ Cardinality(old) = n
      BY ClaimEntriesFinite DEF Replays
    <3>2. ClaimEntries(longer) = old \cup {k + 1}
      BY <2>1, <2>3
    <3> HIDE DEF old
    <3>3. Cardinality(old \cup {k + 1}) = Cardinality(old) + 1
      <4>1. k + 1 \notin old
        BY <2>2 DEF old
      <4>2. QED
        BY <3>1, <4>1, FS_AddElement
    <3>4. QED
      BY <2>3, <3>1, <3>2, <3>3
  <2>4. CASE to # "RESUMING"
    BY <2>1, <2>4 DEF Replays
  <2>5. QED
    BY <2>3, <2>4
<1>2. CASE trail = <<>>
  <2>1. s = "NONE" /\ k = 0
    BY <1>2 DEF Replays
  <2>2. longer[1].from = "NONE" /\ longer[Len(longer)].to = to
    BY <1>1, <2>1
  <2>3. \A i \in 1..(Len(longer) - 1) : longer[i].to = longer[i + 1].from
    BY <1>1, <2>1
  <2>4. QED
    BY <1>1, <1>c, <2>2, <2>3 DEF Replays
<1>3. CASE trail # <<>>
  <2>1. k >= 1 /\ trail[1].from = "NONE" /\ trail[k].to = s
    BY <1>1, <1>3 DEF Replays
  <2>2. longer[1].from = "NONE" /\ longer[Len(longer)].to = to
    BY <1>1, <2>1
  <2>3. ASSUME NEW i \in 1..(Len(longer) - 1) PROVE longer[i].to = longer[i + 1].from
    <3>1. CASE i = k
      BY <1>1, <2>1, <3>1
    <3>2. CASE i # k
      <4>1. i \in 1..(k - 1) /\ i \in 1..k /\ i + 1 \in 1..k
        BY <1>1, <3>2
      <4>2. trail[i].to = trail[i + 1].from
        BY <4>1 DEF Replays
      <4>3. QED
        BY <1>1, <4>1, <4>2
    <3>3. QED
      BY <3>1, <3>2
  <2>4. QED
    BY <1>1, <1>c, <2>2, <2>3 DEF Replays
<1>4. QED
  BY <1>2, <1>3

Replaying == \A a \in Approvals : Replays(audit[a], state[a], attempts[a])

(* One transaction moves a row and records it, or leaves both.                *)
Recorded(a) ==
    \/ audit'[a] = audit[a] /\ state'[a] = state[a] /\ attempts'[a] = attempts[a]
    \/ /\ state'[a] \in RowStates \ {"NONE", state[a]}
       /\ audit'[a] = Append(audit[a], [from |-> state[a], to |-> state'[a]])
       /\ attempts'[a] = IF state'[a] = "RESUMING" THEN attempts[a] + 1 ELSE attempts[a]

LEMMA MoveRecords ==
    ASSUME TypeOK, NEW a \in Approvals, NEW to \in RowStates \ {"NONE", "RESUMING"},
           state[a] # to, Move(a, to), UNCHANGED attempts
    PROVE  \A b \in Approvals : Recorded(b)
BY DEF TypeOK, Move, Recorded

LEMMA SweepRecords ==
    ASSUME SweepExpired, UNCHANGED attempts
    PROVE  \A b \in Approvals : Recorded(b)
BY DEF SweepExpired, Elapsed, MoveAll, Recorded, RowStates, ApprovalStates

LEMMA RecordedStep == IInv /\ [Next]_vars => \A a \in Approvals : Recorded(a)
<1> SUFFICES ASSUME IInv, [Next]_vars PROVE \A a \in Approvals : Recorded(a)
  OBVIOUS
<1>t. TypeOK
  BY DEF IInv
<1>s. {"PENDING", "APPROVED", "DENIED", "EXPIRED", "COMPLETED"} \subseteq RowStates \ {"NONE", "RESUMING"}
  BY DEF RowStates, ApprovalStates
<1>1. ASSUME NEW a \in Approvals, NEW who \in Creators, CreateApproval(a, who)
      PROVE  \A b \in Approvals : Recorded(b)
  BY <1>1, <1>s, <1>t, MoveRecords DEF CreateApproval
<1>2. ASSUME \/ \E a \in Approvals : TTLElapses(a) \/ PayloadAltered(a)
             \/ Crash
             \/ UNCHANGED vars
             \/ \E h \in Handlers, expired \in BOOLEAN : DecideWithoutEffect(h, expired)
             \/ \E w \in Workers, a \in Approvals : StartResume(w, a)
             \/ \E p \in Procs : ClaimNotEligible(p) \/ CallUpstream(p) \/ UpstreamFails(p)
      PROVE  \A b \in Approvals : Recorded(b)
  <2>1. UNCHANGED <<state, attempts, audit>>
    BY <1>2 DEF TTLElapses, PayloadAltered, Crash, vars, DecideWithoutEffect, StartResume,
                ClaimNotEligible, CallUpstream, UpstreamFails, rowVars, logVars
  <2>2. QED
    BY <2>1 DEF Recorded
<1>3. ASSUME Poll \/ \E h \in Handlers, a \in Approvals, f \in Form : ReceiveDecision(h, a, f)
      PROVE  \A b \in Approvals : Recorded(b)
  BY <1>3, SweepRecords DEF Poll, ReceiveDecision
<1>4. ASSUME NEW h \in Handlers, NEW expired \in BOOLEAN,
             DecideDeny(h, expired) \/ DecideApprove(h, expired)
      PROVE  \A b \in Approvals : Recorded(b)
  <2>1. target[h] \in Approvals /\ state[target[h]] = "PENDING"
    BY <1>4 DEF DecideDeny, DecideApprove, Applies, IInv, RequestsWellFormed, Procs
  <2>2. UNCHANGED attempts /\ \E to \in {"DENIED", "APPROVED"} : Move(target[h], to)
    BY <1>4 DEF DecideDeny, DecideApprove
  <2>3. QED
    BY <2>1, <2>2, <1>s, <1>t, MoveRecords
<1>5. ASSUME NEW p \in Procs,
             ClaimExpires(p) \/ ArgumentsChanged(p) \/ OutputGuardDenies(p) \/ Complete(p)
      PROVE  \A b \in Approvals : Recorded(b)
  <2>1. target[p] \in Approvals /\ state[target[p]] \in {"APPROVED", "RESUMING"}
    BY <1>5 DEF ClaimExpires, Eligible, ArgumentsChanged, OutputGuardDenies, Complete,
                IInv, RequestsWellFormed, ClaimIsExclusive, Holds
  <2>2. UNCHANGED attempts /\ \E to \in {"EXPIRED", "DENIED", "COMPLETED"} : Move(target[p], to)
    BY <1>5 DEF ClaimExpires, ArgumentsChanged, OutputGuardDenies, SystemDeny, Complete
  <2>3. QED
    BY <2>1, <2>2, <1>s, <1>t, MoveRecords
<1>6. ASSUME NEW p \in Procs, Claim(p)
      PROVE  \A b \in Approvals : Recorded(b)
  <2>1. target[p] \in Approvals /\ state[target[p]] = "APPROVED"
    BY <1>6 DEF Claim, Eligible, IInv, RequestsWellFormed
  <2>2. QED
    BY <1>6, <2>1, <1>t DEF Claim, Recorded, TypeOK, RowStates, ApprovalStates
<1>7. ASSUME NEW loaded \in BOOLEAN, Startup(loaded)
      PROVE  \A b \in Approvals : Recorded(b)
  BY <1>7 DEF Startup, MoveAll, ReconcileTo, Recorded, RowStates, ApprovalStates
<1>8. QED
  BY <1>1, <1>2, <1>3, <1>4, <1>5, <1>6, <1>7 DEF Next, Decide, Resume

(* APR-015: whichever path moves a row, its audit events replay to it, one   *)
(* RESUMING among them for each counted attempt.                             *)
THEOREM AuditReplays == Spec => []AuditReplaysToRow
<1>1. Init => Replaying
  <2> SUFFICES ASSUME Init, NEW a \in Approvals PROVE Replays(audit[a], state[a], attempts[a])
    BY DEF Replaying
  <2>1. audit[a] = <<>> /\ state[a] = "NONE" /\ attempts[a] = 0
    BY DEF Init
  <2>2. ClaimEntries(<<>>) = {}
    BY DEF ClaimEntries
  <2>3. QED
    BY <2>1, <2>2, FS_EmptySet DEF Replays
<1>2. IInv /\ [Next]_vars /\ Replaying => Replaying'
  <2> SUFFICES ASSUME IInv, [Next]_vars, Replaying, NEW a \in Approvals
               PROVE  Replays(audit'[a], state'[a], attempts'[a])
    BY DEF Replaying
  <2>1. Recorded(a) /\ Replays(audit[a], state[a], attempts[a])
    BY RecordedStep DEF Replaying
  <2>2. audit[a] \in Seq(AuditEvent) /\ state[a] \in RowStates
    BY DEF IInv, TypeOK
  <2>3. CASE audit'[a] = audit[a] /\ state'[a] = state[a] /\ attempts'[a] = attempts[a]
    BY <2>1, <2>3
  <2>4. CASE ~(audit'[a] = audit[a] /\ state'[a] = state[a] /\ attempts'[a] = attempts[a])
    BY <2>1, <2>2, <2>4, EntryReplays DEF Recorded
  <2>5. QED
    BY <2>3, <2>4
<1>3. Replaying => AuditReplaysToRow
  BY DEF Replaying, Replays, ClaimEntries, AuditReplaysToRow
<1>4. QED
  BY <1>1, <1>2, <1>3, IInvInvariant, PTL DEF Spec

------------------------------------------------------------------------------
(* How long a trail can get.  A row's state and its attempts say how often   *)
(* it has moved; only where it expired are there two possibilities.          *)

Fits(s, moves, n) ==
    /\ s = "NONE" => moves = 0
    /\ s = "PENDING" => moves = 1
    /\ s = "RESUMING" => moves = 2 * n + 1
    /\ s = "EXPIRED" => \/ moves = 2 * n + 2
                        \/ moves = 2 * n + 3 /\ n < MaxResumeAttempts
    /\ s \notin {"NONE", "PENDING", "RESUMING", "EXPIRED"} => moves = 2 * n + 2

TrailsFit == \A a \in Approvals : Fits(state[a], Len(audit[a]), attempts[a])

LEMMA FitsNext ==
    ASSUME NEW s, NEW t, <<s, t>> \in Drawn, NEW moves \in Nat, NEW n \in Nat,
           s \in {"NONE", "PENDING"} => n = 0, s = "APPROVED" => n < MaxResumeAttempts,
           Fits(s, moves, n)
    PROVE  Fits(t, moves + 1, IF t = "RESUMING" THEN n + 1 ELSE n)
<1>1. CASE s = "NONE" /\ t = "PENDING"
  BY <1>1 DEF Fits
<1>2. CASE s = "PENDING" /\ t \in {"APPROVED", "DENIED", "EXPIRED", "CANCELLED"}
  BY <1>2 DEF Fits
<1>3. CASE s = "APPROVED" /\ t = "RESUMING"
  BY <1>3 DEF Fits
<1>4. CASE s = "APPROVED" /\ t = "EXPIRED"
  BY <1>4 DEF Fits
<1>5. CASE s = "RESUMING" /\ t \in {"COMPLETED", "DENIED", "APPROVED", "FAILED"}
  BY <1>5 DEF Fits
<1>6. QED
  BY <1>1, <1>2, <1>3, <1>4, <1>5 DEF Drawn, AllowedTransitions

LEMMA FitsBound ==
    ASSUME NEW s, NEW moves \in Nat, NEW n \in Nat, n <= MaxResumeAttempts, Fits(s, moves, n)
    PROVE  moves <= 2 * MaxResumeAttempts + 2
<1>1. PICK k \in Nat \ {0} : k = MaxResumeAttempts
  BY MaxResumeAttemptsAssumption
<1>2. \/ moves <= 2 * n + 2
      \/ moves = 2 * n + 3 /\ n < k
  BY <1>1 DEF Fits
<1>3. QED
  BY <1>1, <1>2

LEMMA TrailsFitKept == IInv /\ TrailsFit /\ [Next]_vars => TrailsFit'
<1> SUFFICES ASSUME IInv, TrailsFit, [Next]_vars, NEW a \in Approvals
             PROVE  Fits(state'[a], Len(audit'[a]), attempts'[a])
  BY DEF TrailsFit, Fits
<1>1. Fits(state[a], Len(audit[a]), attempts[a]) /\ Recorded(a) /\ Edge(a)
  BY RecordedStep, DrawnStep DEF TrailsFit
<1>2. audit[a] \in Seq(AuditEvent) /\ attempts[a] \in Nat /\ Len(audit[a]) \in Nat
  BY DEF IInv, TypeOK
<1>3. CASE audit'[a] = audit[a] /\ state'[a] = state[a] /\ attempts'[a] = attempts[a]
  BY <1>1, <1>3
<1>4. CASE /\ state'[a] # state[a]
           /\ audit'[a] = Append(audit[a], [from |-> state[a], to |-> state'[a]])
           /\ attempts'[a] = IF state'[a] = "RESUMING" THEN attempts[a] + 1 ELSE attempts[a]
  <2>1. Len(audit'[a]) = Len(audit[a]) + 1
    <3>1. [from |-> state[a], to |-> state'[a]] \in AuditEvent
      BY <1>1, <1>4 DEF Recorded, IInv, TypeOK, AuditEvent
    <3>2. QED
      BY <1>2, <1>4, <3>1
  <2>2. <<state[a], state'[a]>> \in Drawn
    BY <1>1, <1>4 DEF Edge
  <2>3. /\ state[a] \in {"NONE", "PENDING"} => attempts[a] = 0
        /\ state[a] = "APPROVED" => attempts[a] < MaxResumeAttempts
    BY DEF IInv, AttemptsInStep
  <2>4. QED
    BY <1>1, <1>2, <1>4, <2>1, <2>2, <2>3, FitsNext
<1>5. QED
  BY <1>1, <1>3, <1>4 DEF Recorded

(* An approval comes to rest: it moves, and app/approvals.py writes an audit *)
(* event for it, at most twice for each attempt it may make and twice more,  *)
(* over any number of polls, decisions, failures, crashes and restarts.      *)
THEOREM TrailsAreBounded ==
    Spec => [](\A a \in Approvals : Len(audit[a]) <= 2 * MaxResumeAttempts + 2)
<1>1. Init => TrailsFit
  BY DEF Init, TrailsFit, Fits
<1>2. Spec => [](IInv /\ TrailsFit)
  BY <1>1, TrailsFitKept, IInvInvariant, PTL DEF Spec
<1>3. IInv /\ TrailsFit => \A a \in Approvals : Len(audit[a]) <= 2 * MaxResumeAttempts + 2
  <2> SUFFICES ASSUME IInv, TrailsFit, NEW a \in Approvals
               PROVE  Len(audit[a]) <= 2 * MaxResumeAttempts + 2
    OBVIOUS
  <2>1. attempts[a] \in Nat /\ attempts[a] <= MaxResumeAttempts /\ MaxResumeAttempts \in Nat
    BY MaxResumeAttemptsAssumption DEF IInv, TypeOK, CallsBounded
  <2>2. Fits(state[a], Len(audit[a]), attempts[a]) /\ Len(audit[a]) \in Nat
    BY DEF TrailsFit, IInv, TypeOK
  <2>3. QED
    BY <2>1, <2>2, FitsBound
<1>4. QED
  BY <1>2, <1>3, PTL

------------------------------------------------------------------------------
(* The approval engine implements the diagram of SPEC.md 9.2, for any sets   *)
(* of approvals and requests, any retry budget and any number of crashes.    *)

(* Who may call, read off the requests. *)
Due(a) == \E p \in Procs : pc[p] = "claimed" /\ target[p] = a

LEMMA PermittedSame ==
    ASSUME \A a \in Approvals : Due(a)' <=> Due(a)
    PROVE  Permitted' = Permitted
BY Zenon DEF Permitted, Due

(* A claim gives one approval the right to call, a call or a refusal takes   *)
(* it away.                                                                  *)
LEMMA PermittedGained ==
    ASSUME NEW a \in Approvals, Due(a)',
           \A b \in Approvals : b # a => (Due(b)' <=> Due(b))
    PROVE  Permitted' = [Permitted EXCEPT ![a] = TRUE]
<1>1. \A b \in Approvals : Permitted'[b] = [Permitted EXCEPT ![a] = TRUE][b]
  <2> TAKE b \in Approvals
  <2>1. CASE b = a
    BY <2>1, Zenon DEF Permitted, Due
  <2>2. CASE b # a
    BY <2>2, Zenon DEF Permitted, Due
  <2>3. QED
    BY <2>1, <2>2
<1>2. Permitted' = [b \in Approvals |-> Permitted'[b]]
  BY Zenon DEF Permitted
<1>3. [Permitted EXCEPT ![a] = TRUE] = [b \in Approvals |-> [Permitted EXCEPT ![a] = TRUE][b]]
  BY Zenon DEF Permitted
<1>4. QED
  BY <1>1, <1>2, <1>3

LEMMA PermittedLost ==
    ASSUME NEW a \in Approvals, ~Due(a)',
           \A b \in Approvals : b # a => (Due(b)' <=> Due(b))
    PROVE  Permitted' = [Permitted EXCEPT ![a] = FALSE]
<1>1. \A b \in Approvals : Permitted'[b] = [Permitted EXCEPT ![a] = FALSE][b]
  <2> TAKE b \in Approvals
  <2>1. CASE b = a
    BY <2>1, Zenon DEF Permitted, Due
  <2>2. CASE b # a
    BY <2>2, Zenon DEF Permitted, Due
  <2>3. QED
    BY <2>1, <2>2
<1>2. Permitted' = [b \in Approvals |-> Permitted'[b]]
  BY Zenon DEF Permitted
<1>3. [Permitted EXCEPT ![a] = FALSE] = [b \in Approvals |-> [Permitted EXCEPT ![a] = FALSE][b]]
  BY Zenon DEF Permitted
<1>4. QED
  BY <1>1, <1>2, <1>3

(* A request that was not about to call ends or moves on: nothing changes in *)
(* who may call.                                                             *)
LEMMA PermittedAside ==
    ASSUME TypeOK, NEW p \in Procs, pc[p] # "claimed", pc'[p] # "claimed",
           \A q \in Procs : q # p => pc'[q] = pc[q] /\ target'[q] = target[q]
    PROVE  Permitted' = Permitted
<1>1. \A a \in Approvals : Due(a)' <=> Due(a)
  BY DEF Due
<1>2. QED
  BY <1>1, PermittedSame

LEMMA FinishAside ==
    ASSUME TypeOK, NEW p \in Procs, pc[p] # "claimed", Finish(p)
    PROVE  Permitted' = Permitted
<1>1. pc'[p] = "idle" /\ \A q \in Procs : q # p => pc'[q] = pc[q] /\ target'[q] = target[q]
  BY DEF Finish, TypeOK
<1>2. QED
  BY <1>1, PermittedAside

LEMMA LifecycleInit == Init => L!LInit
<1> SUFFICES ASSUME Init PROVE L!LInit
  OBVIOUS
<1>1. \A a \in Approvals : ~Due(a)
  BY DEF Init, Due
<1>2. Permitted = [a \in Approvals |-> FALSE]
  BY <1>1, Zenon DEF Permitted, Due
<1>3. QED
  BY <1>2 DEF Init, L!LInit

LEMMA LifecycleStep == IInv /\ [Next]_vars => [L!LNext]_(L!lvars)
<1> SUFFICES ASSUME IInv, [Next]_vars PROVE [L!LNext]_(L!lvars)
  OBVIOUS
<1>t. TypeOK
  BY DEF IInv
<1>k. ASSUME UNCHANGED <<state, attempts, calls>>, Permitted' = Permitted
      PROVE  UNCHANGED L!lvars
  BY <1>k DEF L!lvars
<1>p. ASSUME UNCHANGED <<pc, target>> PROVE Permitted' = Permitted
  <2>1. \A a \in Approvals : Due(a)' <=> Due(a)
    BY <1>p DEF Due
  <2>2. QED
    BY <2>1, PermittedSame
<1>1. ASSUME NEW a \in Approvals, NEW who \in Creators, CreateApproval(a, who)
      PROVE  L!Submit(a)
  BY <1>1, <1>p DEF CreateApproval, Move, procVars, L!Submit, L!Goes
<1>2. ASSUME NEW a \in Approvals, TTLElapses(a) \/ PayloadAltered(a)
      PROVE  UNCHANGED L!lvars
  BY <1>2, <1>k, <1>p DEF TTLElapses, PayloadAltered, procVars
<1>3. ASSUME Poll
      PROVE  L!Expire(Elapsed)
  BY <1>3, <1>p DEF Poll, SweepExpired, MoveAll, Elapsed, procVars, L!Expire
<1>4. ASSUME NEW h \in Handlers, NEW a \in Approvals, NEW f \in Form,
             ReceiveDecision(h, a, f)
      PROVE  L!Expire(Elapsed)
  <2>1. /\ h \in Procs /\ pc[h] # "claimed" /\ pc'[h] # "claimed"
        /\ \A q \in Procs : q # h => pc'[q] = pc[q] /\ target'[q] = target[q]
    BY <1>4, <1>t DEF ReceiveDecision, Procs, TypeOK
  <2>2. Permitted' = Permitted
    BY <2>1, <1>t, PermittedAside
  <2>3. QED
    BY <1>4, <2>2 DEF ReceiveDecision, SweepExpired, MoveAll, Elapsed, L!Expire
<1>5. ASSUME NEW h \in Handlers, NEW expired \in BOOLEAN, DecideWithoutEffect(h, expired)
      PROVE  UNCHANGED L!lvars
  <2>1. Permitted' = Permitted
    BY <1>5, <1>t, FinishAside DEF DecideWithoutEffect, Procs
  <2>2. QED
    BY <1>5, <2>1, <1>k DEF DecideWithoutEffect, rowVars
<1>6. ASSUME NEW h \in Handlers, NEW expired \in BOOLEAN,
             DecideDeny(h, expired) \/ DecideApprove(h, expired)
      PROVE  L!Review(target[h])
  <2>1. h \in Procs /\ pc[h] = "decide"
    BY <1>6 DEF DecideDeny, DecideApprove, Procs
  <2>2. Permitted' = Permitted
    <3>1. CASE Finish(h)
      BY <3>1, <2>1, <1>t, FinishAside
    <3>2. CASE pc' = [pc EXCEPT ![h] = "claim"] /\ UNCHANGED target
      <4>1. pc'[h] # "claimed" /\ \A q \in Procs : q # h => pc'[q] = pc[q] /\ target'[q] = target[q]
        BY <3>2, <2>1, <1>t DEF TypeOK
      <4>2. QED
        BY <4>1, <2>1, <1>t, PermittedAside
    <3>3. QED
      BY <1>6, <3>1, <3>2 DEF DecideDeny, DecideApprove
  <2>3. PICK to \in {"APPROVED", "DENIED"} :
            state' = [state EXCEPT ![target[h]] = to] /\ state[target[h]] = "PENDING"
    BY <1>6 DEF DecideDeny, DecideApprove, Move, Applies
  <2>4. UNCHANGED <<attempts, calls>>
    BY <1>6 DEF DecideDeny, DecideApprove
  <2>5. QED
    BY <2>2, <2>3, <2>4 DEF L!Review, L!Goes
<1>7. ASSUME NEW w \in Workers, NEW a \in Approvals, StartResume(w, a)
      PROVE  UNCHANGED L!lvars
  <2>1. /\ w \in Procs /\ pc[w] # "claimed" /\ pc'[w] # "claimed"
        /\ \A q \in Procs : q # w => pc'[q] = pc[q] /\ target'[q] = target[q]
    BY <1>7, <1>t DEF StartResume, Procs, TypeOK
  <2>2. Permitted' = Permitted
    BY <2>1, <1>t, PermittedAside
  <2>3. QED
    BY <1>7, <2>2, <1>k DEF StartResume, rowVars
<1>8. ASSUME NEW p \in Procs, ClaimNotEligible(p) \/ UpstreamFails(p)
      PROVE  UNCHANGED L!lvars
  <2>1. Permitted' = Permitted
    BY <1>8, <1>t, FinishAside DEF ClaimNotEligible, UpstreamFails
  <2>2. QED
    BY <1>8, <2>1, <1>k DEF ClaimNotEligible, UpstreamFails, rowVars
<1>9. ASSUME NEW p \in Procs, ClaimExpires(p)
      PROVE  L!Expire({target[p]})
  <2>1. target[p] \in Approvals
    BY <1>9 DEF ClaimExpires, Eligible, IInv, RequestsWellFormed
  <2>2. Permitted' = Permitted
    BY <1>9, <1>t, FinishAside DEF ClaimExpires, Eligible
  <2>3. state' = [a \in Approvals |-> IF a \in {target[p]} THEN "EXPIRED" ELSE state[a]]
    BY <1>9, <2>1, <1>t DEF ClaimExpires, Eligible, Move, TypeOK
  <2>4. QED
    BY <1>9, <2>2, <2>3 DEF ClaimExpires, Eligible, L!Expire
<1>10. ASSUME NEW p \in Procs, Claim(p)
       PROVE  L!Claim(target[p])
  <2>1. PICK a \in Approvals : a = target[p]
    BY <1>10 DEF Claim, Eligible, IInv, RequestsWellFormed
  <2>2. attempts[a] < MaxResumeAttempts /\ state[a] = "APPROVED"
    BY <1>10, <2>1 DEF Claim, Eligible, IInv, AttemptsInStep
  <2>3. /\ pc'[p] = "claimed" /\ target' = target /\ pc[p] # "claimed"
        /\ \A q \in Procs : q # p => pc'[q] = pc[q]
    BY <1>10, <1>t DEF Claim, Eligible, TypeOK
  <2>4. Due(a)' /\ \A b \in Approvals : b # a => (Due(b)' <=> Due(b))
    BY <2>1, <2>3 DEF Due
  <2>5. Permitted' = [Permitted EXCEPT ![a] = TRUE]
    BY <2>4, PermittedGained
  <2>6. QED
    BY <1>10, <2>1, <2>2, <2>5 DEF Claim, Eligible, L!Claim, L!Goes
<1>11. ASSUME NEW p \in Procs, ArgumentsChanged(p) \/ OutputGuardDenies(p)
       PROVE  L!Refuse(target[p])
  <2>1. PICK a \in Approvals : a = target[p] /\ Holds(p, a) /\ state[a] = "RESUMING"
    BY <1>11 DEF ArgumentsChanged, OutputGuardDenies, IInv, RequestsWellFormed,
                 ClaimIsExclusive, Holds
  <2>2. SystemDeny(p)
    BY <1>11 DEF ArgumentsChanged, OutputGuardDenies
  <2>3. /\ pc'[p] = "idle"
        /\ \A q \in Procs : q # p => pc'[q] = pc[q] /\ target'[q] = target[q]
    BY <2>2, <1>t DEF SystemDeny, Finish, TypeOK
  <2>4. \A q \in Procs : Holds(q, a) => q = p
    BY <2>1 DEF IInv, ClaimIsExclusive
  <2>5. ~Due(a)'
    BY <2>3, <2>4 DEF Due, Holds
  <2>6. \A b \in Approvals : b # a => (Due(b)' <=> Due(b))
    BY <2>1, <2>3 DEF Due, Holds
  <2>7. Permitted' = [Permitted EXCEPT ![a] = FALSE]
    BY <2>5, <2>6, PermittedLost
  <2>8. QED
    BY <2>1, <2>2, <2>7 DEF SystemDeny, Move, L!Refuse, L!Goes
<1>12. ASSUME NEW p \in Procs, CallUpstream(p)
       PROVE  L!Call(target[p])
  <2>1. PICK a \in Approvals : a = target[p] /\ Holds(p, a)
    BY <1>12 DEF CallUpstream, IInv, RequestsWellFormed, Holds
  <2>2. /\ pc'[p] = "upstream" /\ target' = target
        /\ \A q \in Procs : q # p => pc'[q] = pc[q]
    BY <1>12, <1>t DEF CallUpstream, TypeOK
  <2>3. \A q \in Procs : Holds(q, a) => q = p
    BY <2>1 DEF IInv, ClaimIsExclusive
  <2>4. ~Due(a)' /\ \A b \in Approvals : b # a => (Due(b)' <=> Due(b))
    BY <2>1, <2>2, <2>3 DEF Due, Holds
  <2>5. Permitted' = [Permitted EXCEPT ![a] = FALSE]
    BY <2>4, PermittedLost
  <2>6. Permitted[a]
    BY <1>12, <2>1, Zenon DEF CallUpstream, Permitted
  <2>7. QED
    BY <1>12, <2>1, <2>5, <2>6 DEF CallUpstream, rowVars, L!Call
<1>13. ASSUME NEW p \in Procs, Complete(p)
       PROVE  L!Finish(target[p])
  <2>1. /\ target[p] \in Approvals /\ Holds(p, target[p])
        /\ state[target[p]] = "RESUMING" /\ calls[target[p]] > 0
    BY <1>13 DEF Complete, IInv, RequestsWellFormed, ClaimIsExclusive, Holds, AttemptsInStep
  <2>2. Permitted' = Permitted
    BY <1>13, <1>t, FinishAside DEF Complete
  <2>3. \A q \in Procs : Holds(q, target[p]) => q = p
    BY <2>1 DEF IInv, ClaimIsExclusive
  <2>4. ~Due(target[p])
    BY <1>13, <2>3 DEF Due, Holds, Complete
  <2>5. ~Permitted[target[p]]
    BY <2>1, <2>4, Zenon DEF Permitted, Due
  <2>6. QED
    BY <1>13, <2>1, <2>2, <2>5 DEF Complete, Move, L!Finish, L!Goes
<1>14. ASSUME Crash
       PROVE  L!Crash
  <2>1. \A a \in Approvals : ~Due(a)'
    BY <1>14 DEF Crash, Due
  <2>2. Permitted' = [a \in Approvals |-> FALSE]
    BY <2>1, Zenon DEF Permitted, Due
  <2>3. QED
    BY <1>14, <2>2 DEF Crash, rowVars, L!Crash
<1>15. ASSUME NEW loaded \in BOOLEAN, Startup(loaded)
       PROVE  L!Recover
  <2>1. \A a \in Approvals : ~Due(a)
    BY <1>15 DEF Startup, IInv, RequestsWellFormed, Due
  <2>2. \A a \in Approvals : ~Permitted[a]
    BY <2>1, Zenon DEF Permitted, Due
  <2>3. Permitted' = Permitted
    BY <1>15, <1>p DEF Startup, procVars
  <2>4. QED
    BY <1>15, <2>2, <2>3 DEF Startup, MoveAll, ReconcileTo, L!Recover
<1>16. ASSUME UNCHANGED vars
       PROVE  UNCHANGED L!lvars
  BY <1>16, <1>k, <1>p DEF vars, rowVars, procVars
<1>17. QED
  <2>1. \A h \in Handlers : target[h] \in Approvals \/ pc[h] # "decide"
    BY DEF IInv, RequestsWellFormed, Procs
  <2>2. \A p \in Procs : target[p] \in Approvals \/ pc[p] = "idle"
    BY DEF IInv, RequestsWellFormed
  <2>3. Elapsed \in SUBSET Approvals
    BY DEF Elapsed
  <2>4. QED
    BY <1>1, <1>2, <1>3, <1>4, <1>5, <1>6, <1>7, <1>8, <1>9, <1>10, <1>11, <1>12,
       <1>13, <1>14, <1>15, <1>16, <2>1, <2>2, <2>3
       DEF Next, Decide, Resume, L!LNext, DecideDeny, DecideApprove, ClaimExpires,
           Claim, ArgumentsChanged, OutputGuardDenies, CallUpstream, Complete

(* SPEC.md 9.2 and APR-011: every behaviour of the engine is a behaviour of  *)
(* the drawn lifecycle, where a claim is worth at most one upstream call and *)
(* only a call completes an approval.                                        *)
THEOREM EngineImplementsLifecycle == Spec => ImplementsLifecycle
<1>1. Spec => L!LInit /\ [][L!LNext]_(L!lvars)
  BY LifecycleInit, LifecycleStep, IInvInvariant, PTL DEF Spec
<1>2. QED
  BY <1>1 DEF ImplementsLifecycle, L!Lifecycle

------------------------------------------------------------------------------
(* Deadlines *)

(* Only what is past its deadline is EXPIRED, or looks late to a request;    *)
(* deadlines do not come back.                                               *)
DeadlinesPassed ==
    /\ \A a \in Approvals : state[a] = "EXPIRED" => elapsed[a]
    /\ \A p \in Procs : late[p] => target[p] \in Approvals /\ elapsed[target[p]]

(* What a step must not do lest a deadline come back.                        *)
LEMMA DeadlinesKept ==
    ASSUME DeadlinesPassed,
           \A a \in Approvals : elapsed[a] => elapsed'[a],
           \A a \in Approvals : state'[a] = "EXPIRED" => state[a] = "EXPIRED" \/ elapsed[a],
           \A p \in Procs :
               \/ ~late'[p]
               \/ late'[p] = late[p] /\ target'[p] = target[p]
               \/ target'[p] \in Approvals /\ elapsed[target'[p]]
    PROVE  DeadlinesPassed'
BY DEF DeadlinesPassed

LEMMA DeadlinesStep ==
    ASSUME IInv, DeadlinesPassed, [Next]_vars
    PROVE  DeadlinesPassed'
<1> USE DEF Procs
<1>t. TypeOK
  BY DEF IInv
<1>q. ASSUME UNCHANGED <<elapsed, late, target>>,
             \A a \in Approvals : state'[a] = "EXPIRED" => state[a] = "EXPIRED"
      PROVE  DeadlinesPassed'
  BY <1>q, DeadlinesKept
<1>f. ASSUME NEW p \in Procs, Finish(p), UNCHANGED elapsed,
             \A a \in Approvals : state'[a] = "EXPIRED" => state[a] = "EXPIRED" \/ elapsed[a]
      PROVE  DeadlinesPassed'
  <2>1. \A q \in Procs : ~late'[q] \/ (late'[q] = late[q] /\ target'[q] = target[q])
    BY <1>f, <1>t DEF Finish, TypeOK
  <2>2. QED
    BY <2>1, <1>f, DeadlinesKept
<1>1. ASSUME NEW a \in Approvals, NEW who \in Creators, CreateApproval(a, who)
      PROVE  DeadlinesPassed'
  BY <1>1, <1>q, <1>t DEF CreateApproval, Move, procVars, TypeOK
<1>2. ASSUME NEW a \in Approvals, TTLElapses(a) \/ PayloadAltered(a)
      PROVE  DeadlinesPassed'
  <2>1. /\ UNCHANGED <<state, late, target>>
        /\ \A b \in Approvals : elapsed[b] => elapsed'[b]
    BY <1>2, <1>t DEF TTLElapses, PayloadAltered, procVars, TypeOK
  <2>2. QED
    BY <2>1, DeadlinesKept
<1>3. CASE Poll
  <2>1. \A a \in Approvals : state'[a] = "EXPIRED" => state[a] = "EXPIRED" \/ elapsed[a]
    BY <1>3 DEF Poll, SweepExpired, MoveAll, Elapsed
  <2>2. UNCHANGED <<elapsed, late, target>>
    BY <1>3 DEF Poll, procVars
  <2>3. QED
    BY <2>1, <2>2, DeadlinesKept
<1>4. ASSUME NEW h \in Handlers, NEW a \in Approvals, NEW f \in Form, ReceiveDecision(h, a, f)
      PROVE  DeadlinesPassed'
  <2>1. \A b \in Approvals : state'[b] = "EXPIRED" => state[b] = "EXPIRED" \/ elapsed[b]
    BY <1>4 DEF ReceiveDecision, SweepExpired, MoveAll, Elapsed
  <2>2. /\ UNCHANGED elapsed
        /\ \A p \in Procs : \/ late'[p] = late[p] /\ target'[p] = target[p]
                            \/ ~late'[p]
                            \/ target'[p] \in Approvals /\ elapsed[target'[p]]
    BY <1>4, <1>t DEF ReceiveDecision, TypeOK
  <2>3. QED
    BY <2>1, <2>2, DeadlinesKept
<1>5. ASSUME NEW h \in Handlers, Decide(h)
      PROVE  DeadlinesPassed'
  <2>1. PICK expired \in BOOLEAN : \/ DecideWithoutEffect(h, expired)
                                  \/ DecideDeny(h, expired)
                                  \/ DecideApprove(h, expired)
    BY <1>5 DEF Decide
  <2>2. target[h] \in Approvals
    BY <2>1 DEF DecideWithoutEffect, DecideDeny, DecideApprove, IInv, RequestsWellFormed
  <2>3. CASE DecideWithoutEffect(h, expired) \/ DecideDeny(h, expired)
    <3>1. Finish(h) /\ UNCHANGED elapsed
      BY <2>3 DEF DecideWithoutEffect, DecideDeny, rowVars
    <3>2. \A a \in Approvals : state'[a] = "EXPIRED" => state[a] = "EXPIRED"
      BY <2>3, <1>t DEF DecideWithoutEffect, DecideDeny, Move, rowVars, TypeOK
    <3>3. QED
      BY <3>1, <3>2, <1>f
  <2>4. CASE DecideApprove(h, expired)
    <3>1. UNCHANGED elapsed /\ \A a \in Approvals : state'[a] = "EXPIRED" => state[a] = "EXPIRED"
      BY <2>4, <1>t DEF DecideApprove, Move, TypeOK
    <3>2. CASE Finish(h)
      BY <3>1, <3>2, <1>f
    <3>3. CASE late' = [late EXCEPT ![h] = elapsed[target[h]]] /\ UNCHANGED target
      <4>1. \A p \in Procs : \/ ~late'[p]
                             \/ late'[p] = late[p] /\ target'[p] = target[p]
                             \/ target'[p] \in Approvals /\ elapsed[target'[p]]
        BY <3>3, <2>2, <1>t DEF TypeOK
      <4>2. QED
        BY <3>1, <4>1, DeadlinesKept
    <3>4. QED
      BY <2>4, <3>2, <3>3 DEF DecideApprove
  <2>5. QED
    BY <2>1, <2>3, <2>4
<1>6. ASSUME NEW w \in Workers, NEW a \in Approvals, StartResume(w, a)
      PROVE  DeadlinesPassed'
  <2>1. /\ UNCHANGED <<state, elapsed>>
        /\ \A p \in Procs : \/ ~late'[p]
                            \/ late'[p] = late[p] /\ target'[p] = target[p]
                            \/ target'[p] \in Approvals /\ elapsed[target'[p]]
    BY <1>6, <1>t DEF StartResume, rowVars, TypeOK
  <2>2. QED
    BY <2>1, DeadlinesKept
<1>7. ASSUME NEW p \in Procs, Resume(p)
      PROVE  DeadlinesPassed'
  <2>1. target[p] \in Approvals
    BY <1>7 DEF Resume, ClaimNotEligible, ClaimExpires, Claim, ArgumentsChanged, CallUpstream,
                UpstreamFails, OutputGuardDenies, Complete, IInv, RequestsWellFormed
  <2>2. CASE ClaimExpires(p)
    <3>1. elapsed[target[p]]
      BY <2>2, <2>1 DEF ClaimExpires, ClockReadings, DeadlinesPassed
    <3>2. \A a \in Approvals : state'[a] = "EXPIRED" => state[a] = "EXPIRED" \/ elapsed[a]
      BY <2>2, <3>1, <1>t DEF ClaimExpires, Move, TypeOK
    <3>3. QED
      BY <2>2, <3>2, <1>f DEF ClaimExpires
  <2>3. CASE Claim(p)
    <3>1. /\ UNCHANGED <<elapsed, target>>
          /\ \A a \in Approvals : state'[a] = "EXPIRED" => state[a] = "EXPIRED"
          /\ \A q \in Procs : ~late'[q] \/ late'[q] = late[q]
      BY <2>3, <1>t DEF Claim, TypeOK
    <3>2. QED
      BY <3>1, DeadlinesKept
  <2>4. CASE CallUpstream(p)
    BY <2>4, <1>q DEF CallUpstream, rowVars
  <2>5. CASE \/ ClaimNotEligible(p) \/ UpstreamFails(p) \/ ArgumentsChanged(p)
             \/ OutputGuardDenies(p) \/ Complete(p)
    <3>1. Finish(p) /\ UNCHANGED elapsed
      BY <2>5 DEF ClaimNotEligible, UpstreamFails, ArgumentsChanged, OutputGuardDenies,
                  SystemDeny, Complete, rowVars
    <3>2. UNCHANGED state \/ \E to \in {"DENIED", "COMPLETED"} :
                                state' = [state EXCEPT ![target[p]] = to]
      BY <2>5 DEF ClaimNotEligible, UpstreamFails, ArgumentsChanged, OutputGuardDenies,
                  SystemDeny, Complete, Move, rowVars
    <3>3. \A a \in Approvals : state'[a] = "EXPIRED" => state[a] = "EXPIRED"
      BY <3>2, <1>t DEF TypeOK
    <3>4. QED
      BY <3>1, <3>3, <1>f
  <2>6. QED
    BY <1>7, <2>2, <2>3, <2>4, <2>5 DEF Resume
<1>8. CASE Crash
  <2>1. UNCHANGED <<state, elapsed>> /\ \A p \in Procs : ~late'[p]
    BY <1>8 DEF Crash, rowVars
  <2>2. QED
    BY <2>1, DeadlinesKept
<1>9. ASSUME NEW loaded \in BOOLEAN, Startup(loaded)
      PROVE  DeadlinesPassed'
  BY <1>9, <1>q DEF Startup, MoveAll, ReconcileTo, procVars
<1>10. CASE UNCHANGED vars
  BY <1>10, <1>q DEF vars, rowVars, procVars
<1>11. QED
  BY <1>1, <1>2, <1>3, <1>4, <1>5, <1>6, <1>7, <1>8, <1>9, <1>10 DEF Next

LEMMA DeadlinesInvariant == Spec => []DeadlinesPassed
<1>1. Init => DeadlinesPassed
  BY DEF Init, DeadlinesPassed
<1>2. IInv /\ DeadlinesPassed /\ [Next]_vars => DeadlinesPassed'
  BY DeadlinesStep
<1>3. QED
  BY <1>1, <1>2, IInvInvariant, PTL DEF Spec

------------------------------------------------------------------------------
(* The counters *)

(* Each step of the metered engine is a step of the engine.                  *)
LEMMA MNextIsNext == [MNext]_mvars => [Next]_vars
BY DEF MNext, MCreate, CreateFails, MPoll, SweepFails, MReceive, MDecide, MComplete, MResume,
       MCrash, MStartup, mvars, Next, Decide, Resume, Procs

Rows == {a \in Approvals : state[a] # "NONE"}

(* The counters are numbers, because only finitely many rows ever exist,     *)
(* however many ids the gateway may mint.                                    *)
CountersOK ==
    /\ reached \in [Counted -> Nat]
    /\ avoided \in Nat
    /\ IsFiniteSet(Rows)

(* A set of rows has a size.                                                 *)
LEMMA RowsHaveSizes ==
    ASSUME IsFiniteSet(Rows), NEW S \in SUBSET Rows
    PROVE  IsFiniteSet(S) /\ Cardinality(S) \in Nat
<1>1. IsFiniteSet(S)
  BY FS_Subset
<1>2. QED
  BY <1>1, FS_CardinalityType

LEMMA OneMoreRow ==
    ASSUME TypeOK, IsFiniteSet(Rows), NEW b \in Approvals, NEW to,
           state' = [state EXCEPT ![b] = to]
    PROVE  IsFiniteSet(Rows')
<1>1. IsFiniteSet(Rows \cup {b})
  BY FS_AddElement
<1>2. Rows' \in SUBSET (Rows \cup {b})
  BY DEF TypeOK, Rows
<1>3. QED
  BY <1>1, <1>2, FS_Subset

LEMMA NoMoreRows ==
    ASSUME IsFiniteSet(Rows), \A a \in Approvals : state[a] = "NONE" => state'[a] = "NONE"
    PROVE  IsFiniteSet(Rows')
<1>1. Rows' \in SUBSET Rows
  BY DEF Rows
<1>2. QED
  BY <1>1, FS_Subset

(* Who enters a state where one row moves, where none does, in a sweep.      *)
LEMMA EnteredByMove ==
    ASSUME TypeOK, NEW b \in Approvals, NEW to, state[b] # to,
           state' = [state EXCEPT ![b] = to], NEW s
    PROVE  Entered(s) = IF s = to THEN 1 ELSE 0
<1>1. CASE s = to
  <2>1. {a \in Approvals : state'[a] = s /\ state[a] # s} = {b}
    BY <1>1 DEF TypeOK
  <2>2. QED
    BY <1>1, <2>1, FS_Singleton DEF Entered
<1>2. CASE s # to
  <2>1. {a \in Approvals : state'[a] = s /\ state[a] # s} = {}
    BY <1>2 DEF TypeOK
  <2>2. QED
    BY <1>2, <2>1, FS_EmptySet DEF Entered
<1>3. QED
  BY <1>1, <1>2

LEMMA EnteredByNone ==
    ASSUME NEW s, \A a \in Approvals : state'[a] = s => state[a] = s
    PROVE  Entered(s) = 0
<1>1. {a \in Approvals : state'[a] = s /\ state[a] # s} = {}
  OBVIOUS
<1>2. QED
  BY <1>1, FS_EmptySet DEF Entered

Counts(s) == Added(s) = Entered(s)

(* One row moves to a state and is counted there.                            *)
LEMMA CountedMove ==
    ASSUME TypeOK, reached \in [Counted -> Nat], NEW b \in Approvals,
           NEW to \in Counted, state[b] # to,
           state' = [state EXCEPT ![b] = to], Count(to, 1)
    PROVE  reached' \in [Counted -> Nat] /\ \A s \in Counted : Counts(s)
<1>1. reached' \in [Counted -> Nat]
  BY DEF Count
<1>2. ASSUME NEW s \in Counted
      PROVE  Counts(s)
  <2>1. Entered(s) = IF s = to THEN 1 ELSE 0
    BY EnteredByMove
  <2>2. reached'[s] = IF s = to THEN reached[s] + 1 ELSE reached[s]
    BY DEF Count
  <2>3. reached[s] \in Nat
    OBVIOUS
  <2>4. QED
    BY <2>1, <2>2, <2>3 DEF Counts, Added
<1>3. QED
  BY <1>1, <1>2

(* A step that moves no row into s and leaves its counter alone.             *)
LEMMA NotCounted ==
    ASSUME reached \in [Counted -> Nat], NEW s \in Counted, reached'[s] = reached[s],
           \A a \in Approvals : state'[a] = s => state[a] = s
    PROVE  Counts(s)
<1>1. Entered(s) = 0
  BY EnteredByNone
<1>2. QED
  BY <1>1 DEF Counts, Added

(* What a step does to the counters: it keeps them numbers, and while the    *)
(* process runs it counts what it moves, or drifts as MovesAreCounted says.  *)
Metered ==
    /\ CountersOK'
    /\ up' => \A s \in (IF up THEN Counted ELSE {"FAILED"}) :
                 Counts(s) \/ CountedInVain(s) \/ ExpiredByClaim(s)

LEMMA MoveMetered ==
    ASSUME TypeOK, CountersOK, NEW b \in Approvals, NEW to \in Counted, state[b] # to,
           state' = [state EXCEPT ![b] = to], Count(to, 1), avoided' \in Nat
    PROVE  Metered
<1>1. "FAILED" \in Counted
  BY DEF Counted
<1>2. QED
  BY <1>1, CountedMove, OneMoreRow DEF CountersOK, Metered

(* No row moves into a counted state other than EXPIRED, and no counter but  *)
(* that state's changes.                                                     *)
LEMMA QuietMetered ==
    ASSUME CountersOK, reached' \in [Counted -> Nat], avoided' \in Nat,
           \A s \in Counted \ {"EXPIRED"} : reached'[s] = reached[s],
           \A a \in Approvals : state'[a] \in {state[a], "EXPIRED", "RESUMING"},
           \A a \in Approvals : state[a] = "NONE" => state'[a] = "NONE",
           Counts("EXPIRED") \/ CountedInVain("EXPIRED") \/ ExpiredByClaim("EXPIRED")
    PROVE  Metered
<1>1. ASSUME NEW s \in Counted \ {"EXPIRED"}
      PROVE  Counts(s)
  <2>1. \A a \in Approvals : state'[a] = s => state[a] = s
    BY DEF Counted
  <2>2. QED
    BY <2>1, NotCounted DEF CountersOK
<1>2. "FAILED" \in Counted
  BY DEF Counted
<1>3. QED
  BY <1>1, <1>2, NoMoreRows DEF CountersOK, Metered

(* Nothing is counted, and nothing moves but into RESUMING.                  *)
LEMMA NothingMetered ==
    ASSUME CountersOK, NoCount,
           \A a \in Approvals : state'[a] \in {state[a], "RESUMING"},
           \A a \in Approvals : state[a] = "NONE" => state'[a] = "NONE"
    PROVE  Metered
<1>1. "EXPIRED" \in Counted /\ reached' = reached
  BY DEF Counted, NoCount
<1>2. Counts("EXPIRED")
  BY <1>1, NotCounted DEF CountersOK
<1>3. QED
  BY <1>1, <1>2, QuietMetered DEF CountersOK, NoCount

(* Nothing moves, and EXPIRED is counted for so many rows past their         *)
(* deadline.                                                                 *)
LEMMA VainMetered ==
    ASSUME TypeOK, CountersOK, UNCHANGED state, NEW S \in SUBSET Past, NEW n \in 1..Cardinality(S),
           Count("EXPIRED", n), Avoid(n)
    PROVE  Metered
<1>1. IsFiniteSet(Past) /\ Cardinality(Past) \in Nat
  BY RowsHaveSizes DEF Past, Rows, CountersOK
<1>2. IsFiniteSet(S) /\ Cardinality(S) \in Nat /\ Cardinality(S) <= Cardinality(Past)
  BY <1>1, FS_Subset, FS_CardinalityType
<1>3. n \in Nat /\ n \in 1..Cardinality(Past)
  BY <1>1, <1>2
<1>4. /\ reached' \in [Counted -> Nat] /\ avoided' \in Nat
      /\ \A s \in Counted \ {"EXPIRED"} : reached'[s] = reached[s]
      /\ reached["EXPIRED"] \in Nat /\ reached'["EXPIRED"] = reached["EXPIRED"] + n
  BY <1>3 DEF Count, Avoid, CountersOK, Counted
<1>5. Added("EXPIRED") = n
  BY <1>3, <1>4 DEF Added
<1>6. CountedInVain("EXPIRED")
  BY <1>3, <1>5 DEF CountedInVain
<1>7. QED
  BY <1>4, <1>6, QuietMetered

LEMMA SweepMetered ==
    ASSUME TypeOK, CountersOK, SweepExpired, CountExpired
    PROVE  Metered
<1>1. Elapsed \in SUBSET Rows
  BY DEF Elapsed, Rows
<1>2. PICK n \in Nat : n = Cardinality(Elapsed)
  BY <1>1, RowsHaveSizes DEF CountersOK
<1>3. Count("EXPIRED", n) /\ Avoid(n)
  BY <1>2 DEF CountExpired
<1>4. /\ reached' \in [Counted -> Nat] /\ avoided' \in Nat
      /\ \A s \in Counted \ {"EXPIRED"} : reached'[s] = reached[s]
      /\ reached["EXPIRED"] \in Nat /\ reached'["EXPIRED"] = reached["EXPIRED"] + n
  BY <1>3 DEF Count, Avoid, CountersOK, Counted
<1>5. \A a \in Approvals : /\ state'[a] \in {state[a], "EXPIRED"}
                           /\ state[a] = "NONE" => state'[a] = "NONE"
  BY DEF SweepExpired, MoveAll, Elapsed
<1>6. {a \in Approvals : state'[a] = "EXPIRED" /\ state[a] # "EXPIRED"} = Elapsed
  BY DEF SweepExpired, MoveAll, Elapsed
<1>7. Counts("EXPIRED")
  <2>1. Entered("EXPIRED") = n
    BY <1>2, <1>6, Zenon DEF Entered
  <2>2. QED
    BY <2>1, <1>4 DEF Counts, Added
<1>8. QED
  BY <1>4, <1>5, <1>7, QuietMetered

LEMMA MeteredStep == IInv /\ DeadlinesPassed /\ CountersOK /\ [MNext]_mvars => Metered
<1> SUFFICES ASSUME IInv, DeadlinesPassed, CountersOK, [MNext]_mvars PROVE Metered
  OBVIOUS
<1>t. TypeOK /\ reached \in [Counted -> Nat] /\ avoided \in Nat
  BY DEF IInv, CountersOK
<1>1. ASSUME NEW a \in Approvals, NEW who \in Creators, MCreate(a, who)
      PROVE  Metered
  <2>1. state[a] = "NONE" /\ state' = [state EXCEPT ![a] = "PENDING"]
    BY <1>1 DEF MCreate, CreateApproval, Move
  <2>2. Count("PENDING", 1) /\ avoided' \in Nat
    BY <1>1, <1>t DEF MCreate
  <2>3. QED
    BY <2>1, <2>2, <1>t, MoveMetered DEF Counted
<1>2. ASSUME \/ UNCHANGED mvars
             \/ NoCount /\ \E a \in Approvals : TTLElapses(a) \/ PayloadAltered(a)
      PROVE  Metered
  <2>1. UNCHANGED state /\ NoCount
    BY <1>2 DEF mvars, vars, rowVars, TTLElapses, PayloadAltered, NoCount
  <2>2. QED
    BY <2>1, NothingMetered
<1>c. ASSUME NEW a \in Approvals, CreateFails(a)
      PROVE  Metered
  <2>1. Count("PENDING", 1) /\ UNCHANGED state /\ avoided' \in Nat
    BY <1>c, <1>t DEF CreateFails, vars, rowVars
  <2>2. /\ reached' \in [Counted -> Nat] /\ reached["PENDING"] \in Nat
        /\ reached'["PENDING"] = reached["PENDING"] + 1
        /\ \A s \in Counted \ {"PENDING"} : reached'[s] = reached[s]
    BY <2>1, <1>t DEF Count, Counted
  <2>3. CountedInVain("PENDING")
    BY <2>1, <2>2 DEF CountedInVain, Added
  <2>4. \A s \in Counted \ {"PENDING"} : Counts(s)
    BY <2>1, <2>2, <1>t, NotCounted
  <2>5. "FAILED" \in Counted
    BY DEF Counted
  <2>6. QED
    BY <2>1, <2>2, <2>3, <2>4, <2>5, NoMoreRows DEF CountersOK, Metered
<1>s. ASSUME SweepFails
      PROVE  Metered
  <2>1. PICK n \in 1..Cardinality(Elapsed) : Count("EXPIRED", n) /\ Avoid(n)
    BY <1>s DEF SweepFails
  <2>2. UNCHANGED state /\ Elapsed \in SUBSET Past
    BY <1>s DEF SweepFails, vars, rowVars, Elapsed, Past
  <2>3. QED
    BY <2>1, <2>2, <1>t, VainMetered
<1>3. ASSUME MPoll \/ \E h \in Handlers, a \in Approvals, f \in Form : MReceive(h, a, f)
      PROVE  Metered
  BY <1>3, <1>t, SweepMetered DEF MPoll, MReceive, Poll, ReceiveDecision
<1>4. ASSUME NEW h \in Handlers, NEW expired \in BOOLEAN, MDecide(h, expired)
      PROVE  Metered
  <2>1. CASE DecideWithoutEffect(h, expired)
    <3>1. UNCHANGED state
      BY <2>1 DEF DecideWithoutEffect, rowVars
    <3>2. CASE NoCount
      BY <3>1, <3>2, NothingMetered
    <3>3. CASE ~NoCount
      <4>1. AnswersExpired(form[h], target[h], expired) /\ Count("EXPIRED", 1) /\ Avoid(1)
        BY <2>1, <3>3, <1>4 DEF MDecide, DecideWithoutEffect, DecideDeny, DecideApprove
      <4>2. h \in Procs /\ target[h] \in Approvals
        BY <2>1 DEF DecideWithoutEffect, IInv, RequestsWellFormed, Procs
      <4>3. elapsed[target[h]]
        BY <2>1, <4>1, <4>2 DEF AnswersExpired, DecideWithoutEffect, ClockReadings, DeadlinesPassed
      <4>4. {target[h]} \in SUBSET Past
        BY <4>1, <4>2, <4>3 DEF Past, AnswersExpired
      <4>5. Cardinality({target[h]}) = 1
        BY FS_Singleton
      <4>6. 1 \in 1..Cardinality({target[h]})
        BY <4>5
      <4>7. QED
        BY <3>1, <4>1, <4>4, <4>6, <1>t, VainMetered
    <3>4. QED
      BY <3>2, <3>3
  <2>2. CASE /\ DecideDeny(h, expired) \/ DecideApprove(h, expired)
             /\ ~DecideWithoutEffect(h, expired)
    <3>1. target[h] \in Approvals /\ state[target[h]] = "PENDING"
      BY <2>2 DEF DecideDeny, DecideApprove, Applies, IInv, RequestsWellFormed, Procs
    <3>2. avoided' \in Nat /\ \E to \in {"DENIED", "APPROVED"} :
            state' = [state EXCEPT ![target[h]] = to] /\ Count(to, 1)
      BY <2>2, <1>4, <1>t DEF MDecide, DecideDeny, DecideApprove, Move, Avoid
    <3>3. QED
      BY <3>1, <3>2, <1>t, MoveMetered DEF Counted
  <2>3. QED
    BY <1>4, <2>1, <2>2 DEF MDecide
<1>5. ASSUME NEW h \in Handlers, NoCount,
             \/ ClaimNotEligible(h) \/ ClaimExpires(h) \/ Claim(h)
             \/ CallUpstream(h) \/ UpstreamFails(h)
      PROVE  Metered
  <2>1. CASE ClaimExpires(h)
    <3>1. /\ pc[h] = "claim" /\ target[h] \in Approvals /\ state[target[h]] = "APPROVED"
          /\ state' = [state EXCEPT ![target[h]] = "EXPIRED"]
      BY <2>1 DEF ClaimExpires, Eligible, Move, IInv, RequestsWellFormed, Procs
    <3>2. /\ reached' = reached /\ avoided' = avoided
          /\ reached["EXPIRED"] \in Nat
      BY <1>5, <1>t DEF NoCount, Counted
    <3>3. Added("EXPIRED") = 0
      BY <3>2 DEF Added
    <3>4. ExpiredByClaim("EXPIRED")
      BY <3>1, <3>3 DEF ExpiredByClaim
    <3>5. \A a \in Approvals : /\ state'[a] \in {state[a], "EXPIRED"}
                               /\ state[a] = "NONE" => state'[a] = "NONE"
      BY <3>1, <1>t DEF TypeOK
    <3>6. QED
      BY <3>2, <3>4, <3>5, <1>t, QuietMetered
  <2>2. CASE ~ClaimExpires(h)
    <3>1. \/ UNCHANGED state
          \/ target[h] \in Approvals /\ state[target[h]] = "APPROVED" /\
             state' = [state EXCEPT ![target[h]] = "RESUMING"]
      BY <2>2, <1>5 DEF ClaimNotEligible, Claim, CallUpstream, UpstreamFails, rowVars,
                        Eligible, IInv, RequestsWellFormed, Procs
    <3>2. QED
      BY <3>1, <1>5, <1>t, NothingMetered DEF TypeOK
  <2>3. QED
    BY <2>1, <2>2
<1>6. ASSUME NEW h \in Handlers,
             \/ ArgumentsChanged(h) /\ Count("DENIED", 1) /\ Avoid(1)
             \/ OutputGuardDenies(h) /\ Count("DENIED", 1) /\ UNCHANGED avoided
             \/ MComplete(h)
      PROVE  Metered
  <2>1. target[h] \in Approvals /\ state[target[h]] = "RESUMING"
    BY <1>6 DEF ArgumentsChanged, OutputGuardDenies, MComplete, Complete, IInv,
                RequestsWellFormed, ClaimIsExclusive, Holds, Procs
  <2>2. avoided' \in Nat /\ \E to \in {"DENIED", "COMPLETED"} :
          state' = [state EXCEPT ![target[h]] = to] /\ Count(to, 1)
    BY <1>6, <1>t DEF ArgumentsChanged, OutputGuardDenies, SystemDeny, MComplete, Complete,
                      Move, Avoid
  <2>3. QED
    BY <2>1, <2>2, <1>t, MoveMetered DEF Counted
<1>7. CASE MCrash
  <2>1. ~up' /\ UNCHANGED state
    BY <1>7 DEF MCrash, Crash, rowVars
  <2>2. reached' \in [Counted -> Nat] /\ avoided' \in Nat
    BY <1>7 DEF MCrash
  <2>3. QED
    BY <2>1, <2>2, NoMoreRows DEF Metered, CountersOK
<1>8. ASSUME NEW loaded \in BOOLEAN, MStartup(loaded)
      PROVE  Metered
  <2> DEFINE givenUp == {a \in Approvals : state[a] = "RESUMING" /\ attempts[a] >= MaxResumeAttempts}
  <2>1. ~up /\ MoveAll({a \in Approvals : state[a] = "RESUMING"}, ReconcileTo)
    BY <1>8 DEF MStartup, Startup
  <2>2. givenUp \in SUBSET Rows
    BY DEF Rows
  <2>3. PICK n \in Nat : n = Cardinality(givenUp)
    BY <2>2, RowsHaveSizes DEF CountersOK
  <2>4. Count("FAILED", n) /\ Avoid(n)
    BY <1>8, <2>3 DEF MStartup
  <2>5. /\ reached' \in [Counted -> Nat] /\ avoided' \in Nat
        /\ reached'["FAILED"] = reached["FAILED"] + n /\ reached["FAILED"] \in Nat
    BY <2>4, <1>t DEF Count, Avoid, Counted
  <2>6. {a \in Approvals : state'[a] = "FAILED" /\ state[a] # "FAILED"} = givenUp
    BY <2>1, <1>t, MaxResumeAttemptsAssumption DEF MoveAll, ReconcileTo, TypeOK
  <2>7. Counts("FAILED")
    <3>1. Entered("FAILED") = n
      BY <2>3, <2>6, Zenon DEF Entered
    <3>2. QED
      BY <3>1, <2>5 DEF Counts, Added
  <2>8. \A a \in Approvals : state[a] = "NONE" => state'[a] = "NONE"
    BY <2>1 DEF MoveAll
  <2>9. QED
    BY <2>1, <2>5, <2>7, <2>8, NoMoreRows DEF Metered, CountersOK
<1>9. QED
  BY <1>1, <1>2, <1>c, <1>s, <1>3, <1>4, <1>5, <1>6, <1>7, <1>8 DEF MNext, MResume

(* Counting changes nothing the engine does: each behaviour of the metered   *)
(* engine is one of the engine, and what is proved of the engine holds of it. *)
THEOREM MeteringIsPassive == MSpec => Spec
<1>1. MInit => Init
  BY DEF MInit
<1>2. QED
  BY <1>1, MNextIsNext, PTL DEF MSpec, Spec

LEMMA CountersInit == MInit => CountersOK
<1> SUFFICES ASSUME MInit PROVE CountersOK
  OBVIOUS
<1>1. Rows = {}
  BY DEF MInit, Init, Rows
<1>2. QED
  BY <1>1, FS_EmptySet DEF MInit, CountersOK

LEMMA CountersInvariant == MSpec => [](IInv /\ DeadlinesPassed /\ CountersOK)
<1>1. IInv /\ DeadlinesPassed /\ CountersOK /\ [MNext]_mvars => CountersOK'
  BY MeteredStep DEF Metered
<1>2. QED
  BY CountersInit, <1>1, MeteringIsPassive, IInvInvariant, DeadlinesInvariant, PTL DEF MSpec

(* approvals_total of app/metrics.py: while the process runs, each step adds *)
(* to a state's counter exactly the rows it moved there, for any number of   *)
(* rows, but for two kinds of drift: a commit that fails after its count and *)
(* an answer APPROVAL_EXPIRED count what does not move then, of EXPIRED no   *)
(* more than there are rows past their deadline, and a resume that finds its *)
(* approval expired counts nothing.  After a crash the startup counts the    *)
(* rows it gives up.                                                         *)
THEOREM MovesCounted == MSpec => MovesAreCounted
<1>1. IInv /\ DeadlinesPassed /\ CountersOK /\ [MNext]_mvars =>
        [up' => \A s \in (IF up THEN Counted ELSE {"FAILED"}) :
                   Added(s) = Entered(s) \/ CountedInVain(s) \/ ExpiredByClaim(s)]_mvars
  BY MeteredStep DEF Metered, Counts
<1>2. QED
  BY <1>1, CountersInvariant, PTL DEF MSpec, MovesAreCounted
==============================================================================
