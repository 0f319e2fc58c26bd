--------------------------- MODULE ApprovalMetrics ---------------------------
(***************************************************************************)
(* The two counters the approval engine keeps in process memory beside the  *)
(* rows (app/metrics.py): approvals_total by state and the NEED_APPROVAL    *)
(* part of upstream_calls_avoided_total.  Each step of Approvals is taken   *)
(* together with the increments its code makes; a crash loses the counts.   *)
(* Only decide_and_resume counts the end of a resume, so Workers take no    *)
(* steps here.                                                              *)
(***************************************************************************)
EXTENDS Approvals, Integers

CONSTANT MaxCount       \* bound: no counted step begins above it

VARIABLES
    reached,    \* realguard_approvals_total{state}
    avoided     \* realguard_upstream_calls_avoided_total{NEED_APPROVAL}

mvars == <<vars, reached, avoided>>

Counted == {"PENDING", "APPROVED", "DENIED", "EXPIRED", "COMPLETED", "FAILED"}

MInit ==
    /\ Init
    /\ reached = [s \in Counted |-> 0]
    /\ avoided = 0

Count(s, n) == reached' = [reached EXCEPT ![s] = @ + n]
Avoid(n) == avoided' = avoided + n
NoCount == UNCHANGED <<reached, avoided>>

CountExpired == LET n == Cardinality(Elapsed) IN Count("EXPIRED", n) /\ Avoid(n)

(* The APPROVAL_EXPIRED answer of decide_approval, counted by its caller     *)
(* whether or not this call is what made the row EXPIRED.                    *)
AnswersExpired(f, a, expired) ==
    /\ \A d \in decisions : d.key # f.key
    /\ state[a] = "EXPIRED" \/ (state[a] = "PENDING" /\ expired)

MCreate(a, who) == CreateApproval(a, who) /\ Count("PENDING", 1) /\ UNCHANGED avoided

(* The count comes before the commit: a commit that fails has counted a row  *)
(* that does not exist.                                                      *)
CreateFails(a) ==
    /\ up /\ policy
    /\ state[a] = "NONE"
    /\ Count("PENDING", 1)
    /\ UNCHANGED <<vars, avoided>>

MPoll == Poll /\ CountExpired

(* So does a sweep, row by row, and it fails at one of them or at its commit. *)
SweepFails ==
    /\ up
    /\ \E n \in 1..Cardinality(Elapsed) : Count("EXPIRED", n) /\ Avoid(n)
    /\ UNCHANGED vars

MReceive(h, a, f) == ReceiveDecision(h, a, f) /\ CountExpired

(* Fault: a replayed answer is counted like an applied one                  *)
(* (MovesAreCounted).                                                        *)
MDecideReplayed(h, expired) ==
    \/ /\ DecideWithoutEffect(h, expired)
       /\ IF AnswersExpired(form[h], target[h], expired)
          THEN Count("EXPIRED", 1) /\ Avoid(1)
          ELSE /\ UNCHANGED avoided
               /\ IF /\ ClientRow(form[h], target[h]) \in decisions
                     /\ state[target[h]] \in Counted
                  THEN Count(state[target[h]], 1)
                  ELSE UNCHANGED reached
    \/ DecideDeny(h, expired) /\ Count("DENIED", 1) /\ Avoid(1)
    \/ DecideApprove(h, expired) /\ Count("APPROVED", 1) /\ UNCHANGED avoided

MDecide(h, expired) ==
    \/ /\ DecideWithoutEffect(h, expired)
       /\ IF AnswersExpired(form[h], target[h], expired)
          THEN Count("EXPIRED", 1) /\ Avoid(1)
          ELSE NoCount
    \/ DecideDeny(h, expired) /\ Count("DENIED", 1) /\ Avoid(1)
    \/ DecideApprove(h, expired) /\ Count("APPROVED", 1) /\ UNCHANGED avoided

MComplete(h) == Complete(h) /\ Count("COMPLETED", 1) /\ UNCHANGED avoided

MResume(h) ==
    \/ (ClaimNotEligible(h) \/ ClaimExpires(h) \/ Claim(h)) /\ NoCount
    \/ (CallUpstream(h) \/ UpstreamFails(h)) /\ NoCount
    \/ ArgumentsChanged(h) /\ Count("DENIED", 1) /\ Avoid(1)
    \/ OutputGuardDenies(h) /\ Count("DENIED", 1) /\ UNCHANGED avoided
    \/ MComplete(h)

MCrash ==
    /\ Crash
    /\ reached' = [s \in Counted |-> 0]
    /\ avoided' = 0

(* A startup whose commit fails has counted, too, but ends the process.      *)
MStartup(loaded) ==
    /\ Startup(loaded)
    /\ LET failed == Cardinality({a \in Approvals :
                        state[a] = "RESUMING" /\ attempts[a] >= MaxResumeAttempts})
       IN  Count("FAILED", failed) /\ Avoid(failed)

MNext ==
    \/ \E a \in Approvals, who \in Creators : MCreate(a, who)
    \/ \E a \in Approvals : (TTLElapses(a) \/ PayloadAltered(a)) /\ NoCount
    \/ \E a \in Approvals : reached["PENDING"] < MaxCount /\ CreateFails(a)
    \/ MPoll
    \/ reached["EXPIRED"] < MaxCount /\ SweepFails
    \/ \E h \in Handlers, a \in Approvals, f \in Form :
           reached["EXPIRED"] < MaxCount /\ MReceive(h, a, f)
    \/ \E h \in Handlers, expired \in BOOLEAN : MDecide(h, expired)
    \/ \E h \in Handlers : MResume(h)
    \/ MCrash
    \/ \E loaded \in BOOLEAN : MStartup(loaded)

MSpec == MInit /\ [][MNext]_mvars

------------------------------------------------------------------------------
Entered(s) == Cardinality({a \in Approvals : state'[a] = s /\ state[a] # s})

Added(s) == reached'[s] - reached[s]

(* What of EXPIRED and PENDING is counted and not reached: a row that could  *)
(* not be committed, rows whose sweep could not be, or an answer             *)
(* APPROVAL_EXPIRED given of a row that another step expires, before or      *)
(* after.                                                                    *)
Past == {a \in Approvals : state[a] # "NONE" /\ elapsed[a]}

CountedInVain(s) ==
    /\ UNCHANGED state
    /\ \/ s = "PENDING" /\ Added(s) = 1
       \/ s = "EXPIRED" /\ Added(s) \in 1..Cardinality(Past)

(* What is reached and not counted: a resume finds its approval expired.     *)
ExpiredByClaim(s) ==
    /\ s = "EXPIRED" /\ Added(s) = 0
    /\ \E h \in Handlers :
           pc[h] = "claim" /\ state' = [state EXCEPT ![target[h]] = "EXPIRED"]

(* approvals_total counts states reached: while the process runs, every      *)
(* step adds to a state's counter exactly the rows it moved there, whichever *)
(* of the handler, the resume or the startup code did it; only a             *)
(* reconciliation to APPROVED is no new one.  There are two kinds of drift   *)
(* and no other: CountedInVain, where nothing moved, of no more rows than    *)
(* are past their deadline, and ExpiredByClaim, of one row.                  *)
MovesAreCounted ==
    [][up' => \A s \in (IF up THEN Counted ELSE {"FAILED"}) :
           Added(s) = Entered(s) \/ CountedInVain(s) \/ ExpiredByClaim(s)]_mvars
==============================================================================
