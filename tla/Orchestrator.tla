---------------------------- MODULE Orchestrator ----------------------------
(***************************************************************************)
(* DetectorOrchestrator (app/orchestrator.py): the detectors of one plane's  *)
(* content run concurrently, each on a thread of the default pool           *)
(* (asyncio.to_thread) and each under its own deadline (asyncio.wait_for).  *)
(* A thread cannot be cancelled: when a deadline passes, the scan that runs *)
(* keeps its thread and its answer is dropped; one still queued is          *)
(* cancelled and skipped.  The inspections of all requests share the pool.  *)
(*                                                                         *)
(* Time is counted in ticks of an inspection's age.  The event loop and the *)
(* pool are prompt: what is due happens before the next tick.               *)
(***************************************************************************)
EXTENDS Integers, Sequences, FiniteSets

CONSTANTS
    Detectors,
    Runs,           \* calls of DetectorOrchestrator.run, of any requests
    Lists,          \* for a run, its list of applicable detectors
    Finds,          \* what a detector's scan returns for a run's content
    Fallible,       \* detectors whose scan may raise
    Lengths,        \* how many ticks a detector's scan may take
    Deadline,       \* detector_timeout_ms, in ticks
    Workers         \* threads of the default pool

Endless == -1       \* the length of a scan that never returns

ASSUME DetectorsAssumption ==
    /\ Lists \in [Runs -> Seq(Detectors)]
    /\ \A r \in Runs : \A i, j \in DOMAIN Lists[r] : Lists[r][i] = Lists[r][j] => i = j
    /\ Fallible \subseteq Detectors
    /\ DOMAIN Finds = Runs /\ \A r \in Runs : DOMAIN Finds[r] = Detectors
ASSUME TimesAssumption ==
    /\ Lengths \in [Detectors -> SUBSET (Nat \cup {Endless})]
    /\ Deadline \in Nat \ {0} /\ Workers \in Nat \ {0}
    /\ IsFiniteSet(Detectors) /\ IsFiniteSet(Runs)

Jobs == Runs \X Detectors

(* The detectors whose supported_planes hold the plane of the run's content. *)
Applicable == [r \in Runs |-> {Lists[r][i] : i \in DOMAIN Lists[r]}]

VARIABLES
    report,     \* for each run and detector, how its _run_one stands
    age,        \* ticks since the run's deadlines were set
    result,     \* empty until gather is through, then the OrchestratorResult
    queue,      \* the pool's queue of scans
    running,    \* the scans that hold a thread
    left,       \* ticks a scan that holds a thread still needs
    roomy       \* history: runs whose scans found a thread each when they began

vars == <<report, age, result, queue, running, left, roomy>>

Reports == {"none", "waiting", "ok", "timed_out", "error"}

Queued == {queue[i] : i \in DOMAIN queue}

Waiting(r) == {d \in Applicable[r] : report[r][d] = "waiting"}
With(r, how) == {d \in Applicable[r] : report[r][d] = how}

(* Fault: only a deadline counts as a failure (ImplementsInspection).        *)
GatheredByTimeouts(r) ==
    [found |-> UNION {Finds[r][d] : d \in With(r, "ok")},
     timeouts |-> With(r, "timed_out"),
     degraded |-> With(r, "timed_out") # {}]

(* OrchestratorResult: the reports' findings, DETECTOR_TIMEOUT findings as   *)
(* timeouts; degraded if a report is not ok.                                *)
Gathered(r) ==
    [found |-> UNION {Finds[r][d] : d \in With(r, "ok")},
     timeouts |-> With(r, "timed_out"),
     degraded |-> With(r, "timed_out") \cup With(r, "error") # {}]

Begun(r) == result[r] # <<>> \/ \E d \in Detectors : report[r][d] # "none"

I == INSTANCE Inspection WITH begun <- {r \in Runs : Begun(r)}, outcome <- result

TypeOK ==
    /\ report \in [Runs -> [Detectors -> Reports]]
    /\ age \in [Runs -> 0..Deadline]
    /\ \A r \in Runs : result[r] = <<>> \/ \E o \in I!Outcomes(r) : result[r] = <<o>>
    /\ queue \in Seq(Jobs)
    /\ running \subseteq Jobs /\ Cardinality(running) <= Workers
    /\ left \in [Jobs -> Nat \cup {Endless}]
    /\ roomy \subseteq Runs

Init ==
    /\ report = [r \in Runs |-> [d \in Detectors |-> "none"]]
    /\ age = [r \in Runs |-> 0]
    /\ result = [r \in Runs |-> <<>>]
    /\ queue = <<>>
    /\ running = {}
    /\ left = [j \in Jobs |-> 0]
    /\ roomy = {}

------------------------------------------------------------------------------
(* The event loop                                                           *)

(* gather starts every _run_one before any of them waits, and each of them   *)
(* submits its scan: the deadlines begin together.  Without an applicable    *)
(* detector the run is over at once.                                        *)
Run(r) ==
    /\ ~Begun(r)
    /\ IF Lists[r] = <<>>
       THEN /\ result' = [result EXCEPT ![r] = <<Gathered(r)>>]
            /\ UNCHANGED <<report, queue, roomy>>
       ELSE /\ report' = [report EXCEPT ![r] =
                   [d \in Detectors |-> IF d \in Applicable[r] THEN "waiting" ELSE "none"]]
            /\ queue' = queue \o [i \in DOMAIN Lists[r] |-> <<r, Lists[r][i]>>]
            /\ roomy' = IF Cardinality(running) + Len(queue) + Len(Lists[r]) <= Workers
                        THEN roomy \cup {r} ELSE roomy
            /\ UNCHANGED result
    /\ UNCHANGED <<age, running, left>>

(* Fault: no deadline (RunsEnd).                                             *)
TimeOutNever(r, d) == FALSE /\ UNCHANGED vars

(* Fault: the deadline is rounded down (RoomSuffices).                       *)
TimeOutEarly(r, d) ==
    /\ age[r] + 1 = Deadline /\ d \in Waiting(r)
    /\ report' = [report EXCEPT ![r][d] = "timed_out"]
    /\ UNCHANGED <<age, result, queue, running, left, roomy>>

(* wait_for gives up.  to_thread's future is cancelled, the thread is not.   *)
TimeOut(r, d) ==
    /\ age[r] = Deadline /\ d \in Waiting(r)
    /\ report' = [report EXCEPT ![r][d] = "timed_out"]
    /\ UNCHANGED <<age, result, queue, running, left, roomy>>

(* gather returns when every _run_one has.                                   *)
Gather(r) ==
    /\ Lists[r] # <<>> /\ Begun(r)
    /\ Waiting(r) = {} /\ result[r] = <<>>
    /\ result' = [result EXCEPT ![r] = <<Gathered(r)>>]
    /\ UNCHANGED <<report, age, queue, running, left, roomy>>

------------------------------------------------------------------------------
(* The thread pool                                                          *)

(* Fault: a thread for every scan (TypeOK).                                  *)
PickUpAtOnce ==
    /\ queue # <<>>
    /\ queue' = Tail(queue)
    /\ LET scan == Head(queue) IN
       IF scan[2] \in Waiting(scan[1])
       THEN /\ running' = running \cup {scan}
            /\ \E n \in Lengths[scan[2]] : left' = [left EXCEPT ![scan] = n]
       ELSE UNCHANGED <<running, left>>
    /\ UNCHANGED <<report, age, result, roomy>>

(* A free worker takes the queue's first scan, unless it was cancelled.      *)
PickUp ==
    /\ queue # <<>> /\ Cardinality(running) < Workers
    /\ queue' = Tail(queue)
    /\ LET scan == Head(queue) IN
       IF scan[2] \in Waiting(scan[1])
       THEN /\ running' = running \cup {scan}
            /\ \E n \in Lengths[scan[2]] : left' = [left EXCEPT ![scan] = n]
       ELSE UNCHANGED <<running, left>>
    /\ UNCHANGED <<report, age, result, roomy>>

(* A scan ends, by returning or by raising, and frees its thread.  Only a    *)
(* _run_one that still waits is told.                                       *)
ScanEnds(r, d) ==
    /\ <<r, d>> \in running /\ left[<<r, d>>] = 0
    /\ running' = running \ {<<r, d>>}
    /\ IF d \in Waiting(r)
       THEN \E how \in {"ok"} \cup (IF d \in Fallible THEN {"error"} ELSE {}) :
                report' = [report EXCEPT ![r][d] = how]
       ELSE UNCHANGED report
    /\ UNCHANGED <<age, result, queue, left, roomy>>

------------------------------------------------------------------------------
(* Time                                                                     *)

Due ==
    \/ queue # <<>> /\ Cardinality(running) < Workers
    \/ \E j \in running : left[j] = 0
    \/ \E r \in Runs : age[r] = Deadline /\ Waiting(r) # {}

Tick ==
    /\ ~Due
    /\ \/ \E r \in Runs : Waiting(r) # {}
       \/ \E j \in running : left[j] > 0
    /\ age' = [r \in Runs |-> IF Waiting(r) # {} THEN age[r] + 1 ELSE age[r]]
    /\ left' = [j \in Jobs |-> IF j \in running /\ left[j] > 0 THEN left[j] - 1 ELSE left[j]]
    /\ UNCHANGED <<report, result, queue, running, roomy>>

------------------------------------------------------------------------------
Progress ==
    \/ PickUp
    \/ Tick
    \/ \E r \in Runs : Gather(r) \/ \E d \in Detectors : TimeOut(r, d) \/ ScanEnds(r, d)

Next == Progress \/ \E r \in Runs : Run(r)

Spec == Init /\ [][Next]_vars

(* The loop and the pool go on, and so does time; nobody need ask for an     *)
(* inspection.                                                              *)
FairSpec == Spec /\ WF_vars(Progress)

------------------------------------------------------------------------------
Fast(d) == Lengths[d] \subseteq 0..(Deadline - 1)

(* One slow detector does not take the others down, as long as the pool has  *)
(* room: a detector that needs less than its deadline meets it in every run  *)
(* that found a thread for each of its scans, whatever the other scans do    *)
(* and whatever else is inspected meanwhile (DET-012 to DET-014).            *)
RoomSuffices ==
    \A r \in roomy : \A d \in Applicable[r] : Fast(d) => report[r][d] # "timed_out"

(* Every run of the orchestrator is an inspection: what is late, raised or   *)
(* cancelled is lost and nothing else, whatever order the threads, the       *)
(* deadlines and the gathering take.                                        *)
ImplementsInspection == I!InspectionSpec

(* An inspection ends even if none of its scans ever does.                   *)
RunsEnd == \A r \in Runs : Begun(r) ~> result[r] # <<>>
==============================================================================
