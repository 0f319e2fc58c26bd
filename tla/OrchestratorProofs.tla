------------------------- MODULE OrchestratorProofs -------------------------
(***************************************************************************)
(* The orchestrator, for any detectors, lists, lengths of scans, deadline,    *)
(* number of threads and number of inspections.  The argument for the room:   *)
(* a scan of a run that found room is so near in the queue that every scan    *)
(* before it can run at once (RoomyIsNear); time does not pass while one is   *)
(* queued and a thread is free, so it starts at age zero (QueuedIsFresh) and, *)
(* if it is fast, ends before its deadline (FastIsTimely).                    *)
(***************************************************************************)
EXTENDS Orchestrator, FiniteSetTheorems, SequenceTheorems, TLAPS

(* What a run's result may be.                                              *)
ResultOK(r, x) == x = <<>> \/ \E o \in I!Outcomes(r) : x = <<o>>

TypesOK ==
    /\ report \in [Runs -> [Detectors -> Reports]]
    /\ age \in [Runs -> 0..Deadline]
    /\ DOMAIN result = Runs
    /\ \A r \in Runs : ResultOK(r, result[r])
    /\ queue \in Seq(Jobs)
    /\ running \subseteq Jobs /\ Cardinality(running) <= Workers
    /\ left \in [Jobs -> Nat \cup {Endless}]
    /\ roomy \subseteq Runs

Reported(r) == \E d \in Detectors : report[r][d] # "none"

(* A run's reports are begun together, and by all that can hold it up.       *)
AllReported ==
    /\ \A r \in Runs : \A d \in Detectors : report[r][d] # "none" <=> Reported(r) /\ d \in Applicable[r]
    /\ \A r \in roomy : Reported(r)
    /\ \A j \in running : Reported(j[1])

(* No time has passed for a run that is not begun.                          *)
AgeIsReported == \A r \in Runs : age[r] # 0 => Reported(r)

(* A report that is waited for has its scan in the queue or on a thread.     *)
WaitingIsHeld ==
    \A r \in Runs, d \in Detectors :
        report[r][d] = "waiting" => <<r, d>> \in running \/ \E k \in DOMAIN queue : queue[k] = <<r, d>>

(* Everything before a scan of a run with room, and it, fits the pool.        *)
RoomyIsNear ==
    \A k \in DOMAIN queue : queue[k][1] \in roomy => Cardinality(running) + k <= Workers

(* No time passes while such a scan is queued.                               *)
QueuedIsFresh ==
    \A k \in DOMAIN queue : queue[k][1] \in roomy => age[queue[k][1]] = 0

(* A fast one that holds a thread is through before its deadline.            *)
FastIsTimely ==
    \A r \in roomy, d \in Detectors :
        Fast(d) /\ report[r][d] = "waiting" /\ <<r, d>> \in running =>
            left[<<r, d>>] \in Nat /\ age[r] + left[<<r, d>>] < Deadline

OInv ==
    /\ TypesOK
    /\ AllReported
    /\ AgeIsReported
    /\ WaitingIsHeld
    /\ RoomyIsNear
    /\ QueuedIsFresh
    /\ FastIsTimely
    /\ RoomSuffices

------------------------------------------------------------------------------
LEMMA JobsFinite == IsFiniteSet(Jobs) /\ \A S \in SUBSET Jobs : IsFiniteSet(S) /\ Cardinality(S) \in Nat
<1>1. IsFiniteSet(Jobs)
  BY TimesAssumption, FS_Product DEF Jobs
<1> QED BY <1>1, FS_Subset, FS_CardinalityType

LEMMA ListsAreApplicable ==
    ASSUME NEW r \in Runs
    PROVE  /\ Lists[r] \in Seq(Detectors)
           /\ Len(Lists[r]) \in Nat /\ DOMAIN Lists[r] = 1..Len(Lists[r])
           /\ Applicable[r] \subseteq Detectors
           /\ \A d \in Applicable[r] : \E i \in 1..Len(Lists[r]) : Lists[r][i] = d
           /\ Lists[r] = <<>> <=> Applicable[r] = {}
<1>1. Lists[r] \in Seq(Detectors)
  BY DetectorsAssumption
<1>2. Applicable[r] = {Lists[r][i] : i \in DOMAIN Lists[r]}
  BY DEF Applicable
<1>3. Len(Lists[r]) \in Nat /\ DOMAIN Lists[r] = 1..Len(Lists[r])
  BY <1>1
<1>4. \A i \in 1..Len(Lists[r]) : Lists[r][i] \in Detectors
  BY <1>1
<1>5. Lists[r] # <<>> => 1 \in DOMAIN Lists[r]
  BY <1>1
<1>6. Lists[r] = <<>> => DOMAIN Lists[r] = {}
  BY <1>3
<1>7. Lists[r] = <<>> <=> Applicable[r] = {}
  BY <1>2, <1>5, <1>6
<1> HIDE DEF Applicable
<1>8. Applicable[r] \subseteq Detectors
  BY <1>2, <1>3, <1>4
<1>9. \A d \in Applicable[r] : \E i \in 1..Len(Lists[r]) : Lists[r][i] = d
  BY <1>2, <1>3
<1> QED BY <1>1, <1>3, <1>7, <1>8, <1>9

LEMMA InitOInv == Init => OInv
<1> SUFFICES ASSUME Init PROVE OInv
  OBVIOUS
<1>1. Cardinality({}) = 0
  BY FS_EmptySet
<1>2. TypesOK
  BY <1>1, TimesAssumption DEF Init, TypesOK, ResultOK, Reports, Endless
<1> QED BY <1>2 DEF Init, OInv, AllReported, Reported, AgeIsReported, WaitingIsHeld, RoomyIsNear,
                    QueuedIsFresh, FastIsTimely, RoomSuffices

------------------------------------------------------------------------------
(* gather's result is one an inspection may have.                            *)
LEMMA GatheredIsOutcome ==
    ASSUME TypesOK, AllReported, NEW r \in Runs, Waiting(r) = {}, Reported(r) \/ Lists[r] = <<>>
    PROVE  Gathered(r) \in I!Outcomes(r)
<1>1. With(r, "timed_out") \in SUBSET Applicable[r] /\ With(r, "error") \in SUBSET Applicable[r]
  BY DEF With
<1>2. With(r, "ok") = Applicable[r] \ (With(r, "timed_out") \cup With(r, "error"))
  <2>1. ASSUME NEW d \in Applicable[r] PROVE report[r][d] \in {"ok", "timed_out", "error"}
    <3>1. d \in Detectors /\ Reported(r)
      BY <2>1, ListsAreApplicable
    <3>2. report[r][d] \in Reports /\ report[r][d] # "none" /\ report[r][d] # "waiting"
      BY <3>1 DEF TypesOK, AllReported, Waiting
    <3> QED BY <3>2 DEF Reports
  <2> QED BY <2>1 DEF With
<1>3. Gathered(r) = I!Outcome(r, With(r, "timed_out"), With(r, "error"))
  BY <1>2 DEF Gathered, I!Outcome
<1> QED BY <1>1, <1>3 DEF I!Outcomes

(* A run is begun, and its scans are queued.                                 *)
LEMMA RunKeeps == ASSUME OInv, NEW r \in Runs, Run(r) PROVE OInv'
<1>1. /\ TypesOK /\ AllReported /\ AgeIsReported /\ WaitingIsHeld /\ RoomyIsNear
      /\ QueuedIsFresh /\ FastIsTimely /\ RoomSuffices
  BY DEF OInv
<1>2. UNCHANGED <<age, running, left>> /\ ~Begun(r) /\ ~Reported(r)
  BY DEF Run, Begun, Reported
<1>3. CASE Lists[r] = <<>>
  <2>1. result' = [result EXCEPT ![r] = <<Gathered(r)>>] /\ UNCHANGED <<report, queue, roomy>>
    BY <1>3 DEF Run
  <2>2. Applicable[r] = {} /\ Waiting(r) = {}
    BY <1>3, ListsAreApplicable DEF Waiting
  <2>3. Gathered(r) \in I!Outcomes(r)
    BY <1>1, <1>3, <2>2, GatheredIsOutcome
  <2>4. TypesOK'
    <3>1. ResultOK(r, <<Gathered(r)>>)
      BY <2>3 DEF ResultOK
    <3>2. DOMAIN result' = Runs /\ \A s \in Runs : ResultOK(s, result'[s])
      BY <1>1, <2>1, <3>1 DEF TypesOK
    <3> QED BY <1>1, <1>2, <2>1, <3>2 DEF TypesOK, ResultOK
  <2> QED BY <1>1, <1>2, <2>1, <2>4
          DEF OInv, AllReported, Reported, AgeIsReported, WaitingIsHeld, RoomyIsNear,
              QueuedIsFresh, FastIsTimely, RoomSuffices
<1>4. CASE Lists[r] # <<>>
  <2> DEFINE new == [i \in DOMAIN Lists[r] |-> <<r, Lists[r][i]>>]
             n == Len(Lists[r])
             q == Len(queue)
  <2>1. /\ report' = [report EXCEPT ![r] =
               [d \in Detectors |-> IF d \in Applicable[r] THEN "waiting" ELSE "none"]]
        /\ queue' = queue \o new
        /\ roomy' = IF Cardinality(running) + q + n <= Workers THEN roomy \cup {r} ELSE roomy
        /\ UNCHANGED result
    BY <1>4 DEF Run
  <2>2. /\ Lists[r] \in Seq(Detectors) /\ n \in Nat /\ DOMAIN Lists[r] = 1..n
        /\ Applicable[r] \subseteq Detectors
        /\ \A d \in Applicable[r] : \E i \in 1..n : Lists[r][i] = d
        /\ Applicable[r] # {}
    BY <1>4, ListsAreApplicable
  <2>3. new \in Seq(Jobs) /\ Len(new) = n /\ \A i \in 1..n : new[i] = <<r, Lists[r][i]>>
    <3>1. \A i \in 1..n : Lists[r][i] \in Detectors
      BY <2>2
    <3>2. new = [i \in 1..n |-> <<r, Lists[r][i]>>]
      BY <2>2
    <3> QED BY <2>2, <3>1, <3>2 DEF Jobs
  <2> HIDE DEF new, n
  <2>4. queue \in Seq(Jobs) /\ q \in Nat /\ DOMAIN queue = 1..q /\ n \in Nat
    BY <1>1, <2>2 DEF TypesOK
  <2>5. queue' \in Seq(Jobs) /\ Len(queue') = q + n
    BY <2>1, <2>3, <2>4, ConcatProperties
  <2>6. DOMAIN queue' = 1..(q + n)
    BY <2>4, <2>5
  <2>7. \A k \in 1..q : queue'[k] = queue[k]
    BY <2>1, <2>3, <2>4
  <2>8. \A k \in (q + 1)..(q + n) : queue'[k] = <<r, Lists[r][k - q]>>
    <3> SUFFICES ASSUME NEW k \in (q + 1)..(q + n) PROVE queue'[k] = <<r, Lists[r][k - q]>>
      OBVIOUS
    <3>1. k - q \in 1..n /\ k \in Nat /\ k > q
      BY <2>4
    <3>2. queue'[k] = new[k - q]
      BY <2>1, <2>3, <2>4, <3>1
    <3> QED BY <2>3, <3>1, <3>2
  <2> HIDE DEF q
  <2>9. \A k \in DOMAIN queue' :
            /\ k \in Nat /\ k <= q + n
            /\ \/ k \in DOMAIN queue /\ queue'[k] = queue[k]
               \/ k \notin DOMAIN queue /\ queue'[k][1] = r
    <3> SUFFICES ASSUME NEW k \in 1..(q + n)
                 PROVE  \/ k \in 1..q /\ queue'[k] = queue[k]
                        \/ k \notin 1..q /\ queue'[k][1] = r
      BY <2>4, <2>6
    <3>1. CASE k <= q
      BY <2>4, <2>7, <3>1
    <3>2. CASE k > q
      <4>1. k \in (q + 1)..(q + n) /\ k \notin 1..q
        BY <2>4, <3>2
      <4> QED BY <2>8, <4>1
    <3> QED BY <2>4, <3>1, <3>2
  <2>10. /\ \A s \in Runs : s # r => report'[s] = report[s]
         /\ \A d \in Detectors : report'[r][d] = IF d \in Applicable[r] THEN "waiting" ELSE "none"
    BY <1>1, <2>1 DEF TypesOK
  <2>11. TypesOK'
    <3>1. [d \in Detectors |-> IF d \in Applicable[r] THEN "waiting" ELSE "none"] \in [Detectors -> Reports]
      BY DEF Reports
    <3>2. report' \in [Runs -> [Detectors -> Reports]]
      BY <1>1, <2>1, <3>1 DEF TypesOK
    <3>3. roomy' \subseteq Runs
      BY <1>1, <2>1 DEF TypesOK
    <3> QED BY <1>1, <1>2, <2>1, <2>5, <3>2, <3>3 DEF TypesOK, ResultOK
  <2>12. Reported(r)' /\ \A s \in Runs : s # r => (Reported(s)' <=> Reported(s))
    <3>1. PICK d \in Detectors : d \in Applicable[r]
      BY <2>2
    <3>2. report'[r][d] # "none"
      BY <2>10, <3>1
    <3> QED BY <2>10, <3>2 DEF Reported
  <2>13. \A s \in Runs : Reported(s) => Reported(s)'
    BY <2>12
  <2>14. AllReported'
    <3>1. \A s \in Runs : \A d \in Detectors :
              report'[s][d] # "none" <=> Reported(s)' /\ d \in Applicable[s]
      BY <1>1, <2>10, <2>12 DEF AllReported
    <3>2. \A s \in roomy' : Reported(s)'
      BY <1>1, <2>1, <2>12, <2>13 DEF AllReported, TypesOK
    <3>3. \A j \in running : j[1] \in Runs
      BY <1>1 DEF TypesOK, Jobs
    <3>4. \A j \in running' : Reported(j[1])'
      BY <1>1, <1>2, <2>13, <3>3 DEF AllReported
    <3> QED BY <3>1, <3>2, <3>4 DEF AllReported
  <2>15. AgeIsReported' /\ age[r] = 0
    BY <1>1, <1>2, <2>13 DEF AgeIsReported
  <2>16. WaitingIsHeld'
    <3> SUFFICES ASSUME NEW s \in Runs, NEW d \in Detectors, report'[s][d] = "waiting"
                 PROVE  <<s, d>> \in running' \/ \E k \in DOMAIN queue' : queue'[k] = <<s, d>>
      BY DEF WaitingIsHeld
    <3>1. CASE s # r
      <4>1. <<s, d>> \in running \/ \E k \in DOMAIN queue : queue[k] = <<s, d>>
        BY <1>1, <2>10, <3>1 DEF WaitingIsHeld
      <4>2. \A k \in DOMAIN queue : k \in DOMAIN queue' /\ queue'[k] = queue[k]
        BY <2>4, <2>6, <2>7
      <4> QED BY <1>2, <4>1, <4>2
    <3>2. CASE s = r
      <4>1. d \in Applicable[r]
        BY <2>10, <3>2
      <4>2. PICK i \in 1..n : Lists[r][i] = d
        BY <2>2, <4>1 DEF n
      <4>3. q + i \in (q + 1)..(q + n) /\ (q + i) - q = i /\ q + i \in DOMAIN queue'
        BY <2>4, <2>6, <4>2
      <4>4. queue'[q + i] = <<r, d>>
        BY <2>8, <4>2, <4>3
      <4> QED BY <3>2, <4>3, <4>4
    <3> QED BY <3>1, <3>2
  <2>17. RoomyIsNear'
    <3> SUFFICES ASSUME NEW k \in DOMAIN queue', queue'[k][1] \in roomy'
                 PROVE  Cardinality(running) + k <= Workers
      BY <1>2 DEF RoomyIsNear
    <3>1. Cardinality(running) \in Nat /\ Workers \in Nat /\ k \in Nat /\ k <= q + n
      BY <1>1, <2>9, JobsFinite, TimesAssumption DEF TypesOK
    <3>2. CASE Cardinality(running) + q + n <= Workers
      BY <2>4, <3>1, <3>2
    <3>3. CASE ~(Cardinality(running) + q + n <= Workers)
      <4>1. roomy' = roomy /\ r \notin roomy
        BY <1>1, <1>2, <2>1, <3>3 DEF AllReported, q
      <4>2. k \in DOMAIN queue /\ queue'[k] = queue[k]
        BY <2>9, <4>1
      <4> QED BY <1>1, <4>1, <4>2 DEF RoomyIsNear
    <3> QED BY <3>2, <3>3
  <2>18. QueuedIsFresh'
    <3> SUFFICES ASSUME NEW k \in DOMAIN queue', queue'[k][1] \in roomy'
                 PROVE  age[queue'[k][1]] = 0
      BY <1>2 DEF QueuedIsFresh
    <3>1. CASE queue'[k][1] = r
      BY <2>15, <3>1
    <3>2. CASE queue'[k][1] # r
      <4>1. queue'[k][1] \in roomy /\ k \in DOMAIN queue /\ queue'[k] = queue[k]
        BY <2>1, <2>9, <3>2
      <4> QED BY <1>1, <4>1 DEF QueuedIsFresh
    <3> QED BY <3>1, <3>2
  <2>19. \A s \in roomy' : s # r => s \in roomy /\ report'[s] = report[s]
    BY <1>1, <2>1, <2>10 DEF TypesOK
  <2>20. \A d \in Detectors : <<r, d>> \notin running
    BY <1>1, <1>2 DEF AllReported
  <2>21. FastIsTimely'
    <3> SUFFICES ASSUME NEW s \in roomy', NEW d \in Detectors, Fast(d),
                        report'[s][d] = "waiting", <<s, d>> \in running
                 PROVE  left[<<s, d>>] \in Nat /\ age[s] + left[<<s, d>>] < Deadline
      BY <1>2 DEF FastIsTimely, Fast
    <3>1. s # r
      BY <2>20
    <3> QED BY <1>1, <2>19, <3>1 DEF FastIsTimely
  <2>22. RoomSuffices'
    <3> SUFFICES ASSUME NEW s \in roomy', NEW d \in Applicable[s], Fast(d)
                 PROVE  report'[s][d] # "timed_out"
      BY DEF RoomSuffices, Fast
    <3>1. CASE s # r
      BY <1>1, <2>19, <3>1 DEF RoomSuffices
    <3>2. CASE s = r
      BY <2>2, <2>10, <3>2
    <3> QED BY <3>1, <3>2
  <2> QED BY <2>11, <2>14, <2>15, <2>16, <2>17, <2>18, <2>21, <2>22 DEF OInv
<1> QED BY <1>3, <1>4

(* A deadline passes.  A fast scan of a run with room is not overtaken by it: *)
(* queued it is too fresh, and on a thread it is through before.             *)
LEMMA TimeOutKeeps ==
    ASSUME OInv, NEW r \in Runs, NEW d \in Detectors, TimeOut(r, d) PROVE OInv'
<1>1. /\ TypesOK /\ AllReported /\ AgeIsReported /\ WaitingIsHeld /\ RoomyIsNear
      /\ QueuedIsFresh /\ FastIsTimely /\ RoomSuffices
  BY DEF OInv
<1>2. /\ age[r] = Deadline /\ report[r][d] = "waiting" /\ d \in Applicable[r]
      /\ report' = [report EXCEPT ![r][d] = "timed_out"]
      /\ UNCHANGED <<age, result, queue, running, left, roomy>>
  BY DEF TimeOut, Waiting
<1>3. \A s \in Runs, e \in Detectors :
          report'[s][e] = IF s = r /\ e = d THEN "timed_out" ELSE report[s][e]
  BY <1>1, <1>2 DEF TypesOK
<1>4. TypesOK'
  <2>1. report' \in [Runs -> [Detectors -> Reports]]
    BY <1>1, <1>2 DEF TypesOK, Reports
  <2> QED BY <1>1, <1>2, <2>1 DEF TypesOK, ResultOK
<1>5. \A s \in Runs, e \in Detectors : report'[s][e] # "none" <=> report[s][e] # "none"
  BY <1>2, <1>3
<1>6. \A s \in Runs : Reported(s)' <=> Reported(s)
  BY <1>5 DEF Reported
<1>7. AllReported' /\ AgeIsReported'
  <2>1. (\A s \in roomy : s \in Runs) /\ \A j \in running : j[1] \in Runs
    BY <1>1 DEF TypesOK, Jobs
  <2> QED BY <1>1, <1>2, <1>5, <1>6, <2>1 DEF AllReported, AgeIsReported
<1>8. \A s \in Runs, e \in Detectors : report'[s][e] = "waiting" => report[s][e] = "waiting"
  BY <1>3
<1>9. WaitingIsHeld' /\ RoomyIsNear' /\ QueuedIsFresh'
  BY <1>1, <1>2, <1>8 DEF WaitingIsHeld, RoomyIsNear, QueuedIsFresh
<1>10. FastIsTimely'
  <2>1. \A s \in roomy : s \in Runs
    BY <1>1 DEF TypesOK
  <2> QED BY <1>1, <1>2, <1>8, <2>1 DEF FastIsTimely, Fast
<1>11. ~(r \in roomy /\ Fast(d))
  <2> SUFFICES ASSUME r \in roomy, Fast(d) PROVE FALSE
    OBVIOUS
  <2>1. Deadline \in Nat /\ Deadline # 0
    BY TimesAssumption
  <2>2. CASE <<r, d>> \in running
    <3>1. left[<<r, d>>] \in Nat /\ age[r] + left[<<r, d>>] < Deadline
      BY <1>1, <1>2, <2>2 DEF FastIsTimely
    <3> QED BY <1>2, <2>1, <3>1
  <2>3. CASE \E k \in DOMAIN queue : queue[k] = <<r, d>>
    <3>1. age[r] = 0
      BY <1>1, <2>3 DEF QueuedIsFresh
    <3> QED BY <1>2, <2>1, <3>1
  <2> QED BY <1>1, <1>2, <2>2, <2>3 DEF WaitingIsHeld
<1>12. RoomSuffices'
  <2> SUFFICES ASSUME NEW s \in roomy, NEW e \in Applicable[s], Fast(e)
               PROVE  report'[s][e] # "timed_out"
    BY <1>2 DEF RoomSuffices, Fast
  <2>1. s \in Runs /\ e \in Detectors
    BY <1>1, ListsAreApplicable DEF TypesOK
  <2> QED BY <1>1, <1>3, <1>11, <2>1 DEF RoomSuffices
<1> QED BY <1>4, <1>7, <1>9, <1>10, <1>12 DEF OInv

(* The reports are gathered.                                                 *)
LEMMA GatherKeeps == ASSUME OInv, NEW r \in Runs, Gather(r) PROVE OInv'
<1>1. TypesOK /\ AllReported
  BY DEF OInv
<1>2. /\ Lists[r] # <<>> /\ Begun(r) /\ Waiting(r) = {} /\ result[r] = <<>>
      /\ result' = [result EXCEPT ![r] = <<Gathered(r)>>]
      /\ UNCHANGED <<report, age, queue, running, left, roomy>>
  BY DEF Gather
<1>3. Gathered(r) \in I!Outcomes(r)
  BY <1>1, <1>2, GatheredIsOutcome DEF Begun, Reported
<1>4. ResultOK(r, <<Gathered(r)>>)
  BY <1>3 DEF ResultOK
<1>5. DOMAIN result' = Runs /\ \A s \in Runs : ResultOK(s, result'[s])
  BY <1>1, <1>2, <1>4 DEF TypesOK
<1>6. TypesOK'
  BY <1>1, <1>2, <1>5 DEF TypesOK, ResultOK
<1> QED BY <1>2, <1>6
        DEF OInv, AllReported, Reported, AgeIsReported, WaitingIsHeld, RoomyIsNear,
            QueuedIsFresh, FastIsTimely, RoomSuffices

------------------------------------------------------------------------------
(* A thread takes the head of the queue.                                     *)
LEMMA PickUpKeeps == ASSUME OInv, PickUp PROVE OInv'
<1>1. /\ TypesOK /\ AllReported /\ AgeIsReported /\ WaitingIsHeld /\ RoomyIsNear
      /\ QueuedIsFresh /\ FastIsTimely /\ RoomSuffices
  BY DEF OInv
<1> DEFINE scan == Head(queue)
           s == scan[1]
           d == scan[2]
           q == Len(queue)
<1>2. /\ queue # <<>> /\ Cardinality(running) < Workers /\ queue' = Tail(queue)
      /\ UNCHANGED <<report, age, result, roomy>>
  BY DEF PickUp
<1>3. queue \in Seq(Jobs) /\ q \in Nat /\ q > 0 /\ DOMAIN queue = 1..q
  BY <1>1, <1>2 DEF TypesOK
<1>4. queue' \in Seq(Jobs) /\ DOMAIN queue' = 1..(q - 1) /\ \A k \in 1..(q - 1) : queue'[k] = queue[k + 1]
  BY <1>2, <1>3
<1>5. scan = queue[1] /\ scan \in Jobs /\ s \in Runs /\ d \in Detectors /\ scan = <<s, d>> /\ 1 \in DOMAIN queue
  BY <1>3 DEF Jobs
<1>6. \/ /\ d \in Waiting(s)
         /\ running' = running \cup {scan}
         /\ \E n \in Lengths[d] : left' = [left EXCEPT ![scan] = n]
      \/ d \notin Waiting(s) /\ UNCHANGED <<running, left>>
  BY DEF PickUp
<1>7. d \in Waiting(s) <=> report[s][d] = "waiting"
  BY <1>1, <1>5 DEF AllReported, Waiting
<1> HIDE DEF scan, s, d, q
<1>8. Cardinality(running) \in Nat /\ Workers \in Nat /\ IsFiniteSet(running)
  BY <1>1, JobsFinite, TimesAssumption DEF TypesOK
<1>9. running' \subseteq Jobs /\ Cardinality(running') \in Nat /\ Cardinality(running') <= Cardinality(running) + 1
  <2>1. CASE running' = running \cup {scan}
    <3>1. \/ Cardinality(running') = Cardinality(running)
          \/ Cardinality(running') = Cardinality(running) + 1
      BY <1>8, <2>1, FS_AddElement
    <3>2. running' \subseteq Jobs
      BY <1>1, <1>5, <2>1 DEF TypesOK
    <3> QED BY <1>8, <3>1, <3>2
  <2>2. CASE running' = running
    BY <1>1, <1>8, <2>2 DEF TypesOK
  <2> QED BY <1>6, <2>1, <2>2
<1>10. left' \in [Jobs -> Nat \cup {Endless}]
  <2>1. CASE UNCHANGED left
    BY <1>1, <2>1 DEF TypesOK
  <2>2. ASSUME NEW n \in Lengths[d], left' = [left EXCEPT ![scan] = n] PROVE left' \in [Jobs -> Nat \cup {Endless}]
    <3>1. n \in Nat \cup {Endless}
      BY <1>5, TimesAssumption
    <3> QED BY <1>1, <2>2, <3>1 DEF TypesOK
  <2> QED BY <1>6, <2>1, <2>2
<1>11. TypesOK'
  BY <1>1, <1>2, <1>4, <1>8, <1>9, <1>10 DEF TypesOK, ResultOK
<1>12. AllReported' /\ AgeIsReported'
  <2>1. d \in Waiting(s) => Reported(s)
    BY <1>5, <1>7 DEF Reported
  <2>2. \A j \in running' : Reported(j[1])
    BY <1>1, <1>6, <2>1 DEF AllReported, s
  <2> QED BY <1>1, <1>2, <2>2 DEF AllReported, AgeIsReported, Reported
<1>13. WaitingIsHeld'
  <2> SUFFICES ASSUME NEW r \in Runs, NEW e \in Detectors, report[r][e] = "waiting"
               PROVE  <<r, e>> \in running' \/ \E k \in DOMAIN queue' : queue'[k] = <<r, e>>
    BY <1>2 DEF WaitingIsHeld
  <2>1. CASE <<r, e>> \in running
    BY <1>6, <2>1
  <2>2. CASE <<r, e>> = scan
    <3>1. r = s /\ e = d
      BY <1>5, <2>2
    <3> QED BY <1>6, <1>7, <2>2, <3>1
  <2>3. ASSUME NEW k \in DOMAIN queue, queue[k] = <<r, e>>, <<r, e>> # scan
        PROVE  \E m \in DOMAIN queue' : queue'[m] = <<r, e>>
    <3>1. k # 1
      BY <1>5, <2>3
    <3>2. k - 1 \in 1..(q - 1) /\ (k - 1) + 1 = k
      BY <1>3, <3>1
    <3>3. queue'[k - 1] = queue[k]
      BY <1>4, <3>2
    <3> QED BY <1>4, <2>3, <3>2, <3>3
  <2> QED BY <1>1, <2>1, <2>2, <2>3 DEF WaitingIsHeld
<1>14. RoomyIsNear'
  <2> SUFFICES ASSUME NEW k \in DOMAIN queue', queue'[k][1] \in roomy
               PROVE  Cardinality(running') + k <= Workers
    BY <1>2 DEF RoomyIsNear
  <2>1. k \in Nat /\ k + 1 \in DOMAIN queue /\ queue'[k] = queue[k + 1]
    BY <1>3, <1>4
  <2>2. Cardinality(running) + (k + 1) <= Workers
    BY <1>1, <2>1 DEF RoomyIsNear
  <2> QED BY <1>8, <1>9, <2>1, <2>2
<1>15. QueuedIsFresh'
  <2> SUFFICES ASSUME NEW k \in DOMAIN queue', queue'[k][1] \in roomy
               PROVE  age[queue'[k][1]] = 0
    BY <1>2 DEF QueuedIsFresh
  <2>1. k + 1 \in DOMAIN queue /\ queue'[k] = queue[k + 1]
    BY <1>3, <1>4
  <2> QED BY <1>1, <2>1 DEF QueuedIsFresh
<1>16. FastIsTimely'
  <2> SUFFICES ASSUME NEW r \in roomy, NEW e \in Detectors, Fast(e),
                      report[r][e] = "waiting", <<r, e>> \in running'
               PROVE  left'[<<r, e>>] \in Nat /\ age[r] + left'[<<r, e>>] < Deadline
    BY <1>2 DEF FastIsTimely, Fast
  <2>1. r \in Runs /\ <<r, e>> \in Jobs
    BY <1>1 DEF TypesOK, Jobs
  <2>2. CASE <<r, e>> = scan /\ d \in Waiting(s)
    <3>1. r = s /\ e = d
      BY <1>5, <2>2
    <3>2. PICK n \in Lengths[d] : left' = [left EXCEPT ![scan] = n]
      BY <1>6, <2>2
    <3>3. left'[<<r, e>>] = n
      BY <1>1, <2>1, <2>2, <3>2 DEF TypesOK
    <3>4. n \in 0..(Deadline - 1) /\ Deadline \in Nat
      BY <3>1, <3>2, TimesAssumption DEF Fast
    <3>5. queue[1][1] = r
      BY <1>5, <3>1
    <3>6. age[queue[1][1]] = 0
      BY <1>1, <1>5, <3>5 DEF QueuedIsFresh
    <3> QED BY <3>3, <3>4, <3>5, <3>6
  <2>3. CASE ~(<<r, e>> = scan /\ d \in Waiting(s))
    <3>1. <<r, e>> \in running /\ left'[<<r, e>>] = left[<<r, e>>]
      BY <1>1, <1>6, <2>1, <2>3 DEF TypesOK
    <3> QED BY <1>1, <3>1 DEF FastIsTimely
  <2> QED BY <2>2, <2>3
<1>17. RoomSuffices'
  BY <1>1, <1>2 DEF RoomSuffices, Fast
<1> QED BY <1>11, <1>12, <1>13, <1>14, <1>15, <1>16, <1>17 DEF OInv

(* A scan ends and frees its thread.                                         *)
LEMMA ScanEndsKeeps ==
    ASSUME OInv, NEW r \in Runs, NEW d \in Detectors, ScanEnds(r, d) PROVE OInv'
<1>1. /\ TypesOK /\ AllReported /\ AgeIsReported /\ WaitingIsHeld /\ RoomyIsNear
      /\ QueuedIsFresh /\ FastIsTimely /\ RoomSuffices
  BY DEF OInv
<1>2. /\ <<r, d>> \in running /\ running' = running \ {<<r, d>>}
      /\ UNCHANGED <<age, result, queue, left, roomy>>
  BY DEF ScanEnds
<1>3. d \in Waiting(r) <=> report[r][d] = "waiting"
  BY <1>1 DEF AllReported, Waiting
<1>4. \/ /\ report[r][d] = "waiting"
         /\ \E how \in {"ok", "error"} : report' = [report EXCEPT ![r][d] = how]
      \/ report[r][d] # "waiting" /\ UNCHANGED report
  BY <1>3 DEF ScanEnds
<1>5. /\ report' \in [Runs -> [Detectors -> Reports]]
      /\ \A s \in Runs, e \in Detectors : s # r \/ e # d => report'[s][e] = report[s][e]
      /\ report'[r][d] \notin {"none", "waiting"} <=> report[r][d] # "none"
      /\ report'[r][d] = report[r][d] \/ report'[r][d] \in {"ok", "error"}
      /\ report'[r][d] # "waiting"
  <2>1. CASE report[r][d] # "waiting" /\ UNCHANGED report
    BY <1>1, <2>1 DEF TypesOK
  <2>2. ASSUME report[r][d] = "waiting", NEW how \in {"ok", "error"}, report' = [report EXCEPT ![r][d] = how]
        PROVE  /\ report' \in [Runs -> [Detectors -> Reports]]
               /\ \A s \in Runs, e \in Detectors : s # r \/ e # d => report'[s][e] = report[s][e]
               /\ report'[r][d] \in {"ok", "error"}
    <3>1. report'[r][d] = how
      BY <1>1, <2>2 DEF TypesOK
    <3>2. report' \in [Runs -> [Detectors -> Reports]]
      BY <1>1, <2>2 DEF TypesOK, Reports
    <3>3. \A s \in Runs, e \in Detectors : s # r \/ e # d => report'[s][e] = report[s][e]
      BY <1>1, <2>2 DEF TypesOK
    <3> QED BY <2>2, <3>1, <3>2, <3>3
  <2> QED BY ONLY <1>4, <2>1, <2>2
<1>6. Cardinality(running) \in Nat /\ Cardinality(running') \in Nat /\ Cardinality(running') <= Cardinality(running)
  <2>1. IsFiniteSet(running) /\ running' \subseteq running /\ running' \subseteq Jobs
    BY <1>1, <1>2, JobsFinite DEF TypesOK
  <2> QED BY <1>1, <2>1, JobsFinite, FS_Subset DEF TypesOK
<1>7. Workers \in Nat /\ running' \subseteq Jobs
  BY <1>1, <1>2, TimesAssumption DEF TypesOK
<1>8. TypesOK'
  <2>1. Cardinality(running') <= Workers
    BY <1>1, <1>6, <1>7 DEF TypesOK
  <2> QED BY <1>1, <1>2, <1>5, <1>7, <2>1 DEF TypesOK, ResultOK
<1>9. \A s \in Runs, e \in Detectors : report'[s][e] # "none" <=> report[s][e] # "none"
  BY <1>5
<1>10. \A s \in Runs : Reported(s)' <=> Reported(s)
  BY <1>9 DEF Reported
<1>11. AllReported' /\ AgeIsReported'
  <2>1. (\A s \in roomy : s \in Runs) /\ \A j \in running : j[1] \in Runs
    BY <1>1 DEF TypesOK, Jobs
  <2>2. \A j \in running' : j \in running
    BY <1>2
  <2> QED BY <1>1, <1>2, <1>9, <1>10, <2>1, <2>2 DEF AllReported, AgeIsReported
<1>12. WaitingIsHeld'
  <2> SUFFICES ASSUME NEW s \in Runs, NEW e \in Detectors, report'[s][e] = "waiting"
               PROVE  <<s, e>> \in running' \/ \E k \in DOMAIN queue : queue[k] = <<s, e>>
    BY <1>2 DEF WaitingIsHeld
  <2>1. s # r \/ e # d
    BY <1>5
  <2>2. report[s][e] = "waiting" /\ <<s, e>> # <<r, d>>
    BY <1>5, <2>1
  <2> QED BY <1>1, <1>2, <2>2 DEF WaitingIsHeld
<1>13. RoomyIsNear'
  <2> SUFFICES ASSUME NEW k \in DOMAIN queue, queue[k][1] \in roomy
               PROVE  Cardinality(running') + k <= Workers
    BY <1>2 DEF RoomyIsNear
  <2>1. k \in Nat
    BY <1>1 DEF TypesOK
  <2>2. Cardinality(running) + k <= Workers
    BY <1>1 DEF RoomyIsNear
  <2> QED BY <1>6, <1>7, <2>1, <2>2
<1>14. QueuedIsFresh'
  BY <1>1, <1>2 DEF QueuedIsFresh
<1>15. FastIsTimely'
  <2> SUFFICES ASSUME NEW s \in roomy, NEW e \in Detectors, Fast(e),
                      report'[s][e] = "waiting", <<s, e>> \in running'
               PROVE  left[<<s, e>>] \in Nat /\ age[s] + left[<<s, e>>] < Deadline
    BY <1>2 DEF FastIsTimely, Fast
  <2>1. s \in Runs
    BY <1>1 DEF TypesOK
  <2>2. s # r \/ e # d
    BY <1>5
  <2>3. report[s][e] = "waiting" /\ <<s, e>> \in running
    BY <1>2, <1>5, <2>1, <2>2
  <2> QED BY <1>1, <2>3 DEF FastIsTimely
<1>16. RoomSuffices'
  <2> SUFFICES ASSUME NEW s \in roomy, NEW e \in Applicable[s], Fast(e)
               PROVE  report'[s][e] # "timed_out"
    BY <1>2 DEF RoomSuffices, Fast
  <2>1. s \in Runs /\ e \in Detectors
    BY <1>1, ListsAreApplicable DEF TypesOK
  <2> QED BY <1>1, <1>5, <2>1 DEF RoomSuffices
<1> QED BY <1>8, <1>11, <1>12, <1>13, <1>14, <1>15, <1>16 DEF OInv

------------------------------------------------------------------------------
(* Time passes.  Nothing of a run with room is queued then, since a thread    *)
(* would be free for it.                                                    *)
LEMMA TickKeeps == ASSUME OInv, Tick PROVE OInv'
<1>1. /\ TypesOK /\ AllReported /\ AgeIsReported /\ WaitingIsHeld /\ RoomyIsNear
      /\ QueuedIsFresh /\ FastIsTimely /\ RoomSuffices
  BY DEF OInv
<1>2. /\ age' = [r \in Runs |-> IF Waiting(r) # {} THEN age[r] + 1 ELSE age[r]]
      /\ left' = [j \in Jobs |-> IF j \in running /\ left[j] > 0 THEN left[j] - 1 ELSE left[j]]
      /\ UNCHANGED <<report, result, queue, running, roomy>>
  BY DEF Tick
<1>3. /\ queue = <<>> \/ ~(Cardinality(running) < Workers)
      /\ \A j \in running : left[j] # 0
      /\ \A r \in Runs : Waiting(r) # {} => age[r] # Deadline
  BY DEF Tick, Due
<1>4. Deadline \in Nat /\ Workers \in Nat /\ Cardinality(running) \in Nat
  BY <1>1, JobsFinite, TimesAssumption DEF TypesOK
<1>5. \A r \in Runs : /\ age[r] \in 0..Deadline
                      /\ age'[r] = IF Waiting(r) # {} THEN age[r] + 1 ELSE age[r]
  BY <1>1, <1>2 DEF TypesOK
<1>6. TypesOK'
  <2>1. age' \in [Runs -> 0..Deadline]
    <3>1. ASSUME NEW r \in Runs PROVE age'[r] \in 0..Deadline
      BY <1>3, <1>4, <1>5
    <3> QED BY <1>2, <3>1
  <2>2. left' \in [Jobs -> Nat \cup {Endless}]
    <3>1. ASSUME NEW j \in Jobs
          PROVE  (IF j \in running /\ left[j] > 0 THEN left[j] - 1 ELSE left[j]) \in Nat \cup {Endless}
      <4>1. left[j] \in Nat \cup {Endless}
        BY <1>1 DEF TypesOK
      <4> QED BY <4>1 DEF Endless
    <3> QED BY <1>2, <3>1
  <2> QED BY <1>1, <1>2, <2>1, <2>2 DEF TypesOK, ResultOK
<1>7. AllReported' /\ WaitingIsHeld' /\ RoomyIsNear' /\ RoomSuffices'
  BY <1>1, <1>2 DEF AllReported, Reported, WaitingIsHeld, RoomyIsNear, RoomSuffices, Fast
<1>8. AgeIsReported'
  <2> SUFFICES ASSUME NEW r \in Runs, age'[r] # 0 PROVE Reported(r)
    BY <1>2 DEF AgeIsReported, Reported
  <2>1. CASE Waiting(r) # {}
    <3>1. PICK d \in Applicable[r] : report[r][d] = "waiting"
      BY <2>1 DEF Waiting
    <3> QED BY <3>1, ListsAreApplicable DEF Reported
  <2>2. CASE Waiting(r) = {}
    BY <1>1, <1>5, <2>2 DEF AgeIsReported
  <2> QED BY <2>1, <2>2
<1>9. \A k \in DOMAIN queue : queue[k][1] \notin roomy
  <2> SUFFICES ASSUME NEW k \in DOMAIN queue, queue[k][1] \in roomy PROVE FALSE
    OBVIOUS
  <2>1. k \in Nat \ {0} /\ queue # <<>>
    BY <1>1 DEF TypesOK
  <2>2. Cardinality(running) + k <= Workers
    BY <1>1 DEF RoomyIsNear
  <2> QED BY <1>3, <1>4, <2>1, <2>2
<1>10. QueuedIsFresh'
  BY <1>2, <1>9 DEF QueuedIsFresh
<1>11. FastIsTimely'
  <2> SUFFICES ASSUME NEW r \in roomy, NEW d \in Detectors, Fast(d),
                      report[r][d] = "waiting", <<r, d>> \in running
               PROVE  left'[<<r, d>>] \in Nat /\ age'[r] + left'[<<r, d>>] < Deadline
    BY <1>2 DEF FastIsTimely, Fast
  <2>1. r \in Runs /\ <<r, d>> \in Jobs
    BY <1>1 DEF TypesOK, Jobs
  <2>2. left[<<r, d>>] \in Nat /\ age[r] + left[<<r, d>>] < Deadline
    BY <1>1 DEF FastIsTimely
  <2>3. left[<<r, d>>] > 0
    BY <1>3, <2>2
  <2>4. left'[<<r, d>>] = left[<<r, d>>] - 1
    BY <1>2, <2>1, <2>3
  <2>5. age'[r] \in Nat /\ age[r] \in Nat /\ age'[r] <= age[r] + 1
    BY <1>4, <1>5, <2>1
  <2> QED BY <1>4, <2>2, <2>3, <2>4, <2>5
<1> QED BY <1>6, <1>7, <1>8, <1>10, <1>11 DEF OInv

------------------------------------------------------------------------------
LEMMA NextKeeps == OInv /\ [Next]_vars => OInv'
<1> SUFFICES ASSUME OInv, [Next]_vars PROVE OInv'
  OBVIOUS
<1>1. CASE PickUp
  BY <1>1, PickUpKeeps
<1>2. CASE Tick
  BY <1>2, TickKeeps
<1>3. CASE \E r \in Runs : Gather(r)
  BY <1>3, GatherKeeps
<1>4. CASE \E r \in Runs, d \in Detectors : TimeOut(r, d)
  BY <1>4, TimeOutKeeps
<1>5. CASE \E r \in Runs, d \in Detectors : ScanEnds(r, d)
  BY <1>5, ScanEndsKeeps
<1>6. CASE \E r \in Runs : Run(r)
  BY <1>6, RunKeeps
<1>7. CASE UNCHANGED vars
  BY <1>7 DEF OInv, vars, TypesOK, ResultOK, AllReported, Reported, AgeIsReported, WaitingIsHeld,
              RoomyIsNear, QueuedIsFresh, FastIsTimely, RoomSuffices, Fast
<1> QED BY <1>1, <1>2, <1>3, <1>4, <1>5, <1>6, <1>7 DEF Next, Progress

LEMMA OInvHolds == Spec => []OInv
<1> QED BY InitOInv, NextKeeps, PTL DEF Spec

(* Every reachable state of the orchestrator and its pool is well typed: no   *)
(* more scans run than there are threads, no deadline is overrun, and every   *)
(* result is one an inspection may have (app/orchestrator.py:129).           *)
THEOREM TypeCorrect == Spec => []TypeOK
<1>1. OInv => TypeOK
  BY DEF OInv, TypesOK, ResultOK, TypeOK
<1> QED BY <1>1, OInvHolds, PTL

(* DET-012 to DET-014, app/orchestrator.py:54: a fast detector meets its      *)
(* deadline in every run that found room, whatever else the threads are      *)
(* kept busy with.                                                          *)
THEOREM RoomIsEnough == Spec => []RoomSuffices
<1>1. OInv => RoomSuffices
  BY DEF OInv
<1> QED BY <1>1, OInvHolds, PTL

------------------------------------------------------------------------------
Asked == {r \in Runs : Begun(r)}

LEMMA StepInspects == OInv /\ [Next]_vars => [I!INext]_I!ivars
<1> SUFFICES ASSUME OInv, [Next]_vars PROVE [I!INext]_I!ivars
  OBVIOUS
<1>t. TypesOK /\ AllReported
  BY DEF OInv
<1>1. ASSUME NEW r \in Runs, result[r] = <<>>, Gathered(r) \in I!Outcomes(r),
             result' = [result EXCEPT ![r] = <<Gathered(r)>>]
      PROVE  I!End(r)
  BY <1>1 DEF I!End
<1>2. ASSUME UNCHANGED result, \A r \in Runs : Reported(r)' <=> Reported(r) PROVE UNCHANGED I!ivars
  <2>1. \A r \in Runs : Begun(r)' <=> Begun(r)
    BY <1>2 DEF Begun, Reported
  <2> QED BY <1>2, <2>1 DEF I!ivars
<1>3. CASE \E r \in Runs : Run(r)
  <2>1. PICK r \in Runs : Run(r)
    BY <1>3
  <2>2. ~Begun(r) /\ result[r] = <<>> /\ ~Reported(r)
    BY <2>1 DEF Run, Begun, Reported
  <2>3. Begun(r)' /\ \A s \in Runs : s # r => (Begun(s)' <=> Begun(s))
    <3>1. CASE Lists[r] = <<>>
      <4>1. result' = [result EXCEPT ![r] = <<Gathered(r)>>] /\ UNCHANGED report
        BY <2>1, <3>1 DEF Run
      <4>2. result'[r] # <<>> /\ \A s \in Runs : s # r => result'[s] = result[s]
        BY <1>t, <4>1 DEF TypesOK
      <4> QED BY <4>1, <4>2 DEF Begun
    <3>2. CASE Lists[r] # <<>>
      <4>1. /\ report' = [report EXCEPT ![r] =
                   [d \in Detectors |-> IF d \in Applicable[r] THEN "waiting" ELSE "none"]]
            /\ UNCHANGED result
        BY <2>1, <3>2 DEF Run
      <4>2. PICK d \in Detectors : d \in Applicable[r]
        BY <3>2, ListsAreApplicable
      <4>3. report'[r][d] # "none" /\ \A s \in Runs : s # r => report'[s] = report[s]
        BY <1>t, <4>1, <4>2 DEF TypesOK
      <4> QED BY <4>1, <4>3 DEF Begun
    <3> QED BY <3>1, <3>2
  <2>4. Asked' = Asked \cup {r} /\ r \notin Asked
    BY <2>2, <2>3 DEF Asked
  <2>5. I!Begin(r)
    BY <2>4 DEF I!Begin, Asked
  <2>6. CASE Lists[r] = <<>>
    <3>1. result' = [result EXCEPT ![r] = <<Gathered(r)>>]
      BY <2>1, <2>6 DEF Run
    <3>2. Applicable[r] = {} /\ Waiting(r) = {}
      BY <2>6, ListsAreApplicable DEF Waiting
    <3>3. Gathered(r) \in I!Outcomes(r)
      BY <1>t, <2>6, <3>2, GatheredIsOutcome
    <3> QED BY <1>1, <2>2, <2>5, <3>1, <3>2, <3>3 DEF I!INext
  <2>7. CASE Lists[r] # <<>>
    <3>1. UNCHANGED result
      BY <2>1, <2>7 DEF Run
    <3> QED BY <2>5, <3>1 DEF I!INext
  <2> QED BY <2>6, <2>7
<1>4. CASE \E r \in Runs : Gather(r)
  <2>1. PICK r \in Runs : Gather(r)
    BY <1>4
  <2>2. /\ Begun(r) /\ Waiting(r) = {} /\ result[r] = <<>> /\ UNCHANGED report
        /\ result' = [result EXCEPT ![r] = <<Gathered(r)>>]
    BY <2>1 DEF Gather
  <2>3. Gathered(r) \in I!Outcomes(r)
    BY <1>t, <2>2, GatheredIsOutcome DEF Begun, Reported
  <2>4. result'[r] # <<>> /\ \A s \in Runs : s # r => result'[s] = result[s]
    BY <1>t, <2>2 DEF TypesOK
  <2>5. \A s \in Runs : Begun(s)' <=> Begun(s)
    BY <2>2, <2>4 DEF Begun
  <2>6. Asked' = Asked /\ r \in Asked
    BY <2>2, <2>5 DEF Asked
  <2> QED BY <1>1, <2>2, <2>3, <2>6 DEF I!INext, Asked
<1>5. CASE PickUp \/ Tick \/ UNCHANGED vars
  <2>1. UNCHANGED <<report, result>>
    BY <1>5 DEF PickUp, Tick, vars
  <2> QED BY <1>2, <2>1 DEF Reported
<1>6. CASE \E r \in Runs, d \in Detectors : TimeOut(r, d) \/ ScanEnds(r, d)
  <2>1. PICK r \in Runs, d \in Detectors : TimeOut(r, d) \/ ScanEnds(r, d)
    BY <1>6
  <2>2. UNCHANGED result
    BY <2>1 DEF TimeOut, ScanEnds
  <2>3. \/ UNCHANGED report
        \/ /\ d \in Waiting(r)
           /\ \E how \in {"ok", "error", "timed_out"} : report' = [report EXCEPT ![r][d] = how]
    BY <2>1 DEF TimeOut, ScanEnds
  <2>4. \A s \in Runs, e \in Detectors : report'[s][e] # "none" <=> report[s][e] # "none"
    <3>1. CASE UNCHANGED report
      BY <3>1
    <3>2. ASSUME report[r][d] = "waiting", NEW how \in {"ok", "error", "timed_out"},
                 report' = [report EXCEPT ![r][d] = how]
          PROVE  \A s \in Runs, e \in Detectors : report'[s][e] # "none" <=> report[s][e] # "none"
      <4>1. \A s \in Runs, e \in Detectors :
                report'[s][e] = IF s = r /\ e = d THEN how ELSE report[s][e]
        BY <1>t, <3>2 DEF TypesOK
      <4> QED BY <3>2, <4>1
    <3> QED BY <2>3, <3>1, <3>2 DEF Waiting
  <2> QED BY <1>2, <2>2, <2>4 DEF Reported
<1> QED BY <1>3, <1>4, <1>5, <1>6 DEF Next, Progress

(* app/orchestrator.py:129-144: whatever the order of threads, deadlines and  *)
(* gathering, a run of the orchestrator is an inspection that ends once,     *)
(* with exactly what was not lost.                                          *)
THEOREM OrchestratorInspects == Spec => ImplementsInspection
<1>1. Init => I!IInit
  <2> SUFFICES ASSUME Init PROVE I!IInit
    OBVIOUS
  <2>1. result = [r \in Runs |-> <<>>] /\ \A r \in Runs : ~Begun(r)
    BY DEF Init, Begun
  <2> QED BY <2>1 DEF I!IInit
<1> QED BY <1>1, StepInspects, OInvHolds, PTL DEF Spec, ImplementsInspection, I!InspectionSpec
==============================================================================
