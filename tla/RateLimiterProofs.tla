-------------------------- MODULE RateLimiterProofs --------------------------
(* Proofs about RateLimiter, for any identities, limit, window and patience  *)
(* that satisfy its assumptions.                                             *)
EXTENDS RateLimiter, TLAPS

------------------------------------------------------------------------------
(* Arithmetic of windows and of rounding up *)

LEMMA Division ==
    ASSUME NEW t \in Nat, NEW d \in Nat \ {0}
    PROVE  /\ t \div d \in Nat
           /\ d * (t \div d) <= t
           /\ t < d * (t \div d) + d
  BY Z3

LEMMA Quotient ==
    ASSUME NEW d \in Nat \ {0}, NEW q \in Nat, NEW p \in Nat, d * q < d * p + d
    PROVE  q <= p
<1> SUFFICES ASSUME q >= p + 1 PROVE FALSE
  OBVIOUS
<1>1. d * q >= d * (p + 1)
  BY Z3
<1>2. d * (p + 1) = d * p + d
  BY Z3
<1>3. d * q \in Nat /\ d * p \in Nat
  BY Z3
<1>4. QED
  BY <1>1, <1>2, <1>3

LEMMA WindowBounds ==
    ASSUME NEW t \in Nat
    PROVE  /\ WindowOf(t) \in Nat
           /\ Window * WindowOf(t) <= t
           /\ t < Window * WindowOf(t) + Window
BY WindowAssumption, Division DEF WindowOf

LEMMA WindowMonotone ==
    ASSUME NEW a \in Nat, NEW b \in Nat, a <= b
    PROVE  WindowOf(a) <= WindowOf(b)
<1> DEFINE q == WindowOf(a)
           p == WindowOf(b)
<1>1. q \in Nat /\ p \in Nat /\ Window * q <= a /\ b < Window * p + Window
  BY WindowBounds
<1>2. Window * q \in Nat /\ Window * p \in Nat
  BY <1>1, WindowAssumption
<1> HIDE DEF q, p
<1>3. Window * q < Window * p + Window
  BY <1>1, <1>2, WindowAssumption
<1>4. q <= p
  BY <1>1, <1>3, WindowAssumption, Quotient
<1>5. QED
  BY <1>4 DEF q, p

LEMMA TwoWindowsLater ==
    ASSUME NEW a \in Nat, NEW b \in Nat, b <= a + 2 * Window
    PROVE  WindowOf(b) <= WindowOf(a) + 2
<1> DEFINE q == WindowOf(b)
           p == WindowOf(a)
<1>1. q \in Nat /\ p \in Nat /\ Window * q <= b /\ a < Window * p + Window
  BY WindowBounds
<1>2. Window * q \in Nat /\ Window * p \in Nat
  BY <1>1, WindowAssumption
<1> HIDE DEF q, p
<1>3. Window * (p + 2) = Window * p + 2 * Window
  BY <1>1, WindowAssumption, Z3
<1>4. Window * q < Window * (p + 2) + Window
  BY <1>1, <1>2, <1>3, WindowAssumption
<1>5. q <= p + 2
  BY <1>1, <1>4, WindowAssumption, Quotient
<1>6. QED
  BY <1>5 DEF q, p

(* Retry-After, rounded up to whole seconds, reaches the end of the window   *)
(* and stays less than a second beyond it.                                   *)
LEMMA RetryLands ==
    ASSUME NEW t \in Nat
    PROVE  /\ RetryAfter(t) \in Nat
           /\ (WindowOf(t) + 1) * Window <= t + RetryAfter(t) * Second
           /\ t + RetryAfter(t) * Second < (WindowOf(t) + 1) * Window + Second
<1> DEFINE end == (WindowOf(t) + 1) * Window
           remaining == end - t
           seconds == (remaining + Second - 1) \div Second
<1>1. /\ WindowOf(t) \in Nat /\ Window * WindowOf(t) <= t
      /\ t < Window * WindowOf(t) + Window
  BY WindowBounds
<1>2. end = Window * WindowOf(t) + Window
  BY <1>1, WindowAssumption, Z3
<1>3. Window * WindowOf(t) \in Nat
  BY <1>1, WindowAssumption
<1>4. end \in Nat /\ remaining \in Nat /\ remaining >= 1
  BY <1>1, <1>2, <1>3, WindowAssumption
<1>5. RetryAfter(t) = IF seconds < 1 THEN 1 ELSE seconds
  BY DEF RetryAfter
<1> HIDE DEF end
<1>6. remaining + Second - 1 \in Nat
  BY <1>4, SecondAssumption
<1>7. /\ seconds \in Nat
      /\ Second * seconds <= remaining + Second - 1
      /\ remaining + Second - 1 < Second * seconds + Second
  BY <1>6, SecondAssumption, Division
<1> HIDE DEF seconds
<1>8. Second * seconds \in Nat /\ seconds * Second = Second * seconds
  BY <1>7, SecondAssumption, Z3
<1>9. seconds # 0
  <2> SUFFICES ASSUME seconds = 0 PROVE FALSE
    OBVIOUS
  <2>1. Second * seconds = 0
    BY SecondAssumption
  <2>2. QED
    BY <2>1, <1>4, <1>7, SecondAssumption
<1>10. RetryAfter(t) = seconds
  BY <1>5, <1>7, <1>9
<1>11. /\ end <= t + seconds * Second
       /\ t + seconds * Second < end + Second
  BY <1>4, <1>7, <1>8, SecondAssumption
<1>12. QED
  BY <1>7, <1>10, <1>11 DEF end

------------------------------------------------------------------------------
(* The inductive invariant *)

LEMMA InitIInv == Init => IInv
<1> SUFFICES ASSUME Init PROVE IInv
  OBVIOUS
<1>1. WindowOf(0) \in Nat /\ WindowOf(LastTick) \in Nat
  BY WindowBounds, BoundsAssumption
<1>2. TypeOK
  BY <1>1, BoundsAssumption DEF Init, TypeOK, Zero, Counts, Windows
<1>3. WaitingIsRecent
  BY DEF Init, WaitingIsRecent
<1>4. RowsCount /\ SweptIsPast /\ AdmissionsExact
  BY <1>1, LimitAssumption
     DEF Init, RowsCount, SweptIsPast, AdmissionsExact, Zero, Least, Windows
<1>5. QED
  BY <1>2, <1>3, <1>4 DEF IInv

(* A request that is counted is counted in a window whose rows are kept.     *)
LEMMA CheckIsRecent ==
    ASSUME IInv, NEW s \in Slots, who[s] # None
    PROVE  /\ who[s] \in Identities
           /\ WindowOf(read[s]) \in Windows
           /\ swept <= WindowOf(read[s]) + 2
           /\ WindowOf(read[s]) <= WindowOf(now)
<1>1. /\ who[s] \in Identities /\ read[s] \in Nat /\ now \in Nat
      /\ read[s] <= LastTick /\ LastTick \in Nat /\ swept \in Int
  BY BoundsAssumption DEF IInv, TypeOK, Windows
<1>2. read[s] <= now /\ now <= read[s] + Patience
  BY DEF IInv, WaitingIsRecent
<1>3. now <= read[s] + 2 * Window
  BY <1>1, <1>2, PatienceAssumption, WindowAssumption
<1>4. WindowOf(now) <= WindowOf(read[s]) + 2
  BY <1>1, <1>3, TwoWindowsLater
<1>5. WindowOf(read[s]) <= WindowOf(LastTick) /\ WindowOf(read[s]) <= WindowOf(now)
  BY <1>1, <1>2, WindowMonotone
<1>6. WindowOf(read[s]) \in Nat /\ WindowOf(now) \in Nat /\ WindowOf(LastTick) \in Nat
  BY <1>1, WindowBounds
<1>7. swept <= WindowOf(now)
  BY DEF IInv, SweptIsPast
<1>8. QED
  BY <1>1, <1>4, <1>5, <1>6, <1>7 DEF Windows

(* Counting one more keeps a table of counts. *)
LEMMA Increment ==
    ASSUME NEW f \in Counts, NEW i \in Identities, NEW w \in Windows
    PROVE  [f EXCEPT ![i][w] = @ + 1] \in Counts
BY DEF Counts

(* A check keeps the invariant. *)
LEMMA CheckStep ==
    ASSUME IInv, NEW s \in Slots, CheckRateLimit(s)
    PROVE  IInv'
<1> DEFINE i == who[s]
           w == WindowOf(read[s])
<1>1. /\ i \in Identities /\ w \in Windows
      /\ swept <= w + 2 /\ w <= WindowOf(now)
  BY CheckIsRecent DEF CheckRateLimit
<1>2. /\ rows \in Counts /\ counted \in Counts /\ admitted \in Counts
      /\ swept \in Windows /\ read[s] \in 0..LastTick
  BY DEF IInv, TypeOK
<1>3. w \in Int /\ swept \in Int /\ \A v \in Windows : v \in Int
  BY <1>1, <1>2 DEF Windows
<1>4. /\ rows' = Charged(i, w)
      /\ counted' = [counted EXCEPT ![i][w] = @ + 1]
      /\ swept' = IF w > swept THEN w ELSE swept
      /\ \/ /\ Allowed(rows'[i][w])
            /\ admitted' = [admitted EXCEPT ![i][w] = @ + 1] /\ UNCHANGED advice
         \/ /\ ~Allowed(rows'[i][w])
            /\ advice' = [advice EXCEPT ![i] =
                             [at |-> read[s], retry |-> RetryAfter(read[s])]]
            /\ UNCHANGED admitted
      /\ who' = [who EXCEPT ![s] = None]
      /\ UNCHANGED <<now, read, arrived>>
  BY DEF CheckRateLimit, Leave
<1> HIDE DEF i, w
<1>5. rows' \in Counts /\ counted' \in Counts /\ admitted' \in Counts /\ swept' \in Windows
  <2>1. \A j \in Identities, v \in Windows : rows[j][v] \in Nat
    BY <1>2 DEF Counts
  <2>2. rows' \in Counts
    BY <1>4, <2>1 DEF Counts, Charged
  <2>3. counted' \in Counts
    BY <1>1, <1>2, <1>4, Increment
  <2>4. admitted' \in Counts
    <3>1. [admitted EXCEPT ![i][w] = @ + 1] \in Counts
      BY <1>1, <1>2, Increment
    <3>2. QED
      BY <1>2, <1>4, <3>1
  <2>5. swept' \in Windows
    BY <1>1, <1>2, <1>4
  <2>6. QED
    BY <2>2, <2>3, <2>4, <2>5
<1>6. advice' \in [Identities -> Advice \cup {None}]
  <2>1. [at |-> read[s], retry |-> RetryAfter(read[s])] \in Advice
    BY <1>2, BoundsAssumption, RetryLands DEF Advice
  <2>2. QED
    BY <1>1, <1>4, <2>1 DEF IInv, TypeOK
<1>7. TypeOK'
  BY <1>4, <1>5, <1>6 DEF IInv, TypeOK
<1>8. WaitingIsRecent'
  BY <1>4 DEF IInv, TypeOK, WaitingIsRecent
<1>9. swept' >= swept /\ w >= swept' - 2 /\ swept' >= w /\ (swept' = swept \/ swept' = w)
  BY <1>1, <1>3, <1>4
<1>10. RowsCount'
  <2> SUFFICES ASSUME NEW j \in Identities, NEW v \in Windows
               PROVE  rows'[j][v] = IF v < swept' - 2 THEN 0 ELSE counted'[j][v]
    BY DEF RowsCount
  <2>1. rows[j][v] = IF v < swept - 2 THEN 0 ELSE counted[j][v]
    BY DEF IInv, RowsCount
  <2>2. v \in Int
    BY <1>3
  <2>3. CASE j = i /\ v = w
    <3>1. rows'[j][v] = rows[j][v] + 1 /\ counted'[j][v] = counted[j][v] + 1
      BY <2>3, <1>2, <1>4 DEF Charged, Counts
    <3>2. QED
      BY <3>1, <2>1, <2>3, <1>1, <1>3, <1>9
  <2>4. CASE ~(j = i /\ v = w)
    <3>1. counted'[j][v] = counted[j][v]
      BY <2>4, <1>1, <1>2, <1>4 DEF Counts
    <3>2. rows'[j][v] = IF v < w - 2 THEN 0 ELSE rows[j][v]
      BY <2>4, <1>4 DEF Charged, Stale
    <3>3. QED
      BY <3>1, <3>2, <2>1, <2>2, <1>3, <1>9
  <2>5. QED
    BY <2>3, <2>4
<1>11. SweptIsPast'
  BY <1>1, <1>3, <1>4 DEF IInv, SweptIsPast
<1>12. AdmissionsExact'
  <2> SUFFICES ASSUME NEW j \in Identities, NEW v \in Windows
               PROVE  admitted'[j][v] = Least(counted'[j][v], Limit)
    BY DEF AdmissionsExact
  <2>1. admitted[j][v] = Least(counted[j][v], Limit) /\ counted[j][v] \in Nat
    BY <1>2 DEF IInv, AdmissionsExact, Counts
  <2>2. CASE j = i /\ v = w
    <3>1. counted'[j][v] = counted[j][v] + 1
      BY <2>2, <1>2, <1>4 DEF Counts
    <3>2. rows'[i][w] = counted'[j][v]
      BY <1>9, <1>10, <1>3, <1>1, <2>2 DEF RowsCount
    <3>3. admitted'[j][v] = IF counted'[j][v] <= Limit THEN admitted[j][v] + 1 ELSE admitted[j][v]
      BY <3>2, <2>2, <1>2, <1>4 DEF Allowed, Counts
    <3>4. QED
      BY <3>1, <3>3, <2>1, LimitAssumption DEF Least
  <2>3. CASE ~(j = i /\ v = w)
    BY <2>1, <2>3, <1>1, <1>2, <1>4 DEF Counts
  <2>4. QED
    BY <2>2, <2>3
<1>13. QED
  BY <1>7, <1>8, <1>10, <1>11, <1>12 DEF IInv

LEMMA StepIInv == IInv /\ [Next]_vars => IInv'
<1> SUFFICES ASSUME IInv, [Next]_vars PROVE IInv'
  OBVIOUS
<1>t. TypeOK /\ now \in Nat
  BY DEF IInv, TypeOK
<1>1. ASSUME Tick PROVE IInv'
  <2>1. /\ now' = now + 1 /\ now < LastTick
        /\ UNCHANGED <<rows, who, read, history>>
        /\ \A s \in Slots : who[s] # None => now < read[s] + Patience
    BY <1>1 DEF Tick
  <2>2. TypeOK'
    BY <1>t, <2>1, BoundsAssumption DEF TypeOK, history
  <2>3. WaitingIsRecent'
    BY <1>t, <2>1, PatienceAssumption DEF IInv, WaitingIsRecent, TypeOK
  <2>4. SweptIsPast'
    <3>1. WindowOf(now) <= WindowOf(now + 1)
      BY <1>t, WindowMonotone
    <3>2. WindowOf(now) \in Nat /\ WindowOf(now + 1) \in Nat /\ swept \in Int
      BY <1>t, WindowBounds DEF TypeOK, Windows
    <3>3. WindowOf(now)' = WindowOf(now + 1)
      BY <2>1 DEF WindowOf
    <3>4. QED
      BY <2>1, <3>1, <3>2, <3>3 DEF IInv, SweptIsPast, history
  <2>5. RowsCount' /\ AdmissionsExact'
    BY <2>1 DEF IInv, RowsCount, AdmissionsExact, history
  <2>6. QED
    BY <2>2, <2>3, <2>4, <2>5 DEF IInv
<1>2. ASSUME NEW s \in Slots, NEW i \in Identities, Receive(s, i) PROVE IInv'
  <2>1. TypeOK'
    BY <1>2, <1>t DEF TypeOK, Receive
  <2>2. WaitingIsRecent'
    BY <1>2, <1>t, PatienceAssumption DEF IInv, TypeOK, WaitingIsRecent, Receive
  <2>3. RowsCount' /\ SweptIsPast' /\ AdmissionsExact'
    BY <1>2 DEF IInv, RowsCount, SweptIsPast, AdmissionsExact, Receive
  <2>4. QED
    BY <2>1, <2>2, <2>3 DEF IInv
<1>3. ASSUME NEW s \in Slots, CheckRateLimit(s) PROVE IInv'
  BY <1>3, CheckStep
<1>4. ASSUME NEW s \in Slots, LimiterFails(s) PROVE IInv'
  <2>1. TypeOK'
    BY <1>4, <1>t DEF TypeOK, LimiterFails, Leave
  <2>2. WaitingIsRecent'
    BY <1>4, <1>t DEF IInv, TypeOK, WaitingIsRecent, LimiterFails, Leave
  <2>3. RowsCount' /\ SweptIsPast' /\ AdmissionsExact'
    BY <1>4 DEF IInv, RowsCount, SweptIsPast, AdmissionsExact, LimiterFails, Leave
  <2>4. QED
    BY <2>1, <2>2, <2>3 DEF IInv
<1>5. ASSUME UNCHANGED vars PROVE IInv'
  BY <1>5, <1>t DEF IInv, TypeOK, WaitingIsRecent, RowsCount, SweptIsPast,
                    AdmissionsExact, vars, history
<1>6. QED
  BY <1>1, <1>2, <1>3, <1>4, <1>5 DEF Next

LEMMA IInvInvariant == Spec => []IInv
<1>1. QED
  BY InitIInv, StepIInv, PTL DEF Spec

(* Every reachable state of the limiter is well typed: in particular the     *)
(* Retry-After a client is given is never negative (app/ratelimit.py:150).   *)
THEOREM TypeCorrect == Spec => []TypeOK
<1>1. IInv => TypeOK
  BY DEF IInv
<1>2. QED
  BY IInvInvariant, <1>1, PTL

(* WS-13: in every window of every identity exactly the first Limit of the   *)
(* requests counted are admitted, though requests are counted late and the   *)
(* table is swept by others, as long as no transaction waits for more than   *)
(* two windows.                                                              *)
THEOREM AdmissionsAreExact == Spec => []AdmissionsExact
<1>1. IInv => AdmissionsExact
  BY DEF IInv
<1>2. QED
  BY IInvInvariant, <1>1, PTL

(* SPEC.md section 10: rows stay only for the window last swept for, the two *)
(* before it and later ones, so the table is bounded without a cron job.     *)
THEOREM TableIsSwept == Spec => []RowsAreSwept
<1>1. IInv => RowsAreSwept
  <2> SUFFICES ASSUME IInv, NEW i \in Identities, NEW w \in Windows, rows[i][w] > 0
               PROVE  w >= swept - 2
    BY DEF RowsAreSwept
  <2>1. rows[i][w] = IF w < swept - 2 THEN 0 ELSE counted[i][w]
    BY DEF IInv, RowsCount
  <2>2. w \in Int /\ swept \in Int
    BY DEF IInv, TypeOK, Windows
  <2>3. QED
    BY <2>1, <2>2
<1>2. QED
  BY IInvInvariant, <1>1, PTL

(* app/ratelimit.py:146: Retry-After never sends a client back into the      *)
(* window that refused it, and costs it less than a second of the next one.  *)
THEOREM RetryAfterSuffices == Spec => []RetryAfterLeavesTheWindow
<1>1. Init => RetryAfterLeavesTheWindow
  BY DEF Init, RetryAfterLeavesTheWindow
<1>2. IInv /\ RetryAfterLeavesTheWindow /\ [Next]_vars => RetryAfterLeavesTheWindow'
  <2> SUFFICES ASSUME IInv, RetryAfterLeavesTheWindow, [Next]_vars,
                      NEW i \in Identities, advice'[i] # None
               PROVE  LET back == advice'[i].at + advice'[i].retry * Second
                          end == (WindowOf(advice'[i].at) + 1) * Window
                      IN  end <= back /\ back < end + Second
    BY DEF RetryAfterLeavesTheWindow, WindowOf
  <2>1. CASE advice'[i] = advice[i]
    BY <2>1 DEF RetryAfterLeavesTheWindow
  <2>2. CASE advice'[i] # advice[i]
    <3>1. PICK s \in Slots : CheckRateLimit(s)
      BY <2>2 DEF Next, Tick, Receive, LimiterFails, Leave, vars, history
    <3>2. advice'[i] = [at |-> read[s], retry |-> RetryAfter(read[s])]
      BY <2>2, <3>1 DEF CheckRateLimit, IInv, TypeOK
    <3>3. read[s] \in Nat
      BY BoundsAssumption DEF IInv, TypeOK
    <3>4. QED
      BY <3>2, <3>3, RetryLands
  <2>3. QED
    BY <2>1, <2>2
<1>3. QED
  BY <1>1, <1>2, IInvInvariant, PTL DEF Spec

------------------------------------------------------------------------------
(* The size of the table *)

CountedIsSwept == \A i \in Identities, w \in Windows : counted[i][w] > 0 => w <= swept

LEMMA CountedStaysSwept == IInv /\ CountedIsSwept /\ [Next]_vars => CountedIsSwept'
<1> SUFFICES ASSUME IInv, CountedIsSwept, [Next]_vars,
                    NEW i \in Identities, NEW w \in Windows, counted'[i][w] > 0
             PROVE  w <= swept'
  BY DEF CountedIsSwept
<1>1. w \in Int /\ swept \in Int
  BY DEF IInv, TypeOK, Windows
<1>2. ASSUME NEW s \in Slots, CheckRateLimit(s) PROVE w <= swept'
  <2>1. who[s] \in Identities /\ WindowOf(read[s]) \in Windows /\ WindowOf(read[s]) \in Int
    BY <1>2, CheckIsRecent DEF CheckRateLimit, Windows
  <2>2. /\ swept' = IF WindowOf(read[s]) > swept THEN WindowOf(read[s]) ELSE swept
        /\ counted' = [counted EXCEPT ![who[s]][WindowOf(read[s])] = @ + 1]
    BY <1>2 DEF CheckRateLimit
  <2>3. counted'[i][w] = counted[i][w] \/ w = WindowOf(read[s])
    BY <2>1, <2>2 DEF IInv, TypeOK, Counts
  <2>4. CASE w = WindowOf(read[s])
    BY <1>1, <2>2, <2>4
  <2>5. CASE counted'[i][w] = counted[i][w]
    BY <1>1, <2>1, <2>2, <2>5 DEF CountedIsSwept
  <2>6. QED
    BY <2>3, <2>4, <2>5
<1>3. CASE UNCHANGED <<counted, swept>>
  BY <1>3 DEF CountedIsSwept
<1>4. QED
  BY <1>2, <1>3 DEF Next, Tick, Receive, LimiterFails, vars, history

(* app/ratelimit.py:113: however long the gateway runs and whoever its clients *)
(* are, rate_limit_state has rows of three windows at most.                  *)
THEOREM TableHoldsThreeWindows ==
    Spec => [](\A i \in Identities, w \in Windows : rows[i][w] > 0 => w \in (swept - 2)..swept)
<1>1. Init => CountedIsSwept
  BY DEF Init, Zero, CountedIsSwept
<1>2. Spec => [](IInv /\ CountedIsSwept)
  BY <1>1, CountedStaysSwept, IInvInvariant, PTL DEF Spec
<1>3. IInv /\ CountedIsSwept =>
        \A i \in Identities, w \in Windows : rows[i][w] > 0 => w \in (swept - 2)..swept
  <2> SUFFICES ASSUME IInv, CountedIsSwept, NEW i \in Identities, NEW w \in Windows,
                      rows[i][w] > 0
               PROVE  w \in (swept - 2)..swept
    OBVIOUS
  <2>1. rows[i][w] = IF w < swept - 2 THEN 0 ELSE counted[i][w]
    BY DEF IInv, RowsCount
  <2>2. w \in Int /\ swept \in Int
    BY DEF IInv, TypeOK, Windows
  <2>3. w >= swept - 2 /\ counted[i][w] > 0
    BY <2>1, <2>2
  <2>4. QED
    BY <2>2, <2>3 DEF CountedIsSwept
<1>4. QED
  BY <1>2, <1>3, PTL
==============================================================================
