----------------------------- MODULE RateLimiter -----------------------------
(***************************************************************************)
(* The fixed-window limiter of app/ratelimit.py as the chat handler uses it *)
(* (app/main.py:656-681).  A request reads the clock, then waits for the    *)
(* write lock, then sweeps, counts and answers in one transaction; other    *)
(* requests, and the end of the window, may come between the two.           *)
(*                                                                         *)
(* Time passes in ticks; a window is a whole number of seconds and is named *)
(* by its number since the epoch.  No row for an identity and a window is a *)
(* count of 0: a committed row counts at least 1.                           *)
(***************************************************************************)
EXTENDS Integers

CONSTANTS
    Identities,
    Slots,          \* chat requests in progress at the same time
    Limit,          \* RateLimitConfig.requests
    Second,         \* ticks in a second
    Window,         \* ticks in RateLimitConfig.window_seconds
    Patience,       \* ticks a transaction waits for the write lock at most
    LastTick,       \* bound: the clock stops here
    MaxRequests,    \* bound: requests that arrive
    None

ASSUME LimitAssumption == Limit \in Nat \ {0}
ASSUME SecondAssumption == Second \in Nat \ {0}
ASSUME WindowAssumption == Window \in Nat \ {0} /\ Window % Second = 0
(* SQLite's default busy timeout is 5 seconds; the default window is 60. *)
ASSUME PatienceAssumption == Patience \in Nat /\ Patience <= 2 * Window
ASSUME BoundsAssumption == LastTick \in Nat /\ MaxRequests \in Nat

VARIABLES
    now,
    rows,       \* rate_limit_state: request_count by identity and window
    who,        \* the identity of the request in a slot, None if free
    read,       \* the clock as that request read it
    (* history *)
    arrived,    \* requests so far
    counted,    \* requests whose transaction committed, by identity and window
    admitted,   \* those of them that were allowed
    swept,      \* the latest window some transaction swept for
    advice      \* the last refusal of each identity: the clock and Retry-After

history == <<arrived, counted, admitted, swept, advice>>
vars == <<now, rows, who, read, history>>

WindowOf(t) == t \div Window
Windows == 0..WindowOf(LastTick)
Counts == [Identities -> [Windows -> Nat]]
Advice == [at : 0..LastTick, retry : Nat]

TypeOK ==
    /\ now \in 0..LastTick
    /\ rows \in Counts
    /\ who \in [Slots -> Identities \cup {None}]
    /\ read \in [Slots -> 0..LastTick]
    /\ arrived \in Nat
    /\ counted \in Counts /\ admitted \in Counts
    /\ swept \in Windows
    /\ advice \in [Identities -> Advice \cup {None}]

Zero == [i \in Identities |-> [w \in Windows |-> 0]]

Init ==
    /\ now = 0
    /\ rows = Zero
    /\ who = [s \in Slots |-> None]
    /\ read = [s \in Slots |-> 0]
    /\ arrived = 0 /\ counted = Zero /\ admitted = Zero
    /\ swept = 0
    /\ advice = [i \in Identities |-> None]

------------------------------------------------------------------------------
(* A transaction that has waited its patience out has failed by now. *)
Tick ==
    /\ now < LastTick
    /\ \A s \in Slots : who[s] # None => now < read[s] + Patience
    /\ now' = now + 1
    /\ UNCHANGED <<rows, who, read, history>>

Receive(s, i) ==
    /\ who[s] = None
    /\ arrived < MaxRequests
    /\ who' = [who EXCEPT ![s] = i]
    /\ read' = [read EXCEPT ![s] = now]
    /\ arrived' = arrived + 1
    /\ UNCHANGED <<now, rows, counted, admitted, swept, advice>>

(* Fault: what is two windows old stays (RowsAreSwept).                      *)
StaleLate(w, current) == w < current - 3

(* window_start < stale_before, two windows before the current one. *)
Stale(w, current) == w < current - 2

(* The rows after the sweep and the increment of one check. *)
Charged(i, current) ==
    [j \in Identities |-> [w \in Windows |->
        IF j = i /\ w = current THEN rows[j][w] + 1
        ELSE IF Stale(w, current) THEN 0 ELSE rows[j][w]]]

(* Fault: the remainder is truncated (RetryAfterLeavesTheWindow).            *)
RetryAfterTruncated(t) ==
    LET remaining == (WindowOf(t) + 1) * Window - t IN
    IF remaining < Second THEN 1 ELSE remaining \div Second

(* Fault: the seconds are counted to the window's start (TypeOK).            *)
RetryAfterFromStart(t) == (WindowOf(t) * Window - t + Second - 1) \div Second

(* The seconds left of the window of t, rounded up, and at least 1. *)
RetryAfter(t) ==
    LET remaining == (WindowOf(t) + 1) * Window - t
        seconds == (remaining + Second - 1) \div Second
    IN  IF seconds < 1 THEN 1 ELSE seconds

(* Fault: the comparison precedes the increment (AdmissionsExact).           *)
AllowedBefore(count) == count - 1 <= Limit

Allowed(count) == count <= Limit

Leave(s) ==
    /\ who' = [who EXCEPT ![s] = None]
    /\ UNCHANGED <<now, read, arrived>>

CheckRateLimit(s) ==
    LET i == who[s]
        w == WindowOf(read[s])
    IN  /\ i # None
        /\ rows' = Charged(i, w)
        /\ counted' = [counted EXCEPT ![i][w] = @ + 1]
        /\ swept' = IF w > swept THEN w ELSE swept
        /\ IF Allowed(rows'[i][w])
           THEN admitted' = [admitted EXCEPT ![i][w] = @ + 1] /\ UNCHANGED advice
           ELSE /\ advice' = [advice EXCEPT ![i] =
                                 [at |-> read[s], retry |-> RetryAfter(read[s])]]
                /\ UNCHANGED admitted
        /\ Leave(s)

(* The transaction fails or never gets the lock.  The handler refuses the    *)
(* request in production and lets it pass uncounted elsewhere.               *)
LimiterFails(s) ==
    /\ who[s] # None
    /\ Leave(s)
    /\ UNCHANGED <<rows, counted, admitted, swept, advice>>

Next ==
    \/ Tick
    \/ \E s \in Slots :
           \/ \E i \in Identities : Receive(s, i)
           \/ CheckRateLimit(s)
           \/ LimiterFails(s)

Spec == Init /\ [][Next]_vars

------------------------------------------------------------------------------
Least(a, b) == IF a < b THEN a ELSE b

(* WS-13: of the requests counted in a window exactly the first Limit are    *)
(* admitted, whatever window it is by the time they are counted, whoever     *)
(* else sweeps the table meanwhile, and however many are refused.            *)
AdmissionsExact ==
    \A i \in Identities, w \in Windows : admitted[i][w] = Least(counted[i][w], Limit)

(* SPEC.md section 10, "swept beyond two windows": no check, late ones       *)
(* included, leaves or makes a row that the latest sweep had to remove.      *)
RowsAreSwept ==
    \A i \in Identities, w \in Windows : rows[i][w] > 0 => w >= swept - 2

(* app/ratelimit.py:146: a client that obeys Retry-After comes back in a     *)
(* later window, and no later than one second into it.                       *)
RetryAfterLeavesTheWindow ==
    \A i \in Identities : advice[i] # None =>
        LET back == advice[i].at + advice[i].retry * Second
            end == (WindowOf(advice[i].at) + 1) * Window
        IN  end <= back /\ back < end + Second

------------------------------------------------------------------------------
(* Why AdmissionsExact is inductive: a row not swept away holds the number   *)
(* of requests counted, and no request still waits to be counted in a window *)
(* that has been swept.                                                      *)
WaitingIsRecent ==
    \A s \in Slots : who[s] # None => read[s] <= now /\ now <= read[s] + Patience

RowsCount ==
    \A i \in Identities, w \in Windows :
        rows[i][w] = IF w < swept - 2 THEN 0 ELSE counted[i][w]

SweptIsPast == swept <= WindowOf(now)

IInv ==
    /\ TypeOK
    /\ WaitingIsRecent
    /\ RowsCount
    /\ SweptIsPast
    /\ AdmissionsExact
==============================================================================
