----------------------------- MODULE AuditChain -----------------------------
(***************************************************************************)
(* The hash chains of audit_events: one stream of events for each approval  *)
(* (_audit in app/approvals.py).  The previous event of a stream is the one *)
(* with the greatest id, and an id is the wall clock's millisecond followed *)
(* by a random number (app/ids.py).  record_decision_event (app/audit.py)   *)
(* does the same for a transaction's stream, which has that one event only. *)
(*                                                                         *)
(* A hash stands for the event it was computed for, so an event refers to   *)
(* its predecessor by that one's place in the stream, 0 for the genesis     *)
(* hash.                                                                    *)
(***************************************************************************)
EXTENDS Integers, Sequences

CONSTANTS
    Streams,        \* the approvals
    Randoms,        \* the random parts of ids
    LastMilli,      \* bound: the clock stops here
    MaxEvents,      \* bound: events in a stream
    MaxSetBacks     \* bound: corrections of the wall clock to an earlier time

ASSUME RandomsAssumption == Randoms \subseteq Nat
ASSUME BoundsAssumption == LastMilli \in Nat /\ MaxEvents \in Nat /\ MaxSetBacks \in Nat

VARIABLES
    milli,          \* int(time.time() * 1000)
    setBacks,
    rows            \* the events of each stream, in the order of their commits

vars == <<milli, setBacks, rows>>

Event == [milli : 0..LastMilli, random : Randoms, prev : Nat]

TypeOK ==
    /\ milli \in 0..LastMilli
    /\ setBacks \in 0..MaxSetBacks
    /\ rows \in [Streams -> Seq(Event)]

Init ==
    /\ milli = 0
    /\ setBacks = 0
    /\ rows = [s \in Streams |-> <<>>]

Tick ==
    /\ milli < LastMilli
    /\ milli' = milli + 1
    /\ UNCHANGED <<setBacks, rows>>

SetBack ==
    /\ setBacks < MaxSetBacks
    /\ \E earlier \in 0..(milli - 1) : milli' = earlier
    /\ setBacks' = setBacks + 1
    /\ UNCHANGED rows

(* Fault: ids without their time part (ForksAreStampedBack).                 *)
AfterAtRandom(e, f) == e.random > f.random

(* The order of ids as strings. *)
After(e, f) ==
    \/ e.milli > f.milli
    \/ e.milli = f.milli /\ e.random > f.random

(* ORDER BY id DESC, first row; the genesis hash for an empty stream. *)
IsPrevious(s, p) ==
    IF rows[s] = <<>>
    THEN p = 0
    ELSE /\ p \in DOMAIN rows[s]
         /\ \A i \in DOMAIN rows[s] \ {p} : After(rows[s][p], rows[s][i])

(* Ids are unique: two random parts of the same millisecond differ. *)
AddEvent(s, random, p) ==
    /\ Len(rows[s]) < MaxEvents
    /\ \A i \in DOMAIN rows[s] : rows[s][i].milli = milli => rows[s][i].random # random
    /\ IsPrevious(s, p)
    /\ rows' = [rows EXCEPT ![s] =
                   Append(@, [milli |-> milli, random |-> random, prev |-> p])]
    /\ UNCHANGED <<milli, setBacks>>

Next ==
    \/ Tick
    \/ SetBack
    \/ \E s \in Streams, random \in Randoms, p \in 0..MaxEvents : AddEvent(s, random, p)

Spec == Init /\ [][Next]_vars

------------------------------------------------------------------------------
(* Where a chain may fork: only after an event p whose first successor i got *)
(* an id of the same millisecond or, the clock having been set back, of an   *)
(* earlier one.  Otherwise every event has at most one successor.            *)
ForksAreStampedBack ==
    \A s \in Streams : \A i, j \in DOMAIN rows[s] :
        i < j /\ rows[s][i].prev = rows[s][j].prev =>
            LET p == rows[s][i].prev IN
            /\ p \in 1..(i - 1)
            /\ rows[s][i].milli <= rows[s][p].milli

(* Why it is so: an event refers to an earlier one.                          *)
Linked ==
    \A s \in Streams : \A i \in DOMAIN rows[s] : rows[s][i].prev < i

IInv == TypeOK /\ Linked /\ ForksAreStampedBack
==============================================================================
