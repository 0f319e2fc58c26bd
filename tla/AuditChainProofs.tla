--------------------------- MODULE AuditChainProofs ---------------------------
(* Proofs about AuditChain, for any streams, clock and random numbers.       *)
EXTENDS AuditChain, TLAPS

(* Initially no stream has an event. *)
LEMMA Initially == Init => IInv
BY BoundsAssumption DEF Init, IInv, TypeOK, Linked, ForksAreStampedBack

(* An append keeps the rows typed and the links backward. *)
LEMMA AppendLinks ==
    ASSUME IInv, NEW s \in Streams, NEW random \in Randoms, NEW p \in 0..MaxEvents,
           AddEvent(s, random, p)
    PROVE  TypeOK' /\ Linked'
<1> DEFINE e == [milli |-> milli, random |-> random, prev |-> p]
<1>1. e \in Event
  BY RandomsAssumption DEF IInv, TypeOK, Event
<1>2. rows \in [Streams -> Seq(Event)] /\ rows' = [rows EXCEPT ![s] = Append(@, e)]
  BY DEF IInv, TypeOK, AddEvent
<1>3. TypeOK'
  BY <1>1, <1>2 DEF IInv, TypeOK, AddEvent
<1>4. p <= Len(rows[s])
  BY <1>2 DEF AddEvent, IsPrevious
<1>5. Linked'
  <2> SUFFICES ASSUME NEW t \in Streams, NEW i \in DOMAIN rows'[t]
               PROVE  rows'[t][i].prev < i
    BY DEF Linked
  <2>1. CASE t = s /\ i = Len(rows[s]) + 1
    BY <2>1, <1>2, <1>4
  <2>2. CASE ~(t = s /\ i = Len(rows[s]) + 1)
    <3>1. i \in DOMAIN rows[t] /\ rows'[t][i] = rows[t][i]
      BY <2>2, <1>1, <1>2
    <3>2. QED
      BY <3>1 DEF IInv, Linked
  <2>3. QED
    BY <2>1, <2>2
<1>6. QED
  BY <1>3, <1>5

(* An append after p, where p has a successor i already: i is not p, so the  *)
(* order of ids puts i before p.                                             *)
LEMMA AppendForks ==
    ASSUME IInv, NEW s \in Streams, NEW random \in Randoms, NEW p \in 0..MaxEvents,
           AddEvent(s, random, p)
    PROVE  ForksAreStampedBack'
<1> DEFINE e == [milli |-> milli, random |-> random, prev |-> p]
<1>1. rows \in [Streams -> Seq(Event)] /\ rows' = [rows EXCEPT ![s] = Append(@, e)]
  BY DEF IInv, TypeOK, AddEvent
<1> HIDE DEF e
<1> SUFFICES ASSUME NEW t \in Streams, NEW i \in DOMAIN rows'[t], NEW j \in DOMAIN rows'[t],
                    i < j, rows'[t][i].prev = rows'[t][j].prev
             PROVE  LET q == rows'[t][i].prev IN
                    q \in 1..(i - 1) /\ rows'[t][i].milli <= rows'[t][q].milli
  BY DEF ForksAreStampedBack
<1>2. rows[t] \in Seq(Event) /\ i \in DOMAIN rows[t] /\ rows'[t][i] = rows[t][i]
  BY <1>1
<1>typed. \A k \in DOMAIN rows[t] : rows[t][k].milli \in Nat /\ rows[t][k].prev \in Nat
  <2>1. \A k \in DOMAIN rows[t] : rows[t][k] \in Event
    BY <1>2
  <2>2. \A f \in Event : f.milli \in Nat /\ f.prev \in Nat
    BY BoundsAssumption DEF Event
  <2>3. QED
    BY <2>1, <2>2
<1>3. rows[t][i].prev \in Nat /\ rows[t][i].prev < i
  BY <1>2, <1>typed DEF IInv, Linked
<1>4. \A k \in DOMAIN rows[t] : rows'[t][k] = rows[t][k]
  BY <1>1
<1>5. CASE t = s /\ j = Len(rows[s]) + 1
  <2>1. rows'[t][j] = e
    BY <1>5, <1>1
  <2>2. rows[t][i].prev = p
    BY <1>2, <2>1 DEF e
  <2>3. p \in DOMAIN rows[t] /\ After(rows[t][p], rows[t][i])
    BY <1>2, <1>3, <1>5, <2>2 DEF AddEvent, IsPrevious
  <2>4. rows[t][p].milli \in Nat /\ rows[t][i].milli \in Nat
    BY <1>2, <1>typed, <2>3
  <2>5. rows[t][i].milli <= rows[t][p].milli
    BY <2>3, <2>4 DEF After
  <2>6. p \in 1..(i - 1)
    BY <1>2, <1>3, <2>2, <2>3
  <2>7. QED
    BY <1>2, <1>4, <2>2, <2>3, <2>5, <2>6
<1>6. CASE ~(t = s /\ j = Len(rows[s]) + 1)
  <2>1. j \in DOMAIN rows[t]
    BY <1>1, <1>6
  <2>2. /\ rows[t][i].prev \in 1..(i - 1)
        /\ rows[t][i].milli <= rows[t][rows[t][i].prev].milli
    BY <1>2, <1>4, <2>1 DEF IInv, ForksAreStampedBack
  <2>3. rows[t][i].prev \in DOMAIN rows[t]
    BY <1>2, <1>3, <2>2
  <2>4. QED
    BY <1>2, <1>4, <2>2, <2>3
<1>7. QED
  BY <1>5, <1>6

(* Every step keeps the invariant: the clock's leave the events alone. *)
LEMMA Inductive == IInv /\ [Next]_vars => IInv'
<1> SUFFICES ASSUME IInv, [Next]_vars PROVE IInv'
  OBVIOUS
<1>1. CASE Tick
  BY <1>1, BoundsAssumption DEF Tick, IInv, TypeOK, Linked, ForksAreStampedBack
<1>2. CASE SetBack
  BY <1>2, BoundsAssumption DEF SetBack, IInv, TypeOK, Linked, ForksAreStampedBack
<1>3. CASE \E s \in Streams, random \in Randoms, p \in 0..MaxEvents : AddEvent(s, random, p)
  BY <1>3, AppendLinks, AppendForks DEF IInv
<1>4. CASE UNCHANGED vars
  BY <1>4 DEF vars, IInv, TypeOK, Linked, ForksAreStampedBack
<1>5. QED
  BY <1>1, <1>2, <1>3, <1>4 DEF Next

(* DAT-005 as far as the code keeps it: in every behaviour a stream's chain  *)
(* forks only where _audit stamped an event no later than its predecessor.   *)
THEOREM ChainsForkOnlyThere == Spec => []ForksAreStampedBack
<1>1. Spec => []IInv
  BY Initially, Inductive, PTL DEF Spec
<1>2. IInv => ForksAreStampedBack
  BY DEF IInv
<1>3. QED
  BY <1>1, <1>2, PTL

------------------------------------------------------------------------------
(* A stream on which the clock has moved on between any two events.          *)
Clocked(s) == \A i, j \in DOMAIN rows[s] : i < j => rows[s][i].milli < rows[s][j].milli

Linear(s) == \A i \in DOMAIN rows[s] : rows[s][i].prev = i - 1

ClockedIsLinear == \A s \in Streams : Clocked(s) => Linear(s)

LEMMA AppendClocked ==
    ASSUME IInv, ClockedIsLinear, NEW s \in Streams, NEW random \in Randoms,
           NEW p \in 0..MaxEvents, AddEvent(s, random, p)
    PROVE  ClockedIsLinear'
<1> DEFINE e == [milli |-> milli, random |-> random, prev |-> p]
<1>1. rows \in [Streams -> Seq(Event)] /\ rows' = [rows EXCEPT ![s] = Append(@, e)]
  BY DEF IInv, TypeOK, AddEvent
<1>e. e.prev = p
  OBVIOUS
<1> HIDE DEF e
<1> SUFFICES ASSUME NEW t \in Streams, Clocked(t)', NEW i \in DOMAIN rows'[t]
             PROVE  rows'[t][i].prev = i - 1
  BY DEF ClockedIsLinear, Linear
<1>2. rows[t] \in Seq(Event) /\ rows'[t] \in {rows[t], Append(rows[t], e)}
  BY <1>1
<1>3. /\ DOMAIN rows[t] \subseteq DOMAIN rows'[t]
      /\ \A k \in DOMAIN rows[t] : rows'[t][k] = rows[t][k]
  BY <1>2
<1>4. Clocked(t) /\ Linear(t)
  <2>1. Clocked(t)
    BY <1>3 DEF Clocked
  <2>2. QED
    BY <2>1 DEF ClockedIsLinear
<1>5. CASE i \in DOMAIN rows[t]
  BY <1>3, <1>4, <1>5 DEF Linear
<1>6. CASE i \notin DOMAIN rows[t]
  <2>1. t = s /\ i = Len(rows[t]) + 1 /\ rows'[t][i] = e
    BY <1>1, <1>6
  <2>2. IsPrevious(t, p)
    BY <2>1 DEF AddEvent
  <2>3. CASE rows[t] = <<>>
    BY <2>1, <2>2, <2>3, <1>e DEF IsPrevious
  <2>4. CASE rows[t] # <<>>
    <3> DEFINE n == Len(rows[t])
    <3>1. n \in DOMAIN rows[t] /\ n \in Nat /\ p \in DOMAIN rows[t] /\ p \in Nat /\ p <= n
      BY <1>2, <2>2, <2>4 DEF IsPrevious
    <3>2. CASE p # n
      <4>1. After(rows[t][p], rows[t][n])
        BY <2>2, <2>4, <3>1, <3>2 DEF IsPrevious
      <4>2. rows[t][p].milli < rows[t][n].milli
        BY <1>4, <3>1, <3>2 DEF Clocked
      <4>3. rows[t][p] \in Event /\ rows[t][n] \in Event
        BY <1>2, <3>1
      <4>4. rows[t][p].milli \in Nat /\ rows[t][n].milli \in Nat
        BY <4>3, BoundsAssumption DEF Event
      <4>5. QED
        BY <4>1, <4>2, <4>4 DEF After
    <3>3. CASE p = n
      BY <2>1, <3>1, <3>3, <1>e
    <3>4. QED
      BY <3>2, <3>3
  <2>5. QED
    BY <2>3, <2>4
<1>7. QED
  BY <1>5, <1>6

(* DAT-005, the other way round: where the millisecond has changed between    *)
(* any two events of a stream, whatever corrections the clock has seen, each *)
(* event of _audit follows the one committed before it, and the chain leads  *)
(* from the last event over all the others to the genesis hash.              *)
THEOREM ClockedChainsAreLinear == Spec => []ClockedIsLinear
<1>1. Init => ClockedIsLinear
  BY DEF Init, ClockedIsLinear, Linear
<1>2. IInv /\ ClockedIsLinear /\ [Next]_vars => ClockedIsLinear'
  <2> SUFFICES ASSUME IInv, ClockedIsLinear, [Next]_vars PROVE ClockedIsLinear'
    OBVIOUS
  <2>1. CASE UNCHANGED rows
    BY <2>1 DEF ClockedIsLinear, Clocked, Linear
  <2>2. CASE \E s \in Streams, random \in Randoms, p \in 0..MaxEvents : AddEvent(s, random, p)
    BY <2>2, AppendClocked
  <2>3. QED
    BY <2>1, <2>2 DEF Next, Tick, SetBack, vars
<1>3. QED
  BY Initially, Inductive, <1>1, <1>2, PTL DEF Spec
==============================================================================
