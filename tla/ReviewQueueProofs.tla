------------------------- MODULE ReviewQueueProofs -------------------------
(***************************************************************************)
(* Paging, for any number of approvals, any limit and any mutation of the     *)
(* queue.  The argument is about the cursor c: what stays in the list and is  *)
(* newer than c has been given (NewerIsListed), and as long as no cursor was  *)
(* lost, what was given is not older than c (OlderIsAhead).  A page is the    *)
(* newest part of what is left, so its last row is the next c; a lost c only  *)
(* makes the client see more.  An approval that leaves closes up the places   *)
(* above it, which keeps the order of the others (Below).                   *)
(***************************************************************************)
EXTENDS ReviewQueue, FiniteSetTheorems, TLAPS

(* Sets of approvals are finite.                                             *)
LEMMA MatchingFinite == IsFiniteSet(Matching)
<1>1. IsFiniteSet(Approvals)
  BY FS_Interval, QueueAssumption DEF Approvals
<1>2. Matching \subseteq Approvals
  BY DEF Matching
<1> QED BY <1>1, <1>2, FS_Subset

(* A page is the newest part of its rows.                                    *)
LEMMA PageIsNewest ==
    ASSUME NEW rows \in SUBSET Approvals, IsFiniteSet(rows), limit \in Nat,
           NEW a \in rows, NEW m \in Page(rows), a >= m
    PROVE  a \in Page(rows)
<1> DEFINE Above(r) == {x \in rows : x > r}
<1>1. Above(a) \subseteq Above(m)
  <2>1. m \in rows /\ a \in Nat /\ m \in Nat /\ \A x \in rows : x \in Nat
    BY QueueAssumption DEF Page, Approvals
  <2>2. ASSUME NEW x \in rows, x > a PROVE x > m
    BY <2>1, <2>2
  <2> QED BY <2>2
<1>2. IsFiniteSet(Above(m))
  BY FS_Subset
<1>3. Cardinality(Above(a)) <= Cardinality(Above(m))
  BY <1>1, <1>2, FS_Subset
<1>4. Cardinality(Above(m)) < limit
  BY DEF Page
<1>5. Cardinality(Above(a)) \in Nat /\ Cardinality(Above(m)) \in Nat
  BY <1>1, <1>2, FS_Subset, FS_CardinalityType
<1>6. Cardinality(Above(a)) < limit
  BY <1>3, <1>4, <1>5
<1> QED BY <1>6 DEF Page

(* What is no more than the limit is one page.                               *)
LEMMA PageIsAll ==
    ASSUME NEW rows \in SUBSET Approvals, IsFiniteSet(rows), limit \in Nat,
           Cardinality(rows) <= limit
    PROVE  Page(rows) = rows
<1> SUFFICES ASSUME NEW r \in rows PROVE Cardinality({x \in rows : x > r}) < limit
  BY DEF Page
<1> DEFINE Above == {x \in rows : x > r}
<1>1. Above \subseteq rows /\ Above # rows
  BY DEF Approvals
<1>2. Cardinality(Above) <= Cardinality(rows) /\ Cardinality(Above) # Cardinality(rows)
  BY <1>1, FS_Subset
<1>3. Cardinality(Above) \in Nat /\ Cardinality(rows) \in Nat
  BY <1>1, FS_Subset, FS_CardinalityType
<1> QED BY <1>2, <1>3

------------------------------------------------------------------------------
LEMMA InitIInv == Init => IInv
<1> SUFFICES ASSUME Init PROVE IInv
  OBVIOUS
<1>1. stage \in [Approvals -> {"future", "before", "matching"}]
  BY DEF Init
<1>2. TypeOK
  <2>1. /\ limit = 0 /\ cursor = 0 /\ state = "idle" /\ lost = FALSE
        /\ listed = {} /\ repeated = FALSE /\ stayed = {}
    BY DEF Init
  <2>2. cursor \in 0..Gone
    BY <2>1, QueueAssumption DEF Gone
  <2> QED BY <1>1, <2>1, <2>2 DEF TypeOK
<1> QED BY <1>2 DEF Init, IInv, BeforePaging, NewerIsListed, OlderIsAhead,
                    StayingIsListed, RepeatsOnlyAfterLoss

LEMMA BeginKeeps == ASSUME IInv, NEW n \in Limits, Begin(n) PROVE IInv'
<1> USE DEF IInv, Begin
<1>1. Clamped(n) \in Nat
  BY QueueAssumption DEF Clamped
<1>2. TypeOK'
  BY <1>1 DEF TypeOK, Matching
<1> QED BY <1>2 DEF TypeOK, BeforePaging, NewerIsListed, OlderIsAhead,
                    StayingIsListed, RepeatsOnlyAfterLoss

LEMMA FetchKeeps == ASSUME IInv, Fetch PROVE IInv'
<1> DEFINE rows == RowsLeft(Matching)
           page == Page(rows)
<1>1. TypeOK /\ NewerIsListed /\ OlderIsAhead /\ RepeatsOnlyAfterLoss /\ state = "paging"
  BY DEF IInv, Fetch
<1>2. rows \subseteq Matching /\ rows \in SUBSET Approvals /\ IsFiniteSet(rows) /\ limit \in Nat
  BY <1>1, MatchingFinite, FS_Subset DEF RowsLeft, Matching, TypeOK
<1>3. page \subseteq rows
  BY DEF Page
<1>4. /\ listed' = listed \cup page
      /\ repeated' = (repeated \/ listed \cap page # {})
      /\ lost' = (lost \/ (cursor # 0 /\ cursor \notin Matching))
      /\ UNCHANGED <<stage, limit, stayed>>
      /\ Matching' = Matching
  BY DEF Fetch, Matching
<1>5. \/ /\ Cardinality(rows) > limit
         /\ cursor' \in Last(page) /\ state' = "paging"
      \/ /\ ~(Cardinality(rows) > limit)
         /\ cursor' = cursor /\ state' = "done"
  BY <1>1 DEF Fetch
<1>6. ASSUME state' = "paging"
      PROVE  cursor' \in page /\ \A x \in page : cursor' <= x
  BY <1>5, <1>6 DEF Last
<1>7. TypeOK'
  <2>1. cursor' \in 0..Gone
    BY <1>1, <1>2, <1>3, <1>5, <1>6, QueueAssumption DEF TypeOK, Approvals, Gone
  <2>2. listed' \subseteq Approvals
    BY <1>1, <1>2, <1>3, <1>4 DEF TypeOK
  <2>3. repeated' \in BOOLEAN /\ lost' \in BOOLEAN
    BY <1>4
  <2> QED BY <1>1, <1>4, <1>5, <2>1, <2>2, <2>3 DEF TypeOK
<1>8. ASSUME NEW a \in stayed, a \notin rows
      PROVE  a \in listed
  <2>1. a \in Matching /\ a \in Approvals
    BY <1>1 DEF TypeOK, Matching
  <2>2. cursor \in Matching /\ ~(a < cursor)
    BY <1>8, <2>1 DEF RowsLeft
  <2> QED BY <1>1, <2>1, <2>2, QueueAssumption DEF NewerIsListed, TypeOK, Approvals, Matching
<1>9. NewerIsListed'
  <2> SUFFICES ASSUME state' = "paging", NEW a \in stayed, a >= cursor'
               PROVE  a \in listed \cup page
    BY <1>4 DEF NewerIsListed
  <2>1. CASE a \in rows
    <3>1. cursor' \in Page(rows)
      BY <1>6
    <3> QED BY <2>1, <3>1, <1>2, PageIsNewest
  <2>2. CASE a \notin rows
    BY <2>2, <1>8
  <2> QED BY <2>1, <2>2
<1>10. StayingIsListed'
  <2> SUFFICES ASSUME state' = "done", NEW a \in stayed PROVE a \in listed \cup page
    BY <1>4 DEF StayingIsListed
  <2>1. Cardinality(rows) <= limit
    BY <1>2, <1>5, FS_CardinalityType
  <2>2. page = rows
    BY <1>2, <2>1, PageIsAll
  <2> QED BY <1>8, <2>2
<1>11. ASSUME ~lost' PROVE ~lost /\ \A x \in rows : cursor # 0 => x < cursor
  BY <1>1, <1>4, <1>11 DEF RowsLeft, TypeOK
<1>15. ASSUME ~lost', NEW a \in listed PROVE cursor # 0 /\ a >= cursor
  <2>1. ~lost /\ (cursor = 0 \/ cursor \in Matching)
    BY <1>4, <1>11, <1>15
  <2>2. cursor # Gone
    BY <2>1, QueueAssumption DEF Matching, Approvals, Gone
  <2> QED BY <1>1, <1>15, <2>1, <2>2 DEF OlderIsAhead
<1>12. OlderIsAhead'
  <2> SUFFICES ASSUME ~lost', state' = "paging", NEW a \in listed \cup page
               PROVE  cursor' # 0 /\ a >= cursor'
    BY <1>4 DEF OlderIsAhead
  <2>1. cursor' \in page /\ cursor' \in rows /\ cursor' \in Nat /\ cursor' # 0 /\ a \in Nat /\ cursor \in Nat
    BY <1>6, <1>3, <1>2, <1>1 DEF Approvals, TypeOK
  <2>2. CASE a \in page
    BY <2>1, <2>2, <1>6
  <2>3. CASE a \in listed
    <3>1. cursor # 0 /\ a >= cursor
      BY <1>15, <2>3
    <3> QED BY <3>1, <2>1, <1>11
  <2> QED BY <2>2, <2>3
<1>13. RepeatsOnlyAfterLoss'
  <2> SUFFICES ASSUME ~lost', NEW a \in listed, a \in page PROVE FALSE
    BY <1>1, <1>4 DEF RepeatsOnlyAfterLoss
  <2>1. cursor # 0 /\ a >= cursor
    BY <1>15
  <2>2. a < cursor
    BY <1>3, <1>11, <2>1
  <2> QED BY <2>1, <2>2, <1>1 DEF TypeOK, Approvals
<1>14. BeforePaging'
  BY <1>5 DEF BeforePaging
<1> QED BY <1>7, <1>9, <1>10, <1>12, <1>13, <1>14 DEF IInv

(* What joins the queue leaves the client and what stayed alone.             *)
LEMMA JoinKeeps ==
    ASSUME IInv, UNCHANGED <<client, stayed>>, TypeOK'
    PROVE  IInv'
  BY DEF IInv, client, TypeOK, BeforePaging, NewerIsListed, OlderIsAhead,
         StayingIsListed, RepeatsOnlyAfterLoss

(* Closing up keeps the order, and what is in a set.                         *)
LEMMA BelowKeepsOrder ==
    ASSUME NEW a \in Approvals, NEW x \in Approvals \ {a}, NEW y \in Approvals \ {a}
    PROVE  /\ Below(a, x) \in Approvals
           /\ Below(a, x) >= Below(a, y) <=> x >= y
           /\ Below(a, x) = Below(a, y) => x = y
  BY QueueAssumption DEF Below, Approvals

LEMMA ClosedSubset ==
    ASSUME NEW a, NEW S, NEW T, S \subseteq T
    PROVE  Closed(a, S) \subseteq Closed(a, T)
  BY DEF Closed

LEMMA LeaveTypes ==
    ASSUME TypeOK, NEW a \in Approvals, Leave(a)
    PROVE  TypeOK' /\ Matching' = Closed(a, Matching)
<1>1. stage' = [x \in Approvals |->
                  IF x < a THEN stage[x] ELSE IF x < N THEN stage[x + 1] ELSE "future"]
  BY DEF Leave
<1>2. \A x \in Approvals : x < N => x + 1 \in Approvals
  BY QueueAssumption DEF Approvals
<1>3. stage' \in [Approvals -> {"future", "before", "matching"}]
  BY <1>1, <1>2 DEF TypeOK
<1>4. ASSUME NEW x \in Approvals \ {a}
      PROVE  Below(a, x) \in Approvals /\ stage'[Below(a, x)] = stage[x]
  <2>1. Below(a, x) \in Approvals
    BY BelowKeepsOrder
  <2>2. CASE x < a
    <3>1. Below(a, x) = x
      BY <2>2 DEF Below
    <3> QED BY <1>1, <2>1, <2>2, <3>1
  <2>3. CASE ~(x < a)
    <3>1. Below(a, x) = x - 1 /\ ~(x - 1 < a) /\ x - 1 < N /\ (x - 1) + 1 = x
      BY <2>3, QueueAssumption DEF Below, Approvals
    <3> QED BY <1>1, <2>1, <3>1
  <2> QED BY <2>2, <2>3
<1>5. ASSUME NEW y \in Approvals, stage'[y] = "matching"
      PROVE  \E x \in Approvals \ {a} : y = Below(a, x)
  <2>1. CASE y < a
    <3>1. y \in Approvals \ {a} /\ y = Below(a, y)
      BY <2>1 DEF Below, Approvals
    <3> QED BY <3>1
  <2>2. CASE ~(y < a)
    <3>1. y < N
      BY <1>1, <1>5, <2>2
    <3>2. y + 1 \in Approvals \ {a} /\ y = Below(a, y + 1)
      BY <2>2, <3>1, QueueAssumption DEF Below, Approvals
    <3> QED BY <3>2
  <2> QED BY <2>1, <2>2
<1>6. Matching' = Closed(a, Matching)
  <2>1. ASSUME NEW y \in Matching' PROVE y \in Closed(a, Matching)
    <3>1. y \in Approvals /\ stage'[y] = "matching"
      BY DEF Matching
    <3>2. PICK x \in Approvals \ {a} : y = Below(a, x)
      BY <1>5, <3>1
    <3> QED BY <1>4, <3>1, <3>2 DEF Closed, Matching
  <2>2. ASSUME NEW y \in Closed(a, Matching) PROVE y \in Matching'
    <3>1. PICK x \in Matching \ {a} : y = Below(a, x)
      BY DEF Closed
    <3>2. x \in Approvals \ {a} /\ stage[x] = "matching"
      BY <3>1 DEF Matching
    <3> QED BY <1>4, <3>1, <3>2 DEF Matching
  <2> QED BY <2>1, <2>2
<1>7. listed' \subseteq Approvals /\ stayed' \subseteq Matching'
  <2>1. Closed(a, listed) \subseteq Approvals
    BY BelowKeepsOrder DEF Closed, TypeOK
  <2>2. Closed(a, stayed) \subseteq Closed(a, Matching)
    BY ClosedSubset DEF TypeOK
  <2> QED BY <1>6, <2>1, <2>2 DEF Leave
<1>8. cursor' \in 0..Gone
  <2>1. cursor \in Approvals \ {a} => Below(a, cursor) \in Approvals
    BY BelowKeepsOrder
  <2>2. Gone \in 0..Gone /\ \A x \in Approvals : x \in 0..Gone
    BY QueueAssumption DEF Gone, Approvals
  <2>3. CASE cursor = a
    BY <2>2, <2>3 DEF Leave
  <2>4. CASE cursor # a /\ cursor \in Approvals
    BY <2>1, <2>2, <2>4 DEF Leave
  <2>5. CASE cursor # a /\ cursor \notin Approvals
    BY <2>5 DEF Leave, TypeOK
  <2> QED BY <2>3, <2>4, <2>5
<1> QED BY <1>3, <1>6, <1>7, <1>8 DEF TypeOK, Leave

LEMMA LeaveKeeps == ASSUME IInv, NEW a \in Approvals, Leave(a) PROVE IInv'
<1>1. TypeOK /\ TypeOK'
  BY LeaveTypes DEF IInv
<1>2. /\ listed' = Closed(a, listed) /\ stayed' = Closed(a, stayed)
      /\ UNCHANGED <<limit, state, repeated, lost>>
      /\ listed \subseteq Approvals /\ stayed \subseteq Approvals
  BY <1>1 DEF Leave, TypeOK, Matching
<1>3. \/ cursor' = Gone /\ cursor # 0
      \/ cursor' = cursor /\ cursor \in {0, Gone}
      \/ cursor \in Approvals \ {a} /\ cursor' = Below(a, cursor)
  BY <1>1, QueueAssumption DEF Leave, TypeOK, Approvals, Gone
<1>4. BeforePaging'
  <2> SUFFICES ASSUME state' = "idle" PROVE BeforePaging'
    BY DEF BeforePaging
  <2>1. cursor = 0 /\ listed = {} /\ stayed = {} /\ ~repeated
    BY <1>2 DEF IInv, BeforePaging
  <2>2. cursor' = 0
    BY <1>3, <2>1 DEF Approvals
  <2> QED BY <1>2, <2>1, <2>2 DEF Closed, BeforePaging
<1>5. NewerIsListed'
  <2> SUFFICES ASSUME state' = "paging", cursor' # 0, NEW b \in stayed', b >= cursor'
               PROVE  b \in listed'
    BY DEF NewerIsListed
  <2>1. PICK x \in stayed \ {a} : b = Below(a, x)
    BY <1>2 DEF Closed
  <2>2. x \in Approvals \ {a} /\ b \in Approvals
    BY <1>2, <2>1, BelowKeepsOrder
  <2>3. cursor' # Gone
    BY <2>2, QueueAssumption DEF Approvals, Gone
  <2>4. cursor \in Approvals \ {a} /\ cursor' = Below(a, cursor)
    BY <1>3, <2>3
  <2>5. x >= cursor /\ cursor # 0
    BY <2>1, <2>2, <2>4, BelowKeepsOrder DEF Approvals
  <2>6. x \in listed
    BY <1>2, <2>1, <2>5 DEF IInv, NewerIsListed
  <2> QED BY <1>2, <2>1, <2>6 DEF Closed
<1>6. OlderIsAhead'
  <2> SUFFICES ASSUME ~lost', state' = "paging", cursor' # Gone, NEW b \in listed'
               PROVE  cursor' # 0 /\ b >= cursor'
    BY DEF OlderIsAhead, Gone
  <2>1. PICK x \in listed \ {a} : b = Below(a, x)
    BY <1>2 DEF Closed
  <2>2. cursor # Gone
    BY <1>3 , QueueAssumption DEF Approvals, Gone
  <2>3. cursor # 0 /\ x >= cursor
    BY <1>2, <2>1, <2>2 DEF IInv, OlderIsAhead
  <2>4. cursor \in Approvals \ {a} /\ cursor' = Below(a, cursor)
    BY <1>3, <2>2, <2>3
  <2>5. b >= cursor' /\ cursor' \in Approvals
    BY <1>2, <2>1, <2>3, <2>4, BelowKeepsOrder
  <2> QED BY <2>5 DEF Approvals
<1>7. StayingIsListed'
  BY <1>2, ClosedSubset DEF IInv, StayingIsListed
<1>8. RepeatsOnlyAfterLoss'
  BY <1>2 DEF IInv, RepeatsOnlyAfterLoss
<1> QED BY <1>1, <1>4, <1>5, <1>6, <1>7, <1>8 DEF IInv

LEMMA NextKeeps == IInv /\ [Next]_vars => IInv'
<1> SUFFICES ASSUME IInv, [Next]_vars PROVE IInv'
  OBVIOUS
<1>1. TypeOK
  BY DEF IInv
<1>2. CASE \E n \in Limits : Begin(n)
  BY <1>2, BeginKeeps
<1>3. CASE Fetch
  BY <1>3, FetchKeeps
<1>4. CASE \E a \in Approvals, s \in {"before", "matching"} : Create(a, s)
  <2>1. TypeOK'
    BY <1>1, <1>4 DEF Create, TypeOK, Matching, client
  <2> QED BY <1>4, <2>1, JoinKeeps DEF Create
<1>5. CASE \E a \in Approvals : Enter(a)
  <2>1. TypeOK'
    BY <1>1, <1>5 DEF Enter, TypeOK, Matching, client
  <2> QED BY <1>5, <2>1, JoinKeeps DEF Enter
<1>6. CASE \E a \in Approvals : Leave(a)
  BY <1>6, LeaveKeeps
<1>7. CASE UNCHANGED vars
  <2>1. TypeOK'
    BY <1>1, <1>7 DEF vars, TypeOK, Matching
  <2> QED BY <1>7, <2>1, JoinKeeps DEF vars, client
<1> QED BY <1>2, <1>3, <1>4, <1>5, <1>6, <1>7 DEF Next

------------------------------------------------------------------------------
(* The types of a paging client and of the queue it walks.                   *)
THEOREM TypeCorrect == Spec => []TypeOK
<1>1. IInv => TypeOK
  BY DEF IInv
<1> QED BY InitIInv, NextKeeps, <1>1, PTL DEF Spec

(* Cursor paging misses nothing that stays in the list, whatever the queue    *)
(* does between two pages (API-008).                                        *)
THEOREM PagingIsComplete == Spec => []StayingIsListed
<1>1. IInv => StayingIsListed
  BY DEF IInv
<1> QED BY InitIInv, NextKeeps, <1>1, PTL DEF Spec

(* A client that never lost its place is given nothing twice.                *)
THEOREM PagingRepeatsNothing == Spec => []RepeatsOnlyAfterLoss
<1>1. IInv => RepeatsOnlyAfterLoss
  BY DEF IInv
<1> QED BY InitIInv, NextKeeps, <1>1, PTL DEF Spec

------------------------------------------------------------------------------
(* Where the client is: a page brings it down.                               *)
Place == IF state = "done" THEN 0 ELSE IF cursor \in Matching THEN cursor ELSE Gone

PlaceOK == Place \in 0..Gone

LEMMA PlaceTyped == TypeOK => PlaceOK
  BY QueueAssumption DEF PlaceOK, TypeOK, Place, Gone, Matching, Approvals

LEMMA FetchAdvances == ASSUME TypeOK, Fetch PROVE Place' < Place
<1> DEFINE rows == RowsLeft(Matching)
<1>1. Matching' = Matching /\ state = "paging"
  BY DEF Fetch, Matching
<1>2. rows \subseteq Matching /\ Matching \subseteq Approvals
  BY DEF RowsLeft, Matching
<1>3. CASE state' = "done"
  <2>1. Place' = 0
    BY <1>3 DEF Place
  <2>2. cursor \in Matching => cursor \in Nat /\ cursor > 0
    BY <1>2 DEF Approvals
  <2>3. Place > 0
    BY <1>1, <2>2, QueueAssumption DEF Place, Gone
  <2> QED BY <2>1, <2>3
<1>4. CASE state' # "done"
  <2>1. cursor' \in rows
    BY <1>4 DEF Fetch, Last, Page
  <2>2. cursor' \in Matching /\ cursor' \in 1..N
    BY <1>2, <2>1 DEF Approvals
  <2>3. cursor \in Matching => cursor' < cursor
    BY <2>1 DEF RowsLeft
  <2>4. Place' = cursor'
    BY <1>1, <1>4, <2>2 DEF Place
  <2> QED BY <1>1, <2>2, <2>3, <2>4, QueueAssumption DEF Place, Gone
<1> QED BY <1>3, <1>4

(* The row of the client's cursor leaves the list between two pages.          *)
CursorLeaves == state = "paging" /\ cursor \in Matching /\ Leave(cursor)

LEMMA LeaveDescends ==
    ASSUME TypeOK, BeforePaging, NEW a \in Approvals, Leave(a), ~CursorLeaves
    PROVE  Place' <= Place
<1>1. TypeOK' /\ Matching' = Closed(a, Matching) /\ state' = state
  BY LeaveTypes DEF Leave
<1>2. Place \in 0..Gone /\ Place' \in 0..Gone
  <2>1. TypeOK' => PlaceOK'
    BY PlaceTyped, PTL
  <2> QED BY <1>1, <2>1, PlaceTyped DEF PlaceOK, Gone
<1>3. CASE state = "done"
  BY <1>1, <1>3, <1>2 DEF Place
<1>4. CASE state # "done" /\ cursor \notin Matching
  BY <1>1, <1>2, <1>4, QueueAssumption DEF Place, Gone
<1>5. CASE state # "done" /\ cursor \in Matching
  <2>1. cursor \in Approvals \ {a} \/ cursor = a
    BY <1>5 DEF Matching
  <2>2. Place = cursor
    BY <1>5 DEF Place
  <2>3. CASE cursor # a
    <3>1. cursor' = Below(a, cursor) /\ cursor' \in Matching'
      BY <1>1, <1>5, <2>1, <2>3 DEF Leave, Closed
    <3>2. Place' = Below(a, cursor)
      BY <1>1, <1>5, <3>1 DEF Place
    <3> QED BY <2>1, <2>2, <2>3, <3>2 DEF Below, Approvals
  <2>4. CASE cursor = a
    <3>1. state = "idle"
      BY <1>5, <2>4 DEF CursorLeaves, TypeOK
    <3> QED BY <1>5, <2>4, <3>1 DEF BeforePaging, Matching, Approvals
  <2> QED BY <2>3, <2>4
<1> QED BY <1>3, <1>4, <1>5

LEMMA OthersDescend ==
    ASSUME TypeOK,
           \/ \E n \in Limits : Begin(n)
           \/ \E a \in Approvals, s \in {"before", "matching"} : Create(a, s)
           \/ \E a \in Approvals : Enter(a)
           \/ UNCHANGED vars
    PROVE  Place' <= Place
<1>1. /\ UNCHANGED cursor /\ (state' = state \/ (state = "idle" /\ state' = "paging"))
      /\ Matching \subseteq Matching'
  <2>1. CASE \E n \in Limits : Begin(n)
    BY <2>1 DEF Begin, Matching
  <2>2. CASE \E a \in Approvals, s \in {"before", "matching"} : Create(a, s)
    BY <2>2 DEF Create, client, TypeOK, Matching
  <2>3. CASE \E a \in Approvals : Enter(a)
    BY <2>3 DEF Enter, client, TypeOK, Matching
  <2>4. CASE UNCHANGED vars
    BY <2>4 DEF vars, Matching
  <2> QED BY <2>1, <2>2, <2>3, <2>4
<1> QED BY <1>1, QueueAssumption DEF Place, TypeOK, Gone, Matching, Approvals

PagesRunOut ==
    /\ Place \in 0..Gone
    /\ Fetch => Place' < Place
    /\ Place' > Place => CursorLeaves

(* list_approvals brings a client down the list with every page, whatever its *)
(* limit and however many approvals are created or leave meanwhile; nothing   *)
(* sends it up again but the departure of its cursor's own row.  So N + 1     *)
(* pages at most lie between two such departures, or between the last and the *)
(* end.                                                                     *)
THEOREM PagesAreBounded == Spec => [][PagesRunOut]_vars
<1>1. IInv /\ IInv' /\ [Next]_vars => PagesRunOut
  <2> SUFFICES ASSUME IInv, IInv', [Next]_vars PROVE PagesRunOut
    OBVIOUS
  <2>1. TypeOK /\ TypeOK' /\ BeforePaging
    BY DEF IInv
  <2>2. Place \in 0..Gone /\ Place' \in 0..Gone
    <3>1. TypeOK' => PlaceOK'
      BY PlaceTyped, PTL
    <3> QED BY <2>1, <3>1, PlaceTyped DEF PlaceOK, Gone
  <2>3. Fetch => Place' < Place
    BY <2>1, FetchAdvances
  <2>4. Place' <= Place \/ CursorLeaves
    <3>1. CASE Fetch
      BY <2>2, <2>3, <3>1, QueueAssumption DEF Gone
    <3>2. CASE \E a \in Approvals : Leave(a)
      BY <2>1, <3>2, LeaveDescends
    <3>3. CASE ~Fetch /\ ~ \E a \in Approvals : Leave(a)
      BY <2>1, <3>3, OthersDescend DEF Next
    <3> QED BY <3>1, <3>2, <3>3
  <2> QED BY <2>2, <2>3, <2>4, QueueAssumption DEF PagesRunOut, Gone
<1> QED BY <1>1, InitIInv, NextKeeps, PTL DEF Spec
==============================================================================
