---------------------------- MODULE ReviewQueue ----------------------------
(***************************************************************************)
(* A reviewer's client walks the list of approvals that match a status,      *)
(* page by page (list_approvals in app/approvals.py, as list_pending_        *)
(* approvals in app/main.py and console_approvals in app/console_api.py      *)
(* serve it), while approvals are created, come to match and cease to.       *)
(*                                                                         *)
(* An approval is its place, from the oldest up, among those that match or    *)
(* may still come to match, in the order of (created_at, id), which is that  *)
(* of creation.  The filter names one status, so an approval matches during  *)
(* one stretch of its life at most: it is forgotten when it leaves, and the   *)
(* places above it close up.  Approvals come and go without end.             *)
(***************************************************************************)
EXTENDS Naturals, FiniteSets

CONSTANTS
    N,          \* approvals that match or may come to, at one time (bound)
    Limits,     \* values of the limit parameter
    MaxLimit    \* 200

ASSUME QueueAssumption == N \in Nat /\ Limits \subseteq Nat /\ MaxLimit \in Nat \ {0}

Approvals == 1..N

Gone == N + 1   \* the cursor of an approval that has left

VARIABLES
    stage,      \* for each place: "future", "before" or "matching"
    limit,      \* the client's limit, once it has begun
    cursor,     \* the next_cursor it was given, 0 before the first page
    state,      \* "idle", "paging" or "done"
    listed,     \* approvals it was given, of those that have not left
    repeated,   \* history: whether it was given one of them again
    stayed,     \* history: approvals that match since it began
    lost        \* history: whether a cursor's own row was not found

client == <<limit, cursor, state, listed, repeated, lost>>
vars == <<stage, limit, cursor, state, listed, repeated, stayed, lost>>

Matching == {a \in Approvals : stage[a] = "matching"}

TypeOK ==
    /\ stage \in [Approvals -> {"future", "before", "matching"}]
    /\ limit \in Nat
    /\ cursor \in 0..Gone
    /\ state \in {"idle", "paging", "done"}
    /\ listed \subseteq Approvals
    /\ stayed \subseteq Matching
    /\ repeated \in BOOLEAN /\ lost \in BOOLEAN

Init ==
    /\ stage \in [Approvals -> {"future", "before", "matching"}]
    /\ \A a, b \in Approvals : stage[a] = "future" /\ a < b => stage[b] = "future"
    /\ limit = 0
    /\ cursor = 0
    /\ state = "idle"
    /\ listed = {} /\ stayed = {}
    /\ repeated = FALSE /\ lost = FALSE

------------------------------------------------------------------------------
(* Fault: the limit is taken as it comes (PagingEnds).                       *)
LimitAsAsked(n) == n

(* max(1, min(limit, 200))                                                   *)
Clamped(n) == IF n < 1 THEN 1 ELSE IF n > MaxLimit THEN MaxLimit ELSE n

(* Fault: nothing is left once the cursor's row is not found                 *)
(* (StayingIsListed).                                                       *)
RowsIfFound(rows) == {r \in rows : cursor = 0 \/ (cursor \in rows /\ r < cursor)}

(* Fault: from the cursor's row on (RepeatsOnlyAfterLoss).                   *)
RowsFrom(rows) ==
    IF cursor \in rows THEN {r \in rows : r <= cursor} ELSE rows

(* Below the cursor's row; the whole list if the row is not in it any more.  *)
RowsLeft(rows) ==
    IF cursor \in rows THEN {r \in rows : r < cursor} ELSE rows

(* The first of them in the list's order, newest first.                      *)
Page(rows) == {r \in rows : Cardinality({x \in rows : x > r}) < limit}

Last(page) == {r \in page : \A x \in page : r <= x}

Begin(n) ==
    /\ state = "idle"
    /\ state' = "paging"
    /\ limit' = Clamped(n)
    /\ stayed' = Matching
    /\ UNCHANGED <<stage, cursor, listed, repeated, lost>>

(* list_approvals: a page, and a cursor if there is more.                    *)
Fetch ==
    LET rows == RowsLeft(Matching)
        page == Page(rows) IN
    /\ state = "paging"
    /\ IF Cardinality(rows) > limit
       THEN cursor' \in Last(page) /\ state' = state
       ELSE state' = "done" /\ cursor' = cursor
    /\ listed' = listed \cup page
    /\ repeated' = (repeated \/ listed \cap page # {})
    /\ lost' = (lost \/ (cursor # 0 /\ cursor \notin Matching))
    /\ UNCHANGED <<stage, limit, stayed>>

------------------------------------------------------------------------------
(* The queue mutates during review.                                         *)

Create(a, s) ==
    /\ stage[a] = "future" /\ \A b \in Approvals : b < a => stage[b] # "future"
    /\ stage' = [stage EXCEPT ![a] = s]
    /\ UNCHANGED <<client, stayed>>

Enter(a) ==
    /\ stage[a] = "before"
    /\ stage' = [stage EXCEPT ![a] = "matching"]
    /\ UNCHANGED <<client, stayed>>

Below(a, x) == IF x < a THEN x ELSE x - 1

Closed(a, S) == {Below(a, x) : x \in S \ {a}}

(* Decided, expired or moved on; the newer ones come one place down.         *)
Leave(a) ==
    /\ stage[a] \in {"before", "matching"}
    /\ stage' = [x \in Approvals |->
                     IF x < a THEN stage[x] ELSE IF x < N THEN stage[x + 1] ELSE "future"]
    /\ listed' = Closed(a, listed)
    /\ stayed' = Closed(a, stayed)
    /\ cursor' = IF cursor = a THEN Gone
                  ELSE IF cursor \in Approvals THEN Below(a, cursor) ELSE cursor
    /\ UNCHANGED <<limit, state, repeated, lost>>

Next ==
    \/ \E n \in Limits : Begin(n)
    \/ Fetch
    \/ \E a \in Approvals :
           \/ \E s \in {"before", "matching"} : Create(a, s)
           \/ Enter(a)
           \/ Leave(a)

Spec == Init /\ [][Next]_vars

(* A client that has begun goes on.                                         *)
FairSpec == Spec /\ WF_vars(Fetch)

------------------------------------------------------------------------------
(* An approval that matches all along is given to the client by the time it   *)
(* is told that there is no more, whatever comes, goes or moves meanwhile:    *)
(* the reason for a cursor and not an offset (API-008).                     *)
StayingIsListed == state = "done" => stayed \subseteq listed

(* A client is given an approval twice only if the row of a cursor it held    *)
(* had left the list, and the list began anew.                              *)
RepeatsOnlyAfterLoss == repeated => lost

(* A page asked for with a cursor whose row has left, which starts at the     *)
(* newest row again.                                                        *)
LosesCursor == Fetch /\ cursor # 0 /\ cursor \notin Matching

(* Paging ends, for any limit, unless cursors are lost again and again: with  *)
(* steady arrivals, a client that asks for one row at a time and whose row is *)
(* decided between every two pages never reaches the end.                    *)
PagingEnds == []<><<LosesCursor>>_vars \/ (state = "paging" ~> state = "done")

------------------------------------------------------------------------------
(* What is newer than the cursor is behind the client.                       *)
NewerIsListed == state = "paging" /\ cursor # 0 => \A a \in stayed : a >= cursor => a \in listed

OlderIsAhead == ~lost /\ state = "paging" /\ cursor # Gone =>
    \A a \in listed : cursor # 0 /\ a >= cursor

BeforePaging == state = "idle" => cursor = 0 /\ listed = {} /\ stayed = {} /\ ~repeated

IInv ==
    /\ TypeOK
    /\ BeforePaging
    /\ NewerIsListed
    /\ OlderIsAhead
    /\ StayingIsListed
    /\ RepeatsOnlyAfterLoss
==============================================================================
