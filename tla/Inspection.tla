----------------------------- MODULE Inspection -----------------------------
(***************************************************************************)
(* What an inspection of one content promises, without threads, queues or   *)
(* time: it ends once, with what every detector found except those that     *)
(* were lost, names the ones lost to a deadline, and is degraded if and     *)
(* only if one was lost.  Gateway is built on this promise.                 *)
(***************************************************************************)
CONSTANTS Runs, Applicable, Finds

VARIABLES
    begun,      \* the inspections asked for
    outcome     \* empty until an inspection ends

ivars == <<begun, outcome>>

IInit ==
    /\ begun = {}
    /\ outcome = [r \in Runs |-> <<>>]

Outcome(r, timedOut, raised) ==
    [found |-> UNION {Finds[r][d] : d \in Applicable[r] \ (timedOut \cup raised)},
     timeouts |-> timedOut,
     degraded |-> timedOut \cup raised # {}]

Outcomes(r) ==
    {Outcome(r, timedOut, raised) : timedOut, raised \in SUBSET Applicable[r]}

Begin(r) == r \notin begun /\ begun' = begun \cup {r}

End(r) ==
    /\ outcome[r] = <<>>
    /\ \E o \in Outcomes(r) : outcome' = [outcome EXCEPT ![r] = <<o>>]

(* An inspection that no detector applies to ends as it begins.              *)
INext ==
    \E r \in Runs :
        \/ Begin(r) /\ (UNCHANGED outcome \/ (Applicable[r] = {} /\ End(r)))
        \/ r \in begun /\ End(r) /\ UNCHANGED begun

InspectionSpec == IInit /\ [][INext]_ivars
==============================================================================
