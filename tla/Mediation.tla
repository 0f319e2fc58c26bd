------------------------------ MODULE Mediation ------------------------------
(***************************************************************************)
(* What the gateway promises of each request, without rules, findings,      *)
(* databases or failures: it is judged once, only a request judged ALLOW    *)
(* makes the gateway ask the upstream, a bounded number of times, and a     *)
(* request ends once, in a way its judgement permits.                       *)
(***************************************************************************)
EXTENDS Naturals

CONSTANTS Requests, MaxAsked

VARIABLES
    judgement,  \* "NONE" until judged
    asked,      \* calls of the upstream
    outcome     \* "none" until the request ends

mvars == <<judgement, asked, outcome>>

MInit ==
    /\ judgement = [r \in Requests |-> "NONE"]
    /\ asked = [r \in Requests |-> 0]
    /\ outcome = [r \in Requests |-> "none"]

Judge(r) ==
    /\ outcome[r] = "none" /\ judgement[r] = "NONE"
    /\ \E verdict \in {"ALLOW", "NEED_APPROVAL", "DENY"} :
           judgement' = [judgement EXCEPT ![r] = verdict]

Ask(r) ==
    /\ outcome[r] = "none" /\ judgement[r] = "ALLOW"
    /\ asked[r] < MaxAsked
    /\ asked' = [asked EXCEPT ![r] = @ + 1]
    /\ UNCHANGED <<judgement, outcome>>

End(r, how) == outcome[r] = "none" /\ outcome' = [outcome EXCEPT ![r] = how]

(* An answered request was allowed and asked for, a held one was to be held, *)
(* and the upstream's answer can be denied as the request can.               *)
Answer(r) ==
    /\ \/ End(r, "allowed") /\ judgement[r] = "ALLOW" /\ asked[r] > 0
       \/ End(r, "held") /\ judgement[r] = "NEED_APPROVAL"
       \/ End(r, "denied") /\ (judgement[r] = "DENY" \/ asked[r] > 0)
    /\ UNCHANGED <<judgement, asked>>

(* A failure ends a request at any time, the moment of its judgement too; a  *)
(* judgement that cannot be carried out is answered as a denial.             *)
Fail(r) ==
    /\ \/ End(r, "failed") /\ (Judge(r) \/ UNCHANGED judgement)
       \/ End(r, "denied") /\ Judge(r)
    /\ UNCHANGED asked

Lose(gone) ==
    /\ \A r \in gone : outcome[r] = "none"
    /\ outcome' = [r \in Requests |-> IF r \in gone THEN "lost" ELSE outcome[r]]
    /\ UNCHANGED <<judgement, asked>>

MNext ==
    \/ \E r \in Requests :
           \/ Judge(r) /\ UNCHANGED <<asked, outcome>>
           \/ Ask(r) \/ Answer(r) \/ Fail(r)
    \/ \E gone \in SUBSET Requests : Lose(gone)

MediationSpec == MInit /\ [][MNext]_mvars
==============================================================================
