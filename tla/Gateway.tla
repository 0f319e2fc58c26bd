------------------------------- MODULE Gateway -------------------------------
(***************************************************************************)
(* The chat handler (create_chat_completion in app/main.py): each request   *)
(* is inspected, judged by the policy, and denied, held for approval or     *)
(* forwarded; the upstream's answer is inspected in turn.  The handler's    *)
(* commits (the approval, the decision's audit event) are separate, and the *)
(* process may die between any two of its steps.                            *)
(*                                                                         *)
(* Between two awaits a handler runs alone, and a step here is what it does *)
(* from one await or commit to the next.  An approval goes on as            *)
(* ApprovalLifecycle says, which the engine implements (ApprovalsImpl).     *)
(*                                                                         *)
(* A body is, for each plane, the facts there are to find in it; its        *)
(* "action" facts are tool calls, declared or proposed.  An answer of the   *)
(* upstream has two such parts: its first choice, up to and including the   *)
(* first tool call, and the others, which nothing inspects.                 *)
(***************************************************************************)
EXTENDS Decision, Sequences

CONSTANTS
    Requests,
    Facts,              \* what there may be to find
    Rules,              \* the policy's rules, but for the rate limit
    Redactable,         \* the facts whose text apply_redact replaces
    RequestBodies,      \* bodies clients send
    ResponseBodies,     \* answers of the upstream
    DetectorFailureMode,    \* defaults.detector_failure_mode of the policy file
    MaxRetries,         \* _MAX_RETRIES_ON_TIMEOUT
    MaxResumeAttempts,  \* app.approvals.MAX_RESUME_ATTEMPTS
    MaxCrashes          \* bound: crashes of the process

ASSUME RulesAssumption == \A rule \in Rules : IsRule(rule)
Bodies == [Planes -> SUBSET Facts]
Replies == [first : Bodies, others : Bodies]

ASSUME BodiesAssumption == RequestBodies \subseteq Bodies /\ ResponseBodies \subseteq Replies
ASSUME BoundsAssumption ==
    MaxRetries \in Nat /\ MaxResumeAttempts \in Nat /\ MaxCrashes \in Nat

VARIABLES
    up, crashes,
    production,         \* APP_ENV is "production"
    policy,             \* AppState.policy is not None
    pc,                 \* where the request's handler is
    body,               \* the request's body, transformed once it has been
    decision,           \* of the input plane
    guarded,            \* of the output guard
    reply,              \* the upstream's answer, its first part sanitized once it has been
    attempts,           \* posts to the upstream, in provider.complete
    events,             \* audit events of type "decision"
    answer,             \* what the client gets
    phase, tries, permitted, made   \* of ApprovalLifecycle

processVars == <<up, crashes, production, policy>>
lifecycleVars == <<phase, tries, permitted, made>>
handlerVars == <<pc, body, decision, guarded, reply, attempts, events, answer>>
vars == <<processVars, handlerVars, lifecycleVars>>

L == INSTANCE ApprovalLifecycle WITH Approvals <- Requests

Empty == [plane \in Planes |-> {}]
Undecided == [verdict |-> "NONE", transformation |-> "NONE", reasons |-> {},
              hits |-> {}, degraded |-> FALSE]

Init ==
    /\ up = TRUE /\ crashes = 0
    /\ production \in BOOLEAN /\ policy \in BOOLEAN
    /\ pc = [r \in Requests |-> "new"]
    /\ body = [r \in Requests |-> Empty]
    /\ decision = [r \in Requests |-> Undecided]
    /\ guarded = [r \in Requests |-> Evaluate({}, FALSE)]
    /\ reply = [r \in Requests |-> [first |-> Empty, others |-> Empty]]
    /\ attempts = [r \in Requests |-> 0]
    /\ events = [r \in Requests |-> <<>>]
    /\ answer = [r \in Requests |-> "none"]
    /\ L!LInit

---------------------------------------------------------------------------
(* Inspection and transformation                                            *)

(* A detector that raises or misses its deadline loses what it would have    *)
(* found, if anything, and marks the inspection degraded.                    *)
Inspections(content) ==
    {i \in [missed : SUBSET UNION {content[plane] : plane \in Planes}, degraded : BOOLEAN] :
        i.missed # {} => i.degraded}

(* Findings about tool calls are evidence that no rule tests: rules see the  *)
(* tool itself.                                                              *)
Found(content, missed) ==
    [plane \in Planes |-> IF plane = "action" THEN {} ELSE content[plane] \ missed]

Candidates(content) ==
    IF content["action"] = {} THEN {{}} ELSE {{tool} : tool \in content["action"]}

(* run_input_pipeline: one evaluation for each declared tool. *)
InputDecisions == [content \in RequestBodies |->
    {Combine({Evaluate(Hits(Rules, Found(content, i.missed), tool), i.degraded) :
                  tool \in Candidates(content)}) : i \in Inspections(content)}]

(* Fault: the guard's verdict as the policy gave it.                         *)
Unclamped(d) == d

(* There is no holding an answer: it is denied.  The hits keep their verdict. *)
Clamp(d) ==
    IF d.verdict = "NEED_APPROVAL"
    THEN [d EXCEPT !.verdict = "DENY", !.transformation = "NONE"]
    ELSE d

(* run_output_guard is given the text of choices[0] and finds its first tool  *)
(* call itself, unless that scan raises.                                     *)
GuardDecisions == [content \in {answered.first : answered \in ResponseBodies} |->
    {Clamp(Evaluate(Hits(Rules, Found(content, i.missed), content["action"] \ i.missed),
                    i.degraded)) :
        i \in Inspections(content)}]

(* Only REDACT is implemented; any other transformation changes nothing.     *)
Transformed(content, transformation) ==
    [plane \in Planes |->
        IF transformation = "REDACT" /\ plane # "action"
        THEN content[plane] \ Redactable ELSE content[plane]]

---------------------------------------------------------------------------
(* The handler                                                              *)

At(r, here) == up /\ pc[r] = here
GoTo(r, there) == pc' = [pc EXCEPT ![r] = there] /\ UNCHANGED answer
Answer(r, how) ==
    /\ pc' = [pc EXCEPT ![r] = "done"]
    /\ answer' = [answer EXCEPT ![r] = how]

(* A body without messages, a rate limit, a limiter that fails in production *)
(* or no policy: the request is refused before any of it is inspected.       *)
TurnAway(r) ==
    /\ At(r, "new")
    /\ Answer(r, "failed")
    /\ UNCHANGED <<processVars, lifecycleVars, body, decision, guarded, reply, attempts, events>>

Receive(r) ==
    /\ At(r, "new") /\ policy
    /\ \E content \in RequestBodies : body' = [body EXCEPT ![r] = content]
    /\ GoTo(r, "inspecting")
    /\ UNCHANGED <<processVars, lifecycleVars, decision, guarded, reply, attempts, events>>

Transform(r, d) ==
    body' = [body EXCEPT ![r] = Transformed(body[r], d.transformation)]

Deny(r, d) ==
    /\ d.verdict = "DENY"
    /\ GoTo(r, "recording")
    /\ UNCHANGED <<processVars, lifecycleVars, body, guarded, reply, attempts, events>>

(* Fault: the body held, and previewed, is the client's.                     *)
HoldUntransformed(r, d) ==
    /\ d.verdict = "NEED_APPROVAL"
    /\ L!Submit(r)
    /\ GoTo(r, "recording")
    /\ UNCHANGED <<processVars, body, guarded, reply, attempts, events>>

(* create_approval commits before the decision is recorded.                  *)
Hold(r, d) ==
    /\ d.verdict = "NEED_APPROVAL"
    /\ Transform(r, d)
    /\ L!Submit(r)
    /\ GoTo(r, "recording")
    /\ UNCHANGED <<processVars, guarded, reply, attempts, events>>

(* Fault: whatever is not denied is forwarded.                               *)
ForwardUnlessDenied(r, d) ==
    /\ d.verdict # "DENY"
    /\ Transform(r, d)
    /\ GoTo(r, "calling")
    /\ UNCHANGED <<processVars, lifecycleVars, guarded, reply, attempts, events>>

Forward(r, d) ==
    /\ d.verdict = "ALLOW"
    /\ Transform(r, d)
    /\ GoTo(r, "calling")
    /\ UNCHANGED <<processVars, lifecycleVars, guarded, reply, attempts, events>>

(* The transformation cannot be applied: the client gets a DENY with the      *)
(* reason TRANSFORMATION_FAILED, which is not recorded.                       *)
CannotTransform(r, d) ==
    /\ d.verdict # "DENY" /\ d.transformation = "REDACT"
    /\ Answer(r, "denied")
    /\ UNCHANGED <<processVars, lifecycleVars, body, guarded, reply, attempts, events>>

(* create_approval cannot commit.                                            *)
CannotHold(r, d) ==
    /\ d.verdict = "NEED_APPROVAL"
    /\ Answer(r, "failed")
    /\ UNCHANGED <<processVars, lifecycleVars, body, guarded, reply, attempts, events>>

(* The decision of the input plane and what follows it up to the next await. *)
Inspect(r) ==
    /\ At(r, "inspecting")
    /\ \E d \in InputDecisions[body[r]] :
           /\ decision' = [decision EXCEPT ![r] = d]
           /\ \/ Deny(r, d) \/ Hold(r, d) \/ Forward(r, d)
              \/ CannotTransform(r, d) \/ CannotHold(r, d)

(* The pipeline itself raises, as on a message that is not an object.        *)
CannotInspect(r) ==
    /\ At(r, "inspecting")
    /\ Answer(r, "failed")
    /\ UNCHANGED <<processVars, lifecycleVars, body, decision, guarded, reply, attempts, events>>

(* Fault: attempts are not counted, so that timeouts are retried forever.    *)
PostUncounted(r) ==
    /\ At(r, "calling")
    /\ GoTo(r, "waiting")
    /\ UNCHANGED <<processVars, lifecycleVars, body, decision, guarded, reply, attempts, events>>

Post(r) ==
    /\ At(r, "calling")
    /\ attempts' = [attempts EXCEPT ![r] = @ + 1]
    /\ GoTo(r, "waiting")
    /\ UNCHANGED <<processVars, lifecycleVars, body, decision, guarded, reply, events>>

(* Fault: a retry goes through the inspection again.                        *)
PostTimesOutReinspecting(r) ==
    /\ At(r, "waiting")
    /\ IF attempts[r] <= MaxRetries THEN GoTo(r, "inspecting") ELSE Answer(r, "failed")
    /\ UNCHANGED <<processVars, lifecycleVars, body, decision, guarded, reply, attempts, events>>

(* Fault: one retry too many.                                                *)
PostTimesOutOnceMore(r) ==
    /\ At(r, "waiting")
    /\ IF attempts[r] <= MaxRetries + 1 THEN GoTo(r, "calling") ELSE Answer(r, "failed")
    /\ UNCHANGED <<processVars, lifecycleVars, body, decision, guarded, reply, attempts, events>>

PostTimesOut(r) ==
    /\ At(r, "waiting")
    /\ IF attempts[r] <= MaxRetries THEN GoTo(r, "calling") ELSE Answer(r, "failed")
    /\ UNCHANGED <<processVars, lifecycleVars, body, decision, guarded, reply, attempts, events>>

PostFails(r) ==
    /\ At(r, "waiting")
    /\ Answer(r, "failed")
    /\ UNCHANGED <<processVars, lifecycleVars, body, decision, guarded, reply, attempts, events>>

UpstreamAnswers(r) ==
    /\ At(r, "waiting")
    /\ \E answered \in ResponseBodies : reply' = [reply EXCEPT ![r] = answered]
    /\ GoTo(r, "guarding")
    /\ UNCHANGED <<processVars, lifecycleVars, body, decision, guarded, attempts, events>>

Guard(r) ==
    /\ At(r, "guarding")
    /\ \E d \in GuardDecisions[reply[r].first] :
           /\ guarded' = [guarded EXCEPT ![r] = d]
           /\ reply' = [reply EXCEPT ![r].first = IF d.verdict = "ALLOW"
                                                 THEN Transformed(@, d.transformation) ELSE @]
    /\ GoTo(r, "releasing")
    /\ UNCHANGED <<processVars, lifecycleVars, body, decision, attempts, events>>

(* Redaction of the answer raises, or it has no list of choices: neither is    *)
(* caught in the handler.                                                    *)
GuardFails(r) ==
    /\ At(r, "guarding")
    /\ Answer(r, "failed")
    /\ UNCHANGED <<processVars, lifecycleVars, body, decision, guarded, reply, attempts, events>>

(* The two planes' decisions as one; the guard's is neutral until it is made. *)
Overall(r) == Combine({decision[r], guarded[r]})

(* Fault: the environment makes no difference.                               *)
AuditDecisionLenient(r) ==
    /\ \/ events' = [events EXCEPT ![r] = Append(@, Overall(r).verdict)]
       \/ UNCHANGED events
    /\ GoTo(r, "answering")

(* _audit_decision commits the event, or cannot, which only production minds. *)
AuditDecision(r) ==
    \/ /\ events' = [events EXCEPT ![r] = Append(@, Overall(r).verdict)]
       /\ GoTo(r, "answering")
    \/ /\ IF production THEN Answer(r, "failed") ELSE GoTo(r, "answering")
       /\ UNCHANGED events

Record(r) ==
    /\ At(r, "recording")
    /\ AuditDecision(r)
    /\ UNCHANGED <<processVars, lifecycleVars, body, decision, guarded, reply, attempts>>

Release(r) ==
    /\ At(r, "releasing")
    /\ AuditDecision(r)
    /\ UNCHANGED <<processVars, lifecycleVars, body, decision, guarded, reply, attempts>>

(* The response is built and sent after the event's commit.  Behind the guard *)
(* whatever is not denied is released; an upstream's answer that lacks a     *)
(* field of a completion raises only here.                                   *)
Respond(r) ==
    /\ At(r, "answering")
    /\ \/ Overall(r).verdict = "DENY" /\ Answer(r, "denied")
       \/ decision[r].verdict = "NEED_APPROVAL" /\ Answer(r, "held")
       \/ /\ decision[r].verdict = "ALLOW" /\ Overall(r).verdict # "DENY"
          /\ Answer(r, "allowed") \/ Answer(r, "failed")
    /\ UNCHANGED <<processVars, lifecycleVars, body, decision, guarded, reply, attempts, events>>

Handle(r) ==
    \/ Inspect(r) \/ CannotInspect(r)
    \/ Post(r) \/ PostTimesOut(r) \/ PostFails(r) \/ UpstreamAnswers(r)
    \/ Guard(r) \/ GuardFails(r)
    \/ Record(r) \/ Release(r) \/ Respond(r)

---------------------------------------------------------------------------
(* The approvals of held requests, and the process                          *)

Engine ==
    /\ up
    /\ \/ \E r \in Requests :
              L!Review(r) \/ L!Claim(r) \/ L!Call(r) \/ L!Refuse(r) \/ L!Finish(r)
       \/ \E gone \in SUBSET Requests : L!Expire(gone)
    /\ UNCHANGED <<processVars, handlerVars>>

Crash ==
    /\ up /\ crashes < MaxCrashes
    /\ up' = FALSE /\ crashes' = crashes + 1
    /\ pc' = [r \in Requests |-> IF pc[r] = "new" THEN "new" ELSE "done"]
    /\ answer' = [r \in Requests |->
                     IF pc[r] \in {"new", "done"} THEN answer[r] ELSE "lost"]
    /\ L!Crash
    /\ UNCHANGED <<production, policy, body, decision, guarded, reply, attempts, events>>

Restart ==
    /\ ~up /\ up' = TRUE
    /\ policy' \in BOOLEAN
    /\ L!Recover
    /\ UNCHANGED <<crashes, production, handlerVars>>

Next ==
    \/ \E r \in Requests : TurnAway(r) \/ Receive(r) \/ Handle(r)
    \/ Engine
    \/ Crash \/ Restart

Spec == Init /\ [][Next]_vars

(* A handler that runs goes on: detectors have deadlines, and so does each   *)
(* post to the upstream.  Nothing makes clients ask or a process come back.  *)
FairSpec == Spec /\ \A r \in Requests : WF_vars(Handle(r))

---------------------------------------------------------------------------
(* Properties                                                               *)

DecisionRecord ==
    [verdict : Verdicts \cup {"NONE"}, transformation : Transformations,
     reasons : SUBSET {rule.reason : rule \in Rules}, hits : SUBSET Rules,
     degraded : BOOLEAN]

(* Every variable holds what the code can put there, and a request is posted *)
(* to the upstream at most 1 + _MAX_RETRIES_ON_TIMEOUT times.                *)
TypeOK ==
    /\ {up, production, policy} \subseteq BOOLEAN
    /\ crashes \in 0..MaxCrashes
    /\ pc \in [Requests -> {"new", "inspecting", "calling", "waiting", "guarding",
                            "recording", "releasing", "answering", "done"}]
    /\ body \in [Requests -> Bodies]
    /\ decision \in [Requests -> DecisionRecord]
    /\ guarded \in [Requests -> DecisionRecord]
    /\ reply \in [Requests -> Replies]
    /\ attempts \in [Requests -> 0..(MaxRetries + 1)]
    /\ events \in [Requests -> Seq(Verdicts)]
    /\ answer \in [Requests -> {"none", "failed", "denied", "held", "allowed", "lost"}]

Asks(d, transformation) == \E hit \in d.hits : hit.transformation = transformation
Text(content) == UNION {content[plane] : plane \in Planes \ {"action"}}

(* SYS-002, and both doors to the upstream at once: the handler posts only   *)
(* what the input plane allows, the approval engine calls only for what it   *)
(* asked to have approved, and no request gets through both.                 *)
UpstreamIsAuthorized ==
    \A r \in Requests :
        /\ attempts[r] > 0 => decision[r].verdict = "ALLOW" /\ made[r] = 0
        /\ made[r] > 0 => decision[r].verdict = "NEED_APPROVAL"
        /\ phase[r] # "NONE" => decision[r].verdict = "NEED_APPROVAL"

(* Whatever is on its way to the upstream, or kept for the time after an     *)
(* approval, has been redacted if its decision says so.                      *)
DepartsRedacted ==
    \A r \in Requests :
        /\ attempts[r] > 0 \/ phase[r] # "NONE"
        /\ decision[r].transformation = "REDACT"
        => Text(body[r]) \cap Redactable = {}

(* A client is given an upstream's answer only if no rule that its first     *)
(* choice was found to match asks for less than ALLOW, that choice's first   *)
(* tool call included, and with that choice redacted if one of them asks for *)
(* it and none for masking.  Nothing is promised of reply[r].others: with n  *)
(* above 1, which is forwarded, the client gets the further choices as they  *)
(* came, though SYS-003, SYS-006 (SPEC.md:38, 56) and app/main.py:861 speak  *)
(* of every response.                                                        *)
ReleasedIsGuarded ==
    \A r \in Requests : answer[r] = "allowed" =>
        /\ \A hit \in guarded[r].hits : hit.verdict = "ALLOW"
        /\ Asks(guarded[r], "REDACT") /\ ~Asks(guarded[r], "MASK")
              => Text(reply[r].first) \cap Redactable = {}

(* The audit trail and the clients' answers agree, whatever fails between    *)
(* two commits.  A request has one decision event at most, and once it has,  *)
(* the client is answered with that verdict, loses its answer in a crash, or *)
(* is failed for a field that the upstream's answer lacks.  In production    *)
(* every verdict a client gets was recorded first (section 2.15), but for    *)
(* the DENY of a transformation that could not be applied (PRV-009 has no    *)
(* such exception), whose request went nowhere.  A held request, or an event *)
(* of one, has its approval.                                                 *)
AnswersAreRecorded ==
    LET Of == [ALLOW |-> "allowed", NEED_APPROVAL |-> "held", DENY |-> "denied"] IN
    \A r \in Requests :
        /\ events[r] \in {<<>>} \cup {<<v>> : v \in Verdicts}
        /\ events[r] # <<>> =>
               \/ answer[r] \in {"none", "lost", Of[events[r][1]]}
               \/ answer[r] = "failed" /\ events[r] = <<"ALLOW">>
        /\ production /\ answer[r] \in {"allowed", "held", "denied"} /\ events[r] = <<>> =>
               /\ answer[r] = "denied" /\ attempts[r] = 0 /\ phase[r] = "NONE"
               /\ decision[r].verdict # "DENY" /\ decision[r].transformation = "REDACT"
        /\ events[r] = <<"NEED_APPROVAL">> \/ answer[r] = "held" => phase[r] # "NONE"

M == INSTANCE Mediation WITH
        MaxAsked <- MaxRetries + 1,
        judgement <- [r \in Requests |-> decision[r].verdict],
        asked <- attempts,
        outcome <- answer

(* The handler is a mediator: it judges once, asks only for what it allowed, *)
(* and ends each request once, in a way its judgement permits, whatever      *)
(* fails between its commits.                                                *)
ImplementsMediation == M!MediationSpec

(* Every request taken in is answered, or its handler dies with the process: *)
(* no failure and no series of timeouts leaves a client waiting.             *)
RequestsEnd == \A r \in Requests : pc[r] = "inspecting" ~> pc[r] = "done"

---------------------------------------------------------------------------
(* What a document says, and the code does not do.                          *)

(* POL-008 (SPEC.md:832): in fail_closed mode, a detector that failed or     *)
(* timed out means DENY.  The code never reads detector_failure_mode.        *)
FailClosedDenies ==
    DetectorFailureMode = "fail_closed" =>
        \A r \in Requests : decision[r].degraded => decision[r].verdict = "DENY"
==============================================================================
