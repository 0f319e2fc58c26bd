# A TLA+ development of real-guard-v1

real-guard-v1 is a gateway that stands between clients and an OpenAI-compatible
upstream. It inspects every chat request, decides ALLOW, DENY or NEED_APPROVAL,
holds what needs approval until a reviewer decides, and inspects the upstream's
answer before it delivers it. This directory models the parts of it whose
correctness depends on order, interleaving, failure or time, checks them with
TLC on small instances, and proves the central results with TLAPS for every
instance.

## 1. Inventory

The whole gateway is one uvicorn process with one event loop over one SQLite
file (SPEC.md DEP-007 and ADR 0004 admit one instance only). Handlers are
`async`; the database calls in them block. Two handlers therefore interleave
at awaits (the upstream call, the detector threads), and a restart may come
between any two transactions. Every write goes through `immediate_transaction`
(`app/db.py:204-231`), a BEGIN IMMEDIATE transaction that rolls back on any
exception. The models use that as their only assumption of atomicity and let
everything else interleave.

| Component | State it keeps | Operations | Hard part |
|---|---|---|---|
| approval engine (`app/approvals.py`) | approval, transaction, decision and audit rows | create, sweep, decide, claim, resume, reconcile | concurrent requests, crash between claim and end, deadlines read early, retried keys |
| approval metrics (`app/metrics.py`) | counters in memory | incremented from answers | drift from the rows |
| rate limiter (`app/ratelimit.py`) | one row for an identity and window | check | window boundary, late writes, Retry-After |
| audit chain (`app/approvals.py:118`, `app/audit.py`) | hash-chained events | append | which event counts as the last one |
| detector orchestrator (`app/orchestrator.py`) | threads of the default pool | run all detectors with a deadline each | timed-out scans keep their threads |
| decision engine (`app/decision.py`, `app/risk.py`) | none | evaluate rules, combine planes | precedence of verdicts and transformations |
| transformation (`app/transform.py`) | none | redact spans | overlapping spans |
| pipeline, normalizer | none | normalise, decode, run the input planes | bounds of repeated decoding |
| output guard (`app/outputguard.py`) | none | inspect the upstream's answer | runs on two paths, ALLOW and resume |
| chat handler (`app/main.py:620`) | none of its own | rate limit, pipeline, verdict, audit, upstream, output guard | an error after something was committed |
| identity, sessions, CSRF (`app/auth.py`, `app/session.py`) | none: signed cookies in browsers | login, verify | a cookie shared by tabs, expiry, restarts with other keys or secrets |
| dashboard and console API | none of their own | login, list, decide, stats | the same engine through two more doors; a queue that changes while it is paged |
| console SPA (`web/`) | session, rows, dialogs | load, decide, sign in | answers that arrive out of order |
| providers (`app/providers/`) | none | complete, preflight | timeouts and retries |
| startup (`app/main.py:154`) | AppState | reconcile, load policy | order, a policy that does not load |
| detectors, schemas, logging, config, scripts | none | text and files | data rather than control |

How they interact: the chat handler calls the limiter, the pipeline (which runs
the orchestrator), the decision engine and then, by verdict, the approval
engine (`create_approval`) or the provider and the output guard. Reviewers reach
`decide_and_resume` by the API, the dashboard or the console; it sweeps, decides
and resumes in three transactions, with the upstream call and the output guard
between the second and the last. Every approval-reading route sweeps first.
Startup reconciles what a crash left RESUMING.

What makes them correct:

* engine: no upstream call without one approval by somebody else than the
  creator; at most one request works on an approval; the calls are bounded over
  crashes; every change of state is one the diagram draws; the audit trail
  explains the row; a key decides once; nothing waits for ever.
* metrics: a counter moves with the rows it counts, and drifts in known ways only.
* limiter: a window never admits more than its limit; obeying Retry-After helps.
* audit chain: an approval's events form one chain.
* orchestrator: one slow detector does not disturb the others while there is a
  thread for each; an inspection ends, with everything that was not lost.
* decision: the most severe verdict wins, and its transformation is not lost.
* redaction and normaliser: exactly what was found is replaced, whatever overlaps;
  every layer down to the depth is seen, whatever raises.
* sessions: only somebody with a reviewer's key decides, and under the name the
  page showed; a tab lets go of a good session only for a reason.
* review queue: what stays in the queue is seen by whoever pages through it, and
  paging ends for whoever keeps a place in it.

`PROJECT.json` lists the hazards one by one with the line where each bites.

## 2. Plan

The most important behaviour first. All the stages are in this directory.

| Stage | Modules | What they show |
|---|---|---|
| 1 | `Approvals`, `ApprovalLifecycle`, `ApprovalsImpl`, `ApprovalMetrics`, `ApprovalsProofs` | the engine with its requests, crashes and deadlines implements the lifecycle; counters move with the rows, and where they drift |
| 2 | `RateLimiter`, `RateLimiterProofs` | exact admission for late requests, swept table, useful Retry-After |
| 3 | `AuditChain`, `AuditChainProofs` | where an event chain can fork |
| 4 | `Gateway` and the abstract `Mediation` it implements, `GatewayProofs` | what reaches the upstream and the client is authorised, redacted and recorded; what a failure between two commits leaves behind |
| 5 | `Decision` (rules and their combination; pure), proved in `GatewayProofs` | verdict precedence; which transformation survives |
| 6 | `Orchestrator` and the abstract `Inspection` it implements, `OrchestratorProofs` | a slow detector disturbs nobody until the pool is full; inspections end |
| 7 | `Redaction`, `Normalizer`, `TextProofs` | overlapping spans; repeated decoding |
| 8 | `Identity`, `Sessions`, `SessionsProofs` | who decides, over three doors, tabs that share a cookie, lost and late answers, restarts |
| 9 | `ReviewQueue`, `ReviewQueueProofs` | paging through a queue that changes |

Which module uses which: `Approvals` implements `ApprovalLifecycle` (through
`ApprovalsImpl`), and `Gateway` continues a held request by the actions of
`ApprovalLifecycle`, so the two meet at the abstract specification. `Gateway`
extends `Decision` and implements `Mediation`. `Orchestrator` implements
`Inspection`, whose outcome, everything but what was lost, is what `Gateway`
draws its findings from. `Sessions` extends `Identity`; the engine's answer to
its decisions is any of those `Approvals` shows. `ApprovalMetrics` extends
`Approvals` with the counters.

What would come next: the rows a console page keeps.

Runs are kept at one to three of each actor: every hazard listed needs at most two
requests, one restart and one deadline to show, the thread pool three runs.

## 3. The approval engine

### State

| Variable of `Approvals` | In the code |
|---|---|
| `state`, `attempts`, `creator`, `result` | columns of `ApprovalRow`; "NONE" before the row exists |
| `elapsed` | `expires_at <= now`, which only ever becomes true |
| `intact` | the stored payload still hashes to `material_args_hash` |
| `status` | `TransactionRow.status`, what a polling client reads |
| `decisions`, `audit` | the rows of `approval_decisions` and of the approval's `audit_events`, the latter as the transitions they record |
| `up`, `policy` | the process runs; `AppState.policy is not None` |
| `pc`, `target`, `form`, `late`, `copy` | where a request in progress is, its arguments, and what it read before its next await or lock |
| `calls` | calls of `provider.complete` made for an approval, ever (the world outside) |

The database outlives a crash; the request's variables do not. `late` is the
important one: `decide_approval` and `resume_approved` read the clock before
BEGIN IMMEDIATE, so `ClockReadings` lets a deadline be judged by the reading at
the function's entry or by any later one.

### Actions

| Action | Code |
|---|---|
| `CreateApproval` | `create_approval` |
| `Poll` | the routes that sweep before they read |
| `ReceiveDecision` | the sweep at the start of `decide_and_resume` |
| `DecideWithoutEffect`, `DecideDeny`, `DecideApprove` | `decide_approval` (replayed key, conflict, not found, self-decision, missing note, expired; a denial; an approval), and the hand-over to the resume or, without a policy, the end |
| `ClaimNotEligible`, `ClaimExpires`, `Claim` | the first transaction of `resume_approved` |
| `ArgumentsChanged`, `CallUpstream`, `UpstreamFails`, `OutputGuardDenies`, `Complete` | what follows the claim |
| `StartResume` | a direct call of `resume_approved`, as the concurrency tests make (`Workers`) |
| `Crash`, `Startup(loaded)` | the process dies; `AppState.__init__` reconciles and then loads a policy or does not |
| `TTLElapses`, `PayloadAltered` | the clock; a write to the row that bypasses the engine |

`Move` has no guard for `ALLOWED_TRANSITIONS`: that the code's `raise` is never
reached is a result (`OnlyDrawnTransitions`), not an assumption.

A definition whose comment begins with "Fault:" is never part of a
specification. It is a plausible mistake in the definition that follows it,
kept to show that the property it names notices it.

### Runs

| Run | Instance | What it shows |
|---|---|---|
| `approval_safety` (`MCApprovals.cfg`) | one approval, two decision requests, one direct resumer, a creator who is also a reviewer, two keys, two attempts, two crashes | exclusive claims, bounded calls, decision rows and audit trail that explain the row, polled status, only drawn edges, refinement of `ApprovalLifecycle` |
| `approval_liveness` (`MCApprovalsLive.cfg`) | one approval, two requests, two crashes, under `FairSpec` | every approval comes to rest; what a crash leaves RESUMING reaches a terminal state; with decisions as the only resumers no approval is claimed twice |
| `approval_metrics` (`MCApprovalMetrics.cfg`) | two approvals, two decision requests with one shared key, one crash, one attempt | every counter moves with the rows, the FAILED of a startup included, but for the drift that `MovesAreCounted` names; a key decides once, over both approvals |

Why the bounds are enough: the engine treats approvals independently except for
the key, so one approval with two rivals is the interesting case, and two
approvals the one for keys. Two attempts and two crashes reach both arms of the
reconciliation and the refusal of a third. A third handler adds only a third
loser of the same claim. `MaxCount` of the metrics run stops a behaviour that is
unbounded in the code: each decision sent to an expired approval counts again, and
so does each creation or sweep that cannot be committed.

`create_approval` and the sweeps increment inside their transaction, before
COMMIT. A step of `ApprovalMetrics` that succeeds is count and commit together,
since nothing awaits in between; `CreateFails` and `SweepFails` are the ones that
do not commit. What is counted from an answer (`decide_and_resume`) follows the
commit it is about.

CHECK_DEADLOCK is off where a bound ends the behaviours (the metrics counters,
the clocks of the limiter and of the audit chain); in the engine's own runs it
is on: an engine that is up can always be polled.

### Fairness

`FairSpec` assumes that a request in progress is run on by the event loop to its
next await, that the provider's answer or time-out comes (httpx has a time-out on
every call), that time passes, that some approval-reading route is polled (a
client that was told NEED_APPROVAL is given a `poll_url`, and the sweep has no
other trigger), and that the container is restarted after a crash. It does not
assume that a reviewer decides, that a policy loads or that a crash never comes.

### Seen beside the runs

* A row reconciled to APPROVED after a crash "for retry" (SPEC.md:1210) is retried
  by nobody; it waits for its deadline (`EventuallyAtRest` is what remains true).
* A resume whose provider call raises leaves the row RESUMING until a restart
  picks it up, if there is one (`CrashStrandsNothing`), where SPEC.md 2.14 has it
  end FAILED.
* The claim leaves `TransactionRow.status` at APPROVED although `app/db.py:62` says
  it mirrors the approval's state (`PollsAgreeWithRow` states exactly how far it
  lags).
* Counters drift, and `MovesAreCounted` says exactly how. Upward, with no row moved
  (`CountedInVain`): EXPIRED is incremented for every answer APPROVAL_EXPIRED, also
  for a row that was EXPIRED before and for one whose move was rolled back, where
  `app/approvals.py:365` says it was flipped just now; a creation that cannot be
  committed has counted a PENDING that does not exist, and a sweep that cannot be
  has counted rows that are still PENDING. In one step EXPIRED never gains more
  than there are rows past their deadline. Downward (`ExpiredByClaim`): an approval that expires at its claim
  is not counted, nor as an avoided call, and one given up at startup is an avoided
  call though its call may have been made.
* `request_count` of `rate_limit_state` counts refused requests too, where
  `app/db.py:143` says admitted.

### Proofs

`ApprovalsProofs` holds for any sets of approvals,
requests, creators, reviewers and keys and any numbers of attempts and crashes,
under four assumptions: attempts are at least 1, crashes are counted by a
natural number, `None` is no approval or key, and a request is either a decision
or a direct resume.

* `TypeCorrect`. The type invariant needs one fact beside `TypeOK`: a request in
  progress has a target, and in the decision step a form (`RequestsWellFormed`).
* `ExclusiveClaims`, `BoundedCalls`, `PollsAgree` follow from the inductive
  invariant `IInv`. None of the three is inductive alone. Exclusiveness needs to
  know that a row RESUMING cannot be claimed again, and the state returns to
  APPROVED only when no request is in progress (a down gateway has none).
  `calls <= attempts` needs `AttemptsInStep`: a claim whose call is still due is
  one attempt ahead. `attempts <= MaxResumeAttempts` needs that an APPROVED row
  has an attempt left, which the reconciliation's comparison establishes. A
  COMPLETED row's call is remembered from the moment it was made.
* `DrawnTransitions`, the action property, from the same invariant: each action
  gives each row one edge of the diagram or none.
* `KeysOnce`: a step adds at most one client row, and only under a fresh key; the
  row a resume adds has no key.
* `EngineImplementsLifecycle`: under `phase <- state`, `tries <- attempts`,
  `made <- calls` and `permitted <- Permitted` each step is a step of
  `ApprovalLifecycle` or a stutter. `Permitted` is not a variable of the engine:
  a request between claim and call is the permission. That it is gained by the
  claim alone, and lost by the call, a refusal and a crash, is where exclusive
  claims are used.

* `DecisionsExplain`, from `IInv`: per approval, a row without a new decision stays
  explained over an edge that asks for none (`ExplainedKept`), a reviewer's row
  explains APPROVED or DENIED (`ReviewExplains`), the worker's own row a denial
  after the approval (`RefusalExplains`). That a denied call was never made uses
  that only a RESUMING row is called for.
* `ClaimedOnce` proves `ResumedOnce`. The extra invariant `OnceInv`: a request on
  its way to its claim is the one that approved the row, which was never claimed;
  a crash leaves no such request, so a row reconciled to APPROVED is not claimed.
* `AuditReplays`: every step moves a row and appends its event, or leaves both
  (`RecordedStep`), and an event from the trail's end keeps it replaying, its
  claims counted (`EntryReplays`).

* `TrailsAreBounded` bounds the safety half of coming to rest: an approval has
  `2 * MaxResumeAttempts + 2` audit events at most. A claim and the way back from it
  are two moves for each attempt; creation and the approval are the other two.
* `MeteringIsPassive`: `ApprovalMetrics` only adds counters, so that everything above
  holds of the metered engine. On it rests `MovesCounted`, which proves
  `MovesAreCounted` for any number of rows. A counter moves by the difference of
  two cardinalities, so its invariant `CountersOK` says that there are finitely many
  rows; then each move is one row more in one state (`OneMoreRow`), a sweep counts
  the rows it takes away and a startup those it gives up. What is counted in vain is
  of rows past their deadline because no row is EXPIRED before it
  (`DeadlinesPassed`, an invariant of the engine).

Model-checked only: liveness, which the proof system does not reach.

## 4. The rate limiter

`RateLimiter` splits a chat request's check where the code does: the clock is
read and the window computed (`Receive`), and later, with the write lock, the
sweep, the increment and the comparison are one transaction (`CheckRateLimit`).
Ticks, other requests and ends of windows come in between. `LimiterFails` is the
exception path of the handler. `rows` is `rate_limit_state`; `counted`,
`admitted`, `swept` and `advice` are history.

The clock ticks; a window is named by its number, a second is `Second` ticks, so
that a request can arrive within a second and Retry-After has something to round.
`Patience` is how long a transaction waits for the lock: sqlite3 gives up after
five seconds by default, against a default window of 60. `PatienceAssumption` asks
for at most two windows. It is needed: with a window of one or two seconds, which
the settings permit, a late request could find its row swept away and be counted
from 1 again. A wall clock that is set back is not modelled here.

* `rate_limiter` (`MCRateLimiter.cfg`): two identities, two requests at a time, a
  limit of 2, five requests, over four windows and the first ticks of a fifth.
  Lateness of up to two windows, both sides of the limit and rows old enough to
  be swept all occur. `AdmissionsExact` says that of the requests counted in a
  window exactly the first `Limit` are admitted; `RowsAreSwept` bounds the table;
  `RetryAfterLeavesTheWindow` that obeying the answer helps and costs at most a
  second.

Proved in `RateLimiterProofs`, for any limit, window, resolution and patience
within the assumptions: `AdmissionsAreExact`, `TableIsSwept`,
`RetryAfterSuffices`. The invariant `IInv` relates the table to the history: a
row not yet swept holds the number counted, a swept one nothing
(`RowsCount`), and no request still waiting belongs to a swept window, because
it has waited at most two windows (`WaitingIsRecent`, `SweptIsPast`). The
arithmetic of `\div` is in the first lemmas. `TableHoldsThreeWindows` bounds the
table from the other side as well: nobody counts in a window that has not been
swept for (`CountedIsSwept`), so the rows left are those of the last window swept
for and the two before it.

## 5. The audit chain

`AuditChain` models the one thing about hash chaining that can go wrong: which
event `_audit` takes for the last one. It asks for the greatest id, and an id is
a millisecond and a random number. Events are referred to by their place in the
stream, which stands for their hash. `Tick` and `SetBack` are the wall clock. A
transaction's own decision event (`record_decision_event`) selects its
predecessor the same way but is the only one of its stream.

* `audit_chain` (`MCAuditChain.cfg`): two streams of up to four events, three
  milliseconds, two random parts, one correction of the clock. Four events are
  enough for a fork and for a chain that goes on from either branch.
  `ForksAreStampedBack` says where a fork can be: only after an event whose first
  successor was stamped in the same millisecond or an earlier one.

DAT-005 (SPEC.md:1271) asks for a per-stream chain: with no correction of the clock
at all, two events in one millisecond can make it fork, which is the case
`ForksAreStampedBack` leaves.

`AuditChainProofs` proves `ChainsForkOnlyThere` for every instance. The
strengthening is `Linked`, that events refer backwards: it makes the fork's first
successor an event other than the one chosen as the last, so the order of ids
applies to the two. `ClockedChainsAreLinear` is the case in which DAT-005 does hold:
where the millisecond moves on between any two events of a stream, each event
follows the one before it and the whole stream is one chain.

## 6. The gateway

`Gateway` is the chat handler. It composes `Decision`, the policy's pure part,
with the handler's steps, and continues a held request by the actions of
`ApprovalLifecycle`: the engine implements that lifecycle (section 3), so its
detail need not be repeated here.

### State

| Variable of `Gateway` | In the code |
|---|---|
| `pc` | where the handler is: between which two awaits or commits |
| `body`, `decision` | the request and the input plane's decision; `body` is replaced by the transformed one |
| `reply`, `guarded` | the upstream's answer, in two parts: `first`, its first choice up to the first tool call, and `others`, every further choice and tool call; and the output guard's decision |
| `attempts` | posts made by the retry loop of `provider.complete` |
| `events` | the transaction's audit events of type "decision", as their verdicts |
| `answer` | what the client got: 200, 403 or 202 with a verdict, an error ("failed"), or a broken connection ("lost") |
| `production`, `policy`, `up`, `crashes` | APP_ENV, whether a policy is loaded, the process |
| `phase`, `tries`, `permitted`, `made` | the approval of a held request, as `ApprovalLifecycle` has it |

A body is, for each plane, the set of facts there are to find in it. Text is
abstracted to that: a rule's condition is the set of conjunctions of facts that
satisfy it, a redaction removes the redactable facts of text, a detector that
fails loses facts. Facts of the action plane are tools; each declared tool is
evaluated on its own and the decisions combined (`Candidates`, `Combine`). Of an
answer the guard is given `first` alone, and redaction changes `first` alone, as
`app/main.py:872-877`, `app/main.py:970-977` and `app/outputguard.py:66-89` do.
Findings about tools are evidence
that no rule tests, as `app/pipeline.py:145` says; rules test the tool itself.

### Actions

| Action | Code |
|---|---|
| `TurnAway` | the refusals before inspection: no messages, rate limit, failed limiter in production, no policy |
| `Receive` | the request is taken into the pipeline |
| `Inspect` with `Deny`, `Hold`, `Forward`, `CannotTransform`, `CannotHold` | the decision and the branch by verdict, up to the first commit or await; a redaction that raises is answered with DENY and nothing else, a `create_approval` that raises with an error |
| `CannotInspect` | the pipeline itself raises |
| `Post`, `PostTimesOut`, `PostFails`, `UpstreamAnswers` | the retry loop of `OpenAICompatibleProvider.complete` |
| `Guard`, `GuardFails` | `run_output_guard` with its clamp, and redaction of the answer |
| `Record` | the audit event of the DENY and NEED_APPROVAL branches |
| `Release` | the combined decision and its audit event, after the output guard |
| `Respond` | the response is built and reaches the client, after the event's commit |
| `Engine` | what the approval engine does with held requests |
| `Crash`, `Restart` | the process |

`AuditDecision` is where an audit write may fail: a production gateway answers an
error, any other answers as if nothing had happened. It leaves the handler at
"answering", so that a crash there leaves an event whose client got nothing.

### Runs

The instance of both runs: two requests, one retry, one resume attempt, one crash.
The six rules of `MCGateway` have each verdict, with and without redaction, on
the input, context, response and action planes, with a conjunction of a finding
and a tool. Two request bodies and two answers make several rules match at once,
on one plane and through two declared tools, or none at all; one answer has a
further choice with something to find in it. What is lost by a failing detector
ranges over all subsets, so every smaller body occurs too.

Why two requests: handlers share only the process and the approval engine's
crash and sweep, which a second request is enough to exercise; one retry shows
both arms of the retry loop.

| Run | What it shows |
|---|---|
| `gateway` | `UpstreamIsAuthorized`: neither door to the upstream opens without its verdict, and no request goes through both. `DepartsRedacted`: what leaves, or is kept for later, was redacted if its decision says so. `ReleasedIsGuarded`: the first choice of an answer that reaches a client matched no rule that asks for less than ALLOW, though nothing can be held there. `AnswersAreRecorded`: no verdict is recorded twice, or as another than the client is given; in production none is given unrecorded but one (below). `ImplementsMediation`: the whole handler is a mediator. `RequestsEnd`: every handler ends |
| `fail_closed_denies` | SPEC.md POL-008: in `fail_closed` mode a degraded inspection means DENY; the code reads `detector_failure_mode` nowhere, so the constant of that name is used by no action |

`DepartsRedacted` is about the decision's own transformation. The redaction an
ALLOW rule asks for is dropped when another rule holds the request, so its preview
can show what TRN-006 (SPEC.md:1130) keeps out of previews.
`ReleasedIsGuarded` is weaker in the same way
about MASK, which outranks REDACT and is not implemented (`app/transform.py:167`).

Fairness: `FairSpec` has weak fairness of each handler. The event loop runs it
on, each detector has a deadline, each post a time-out, and a dead process has
ended its handlers. Nothing is assumed of clients, reviewers or restarts.

Seen and not given a run:

* With `n` above 1, or more than one tool call, the client of an allowed request
  gets choices that were neither inspected nor redacted: `n` is forwarded as it
  came (SPEC.md:643), and only `choices[0]` and its first tool call are looked at.
  A resumed approval is the same (`app/approvals.py:751-756`). SYS-003 and SYS-006
  (SPEC.md:38, 56) and `app/main.py:861` speak of every response.
  `ReleasedIsGuarded` says nothing of `others`, and nothing could be said of it.
* PRV-009 (SPEC.md:1371, `app/main.py:589`) has exactly one decision event for each
  transaction. A redaction that cannot be applied answers 403 POLICY_DENIED with
  none (`app/main.py:551-559`), the one verdict `AnswersAreRecorded` lets a
  production client have unrecorded; an upstream failure after ALLOW leaves none
  either, and gives the client no verdict.
* After a production audit failure the client of a held request got 503 while the
  approval exists and a reviewer can still release it, where SPEC.md 2.15 says the
  transaction fails closed (`AnswersAreRecorded` says only that a recorded or
  answered hold has its approval).
* An event is recorded before its answer is sent. A crash in between, or an
  upstream's answer without a field that `AllowedResponse` needs, leaves an ALLOW
  on record that the client never got.

### Proofs

`CombineIsJoint` in `GatewayProofs` says of the pure part: combining the decisions made of two
sets of hits gives the decision of their union, so that evaluating tool by tool
loses no verdict, reason, hit or transformation. It is case analysis over the
finite ranks. `MoreHitsNeverRelax` says that a hit more never lowers the verdict.

`GatewayProofs` proves every safety property of the `gateway` run and the
refinement, for any requests, rules, bodies, retries and crashes, from
`RulesAssumption` (rules are well formed), `BodiesAssumption` and
`BoundsAssumption`. The invariant `IInv` is the type invariant and, for each
request, three parts:

* `Judged`: which verdict goes with which place of the handler, with its posts
  and with its approval. `UpstreamIsAuthorized` follows from it; alone it is not
  inductive, because a post is authorised by where the handler is.
* `Held`: what has been transformed stays so, and a guarded answer awaiting
  release is clean. It needs that `guarded` was made by `GuardDecisions`, with
  the clamp, of facts that redaction cannot add to.
* `Recorded`: nothing is recorded before the handler's last commit, so that there
  is one event at most; from there to the answer neither decision changes, so the
  event is of the verdict that is answered.

`GatewayMediates` uses the invariant for each step that the mediator guards: a
request is judged once because it is inspected once, and a post is below the
bound.

`HandlersAdvance` is what of `RequestsEnd` does not need fairness. `StepsLeft` counts
two steps for each post the retry loop may still make and those before and after
them; every step of a handler takes it down, and nobody else, crash and restart
included, takes it up. So a request ends after `6 + 2 * MaxRetries` steps of its
handler at most. That it takes those steps is the fairness, and model-checked only.

## 7. The detector orchestrator

`Orchestrator` is one `DetectorOrchestrator.run` for each of `Runs`, whose scans
share the default thread pool with those of every other request.

| Variable of `Orchestrator` | In the code |
|---|---|
| `report` | how each `_run_one` stands: "waiting" inside `wait_for`, then the status of its `DetectorExecutionReport` |
| `age` | time since the deadlines were set; `gather` starts every `_run_one` before any of them waits |
| `result` | the `OrchestratorResult`, once `gather` is through |
| `queue`, `running`, `left` | the pool's queue, the scans that hold a thread, and what they still need |
| `roomy` | history: runs that found a thread for each of their scans |

| Action | Code |
|---|---|
| `Run` | `run` up to its `gather`: the applicable detectors are submitted, in the list's order |
| `PickUp`, `ScanEnds` | a worker takes a scan, unless it was cancelled in the queue; it returns or raises. `to_thread` cannot be cancelled, so a scan that has begun keeps its thread and a late answer is dropped |
| `TimeOut` | `wait_for` gives up |
| `Gather` | the reports become the result: findings of those that are "ok", timeouts, degraded |
| `Tick` | time; the event loop and the pool are prompt, so what is due happens first |

A scan that ends in the very tick of its deadline may be on either side of it.

* `orchestrator` (`MCOrchestrator.cfg`): three runs of two and three scans, a pool
  of three threads, a deadline of two ticks; one detector is always fast, one may
  take its whole deadline or raise, one may never return. With three runs the pool
  can be full of abandoned scans, a run can wait behind them and one can start
  while there is room for it. `ImplementsInspection` says that each run is an
  inspection of the abstract module: it ends once, with exactly what was not lost,
  and is degraded if and only if something was. `RoomSuffices` bounds the claim of
  `app/orchestrator.py:4`, that one slow detector never takes the others down:
  fast detectors meet their deadline in every run that found a thread for each scan.
  Without that room they do not, since scans in the queue behind abandoned ones
  time out; the claim as it stands there is not what the pool gives. `RunsEnd`
  says that an inspection ends though none of its scans ever does.

Fairness: the event loop, the pool and the clock go on (`WF_vars(Progress)`); no
scan need end and nobody need ask. CHECK_DEADLOCK is off because a finished set of
runs has nothing left to do.

Proved in `OrchestratorProofs`, for any runs, scans, deadline and number of
threads: `TypeCorrect`, `RoomIsEnough` and, as a refinement, `OrchestratorInspects`.
The inductive invariant `OInv` says why room is enough. A scan of a run that found
room is near the head of the queue (`RoomyIsNear`: there is a free thread for it and
for all before it), and time does not pass while a thread is free and the queue is
not empty; so such a scan is of age zero as long as it is queued (`QueuedIsFresh`),
and a fast one that has a thread ends before its deadline (`FastIsTimely`). The
refinement maps the inspections begun to the runs with reports and an outcome to
the result; what it needs is that a scan still waiting is queued or running
(`WaitingIsHeld`) and a result comes after all reports (`AllReported`). `RunsEnd` is
model-checked only.

## 8. Redaction and normaliser

`Redaction` is `apply_redact`. A text is its positions and a placeholder takes one
place, which changes the length of the text, the only thing about a placeholder
that could disturb an offset. The findings of one finder do not overlap, since
`finditer`'s matches do not; those of different finders may, in any way. `Merge`
is one turn of `_merge_overlapping`'s loop over the spans in sorted order (stable,
so equal starts stay in the finders' turn), `Replace` one replacement, the last
span first, `Fail` the exception that becomes a `TransformationError`.

`Normalizer` is `_decode_variants`: the frontier of texts, what their candidates
decode to, the candidates that raise, and the layers down to the depth. Regular
expressions and decoders are the relation `yields`, any relation at all but one:
nothing decodes to the text that came in, because a code is longer than what it
stands for. What is skipped is a text *before* its normalisation, what is decoded
further is the text *after* it.

* `text` (`MCText.cfg`) runs the two side by side; they share nothing, so a
  behaviour has one text of interest. Every set of findings of three finders in
  four positions gives nesting, chains, equal starts and touching spans; four
  texts, two of which are not in normal form, that decode to each other
  in any way, give cycles and two texts with one normal form, over two layers.
  `MergedIsFound` and `HighestLabelWins` are about the merged spans,
  `TextIsRedacted` about the text that is handed on, `EveryLayerIsDecoded` says
  that the detectors see all that is within the depth, at its first depth, and
  nothing deeper. CHECK_DEADLOCK is off: both are functions that return.

`normalize_text` is not assumed to be idempotent, because it is not. Folding
homoglyphs comes after NFKC and can make a pair NFKC would compose: U+0440 U+0301
becomes `p` U+0301, and that, normalised again, U+1E55. SYS-011 (SPEC.md:162) and
`app/normalizer.py:88` say it is. The instance has such a text (`raw`), and
`EveryLayerIsDecoded` does not need it otherwise. Nor is MAX_DECODE_DEPTH
(`app/config.py:100`, DET-008) passed to `normalize`: the depth is always the
default of 3.

Proved in `TextProofs`, for texts of any length and any labels: `SpansAreExact`,
`SpansAreNamed` and `TextIsExact`. The invariant `RInv` says that what has been looked at is what
is in `merged` and `last`, that nothing left starts before `last` does, and that
`merged` ends where `last` begins. `TextInv` adds that the text is the original one up to the
end of every span still to be replaced, and holds what the spans replaced so far
leave; a replacement is a splice (`Splicing`, `SplicedText`).

`LayersAreDecoded` proves `EveryLayerIsDecoded` for any texts, any depth and any
relation `yields`. `Within` is a recursive function of the layer, so its equation has to be
proved first: the library's induction takes an operator, which the provers here cannot
instantiate, so `NatSetInduction` states induction of a *set* of naturals
(from `LeastElement`, which is well-foundedness), and `NatRecursion` shows from it
that a function defined by steps of a function exists and is unique (beginnings of
it agree, `BeginningsAgree`, and there is one of every length, `BeginningsExist`).
That gives `WithinUnfolds`, `WithinGrows` (a deeper layer has all of the shallower)
and `WithinSettles` (a layer that adds nothing is the last). The invariant
`NormalizerInv` is about a loop that skips by what a text was before its
normalisation: every such text has been noted under its normal form
(`SeenIsNoted`), so what is skipped has been given to the detectors already and
at no deeper layer; what the frontier has passed was looked at (`LookedAt`); and the
loop stops early only where the layers settle (`LoopEnds`).

## 9. Identity and sessions

The server keeps no session: a cookie is good while the secret that signed it is
in force and its expiry is ahead. `Identity` is the pure part (`app/auth.py`,
`app/session.py`, and of `app/config.py` the rules about keys and secrets);
`Sessions` adds a server that restarts, one browser with tabs at the console or
the dashboard, and whoever calls the bearer endpoint.

| Variable of `Sessions` | In the code |
|---|---|
| `settings`, `starts` | `Settings` of the running process, and which process it is (it makes a secret for itself if it is given none) |
| `sessions`, `expired` | the cookies ever signed, and whose `expires_at` has passed; the signature is the secret's name |
| `jar` | the browser's cookie for each door (`rg_session` under `/dashboard`, `rg_console_session` under `/console/api`) |
| `shows`, `ready` | for a console tab, the `session` and `checking` state of `AuthProvider`; for a dashboard tab, the session whose token its page carries |
| `net` | requests and answers in flight: with the cookie they were sent with and the session (`as`) whose token they carry |
| `decision` | history: for whom the engine recorded the last decision, whose name the page showed, and whether that was a reviewer's key |

| Action | Code |
|---|---|
| `SignIn`, `Ask`, `Reload` | the login form, `api.ts`'s calls from a rendered page, and a page load with its probe |
| `Handle` | `console_login`, `console_logout`, `console_session`, the console's reads, `console_decide`, and the dashboard's counterparts |
| `CallDecision` | `decide_approval_endpoint` with whatever key, cookie and token its caller presents |
| `ReceiveConsole`, `ReceiveDashboard`, `ReceiveOrphan` | an answer arrives, or is lost: `request()` and what `AuthProvider` makes of it; the browser's own handling of pages and cookies |
| `Expire`, `Restart` | time; the process with the same or other settings, if `_validate_cross_field` accepts them |

* `sessions` (`MCSessions.cfg`): two tabs of the console, two requests in flight,
  two sessions of two reviewers. Two requests are what overtaking needs, two
  sessions what it takes to act under another's name. Tabs and slots are
  interchangeable here (both tabs have the console open, no property names one),
  so TLC takes their permutations for symmetry; there is no liveness in this run.
  `ActsAsShown`: a decision is recorded for the reviewer the page showed, though
  another tab has replaced the cookie, because the token has not changed with it.
  `DroppedForAReason`: a tab loses a good session only when asked to, when its probe
  is lost, or through an answer about another session: what
  `unauthorizedHandler` clears without asking which session the answer was about
  (`auth-provider.tsx:71`) is limited to that. It is stated for a server that runs
  on: after a restart a secret may change and be changed back.
* `sessions_restart` (`MCSessionsRestart.cfg`): a tab at each door, one request at a
  time, two starts over six settings, two of them refused: without one of the
  reviewers, without a secret of its own, without keys. `OnlyReviewersDecide`: the
  anonymous identity of a server without keys never decides, nor a service, and
  a session stands for a reviewer's key that was checked when it was signed.

CHECK_DEADLOCK is off in both, since a bounded number of sessions and starts ends
what can happen. Nothing is assumed fair: nobody need answer, click or restart.

Seen beside the runs: a reviewer whose key was removed keeps deciding with a
session signed before, until it expires or the secret changes (`held` is about the
time of signing); `web/lib/api.ts:133` says a double click replays by API-007,
while its fresh key makes the second click a second decision, which the engine
refuses; a sign-out that is lost leaves the cookie where it is, and the next page
load signs the tab in again.

Proved in `SessionsProofs`, for any keys, tabs, doors, requests in flight and
settings: `TypeCorrect`, `DecisionsAreReviewers`, `DecisionsAreAsShown`, from
`KeysAssumption` and `SessionsAssumption`. The invariant adds `SessionsAreHeld`,
that a session is only ever signed for a reviewer's key; what a decision has to do
with the page is in the token. `DropsHaveReasons` proves `DroppedForAReason` under
`SecretLasts`: for a server that runs on (`MaxStarts = 1`, as its run has it), and for
any number of restarts whose settings agree on the secret. There `RefusedIsDead` is
inductive, that a 401 in flight answers a request whose cookie is no good: a cookie
that is no good never becomes good again, because a secret a process made for
itself dies with it and a configured one stays. Without the hypothesis it fails, and
so does the property: take a configured secret away and put it back, and the
answer of the process between is about a session that is good again.

## 10. The review queue

`ReviewQueue` is `list_approvals` as a client sees it who follows `next_cursor`
while the list changes. An approval is its place in the order of `(created_at,
id)` among those that match or may still come to match, counted from the oldest, so
`Create` takes the next place: the clock is taken not to be set back here, nor two
approvals to be created in one millisecond out of order. `Enter` and `Leave` are
`_transition` into and out of the state the filter names, or past it. An approval
that leaves is forgotten and those above close up, so that `N` bounds how many there
are at one time and not how many are ever created; a cursor whose row has left is
`Gone`. With a single status an approval matches during one stretch of its life (the
case of several statuses, where it could come back, is left out). `Begin` is the
clamp of the limit, `Fetch` a page.

* `review_queue` (`MCReviewQueue.cfg`): five places, limits of 0, of 2 and above the
  maximum of 3, so that there are up to five pages, a page that is full exactly and
  one that is not, and both ends of the clamp. `StayingIsListed`: what matches from
  the first page to the last is given to the client. `RepeatsOnlyAfterLoss`: nothing
  is given twice unless a cursor's own row had left the list, in which case the code
  begins the list anew. `PagingEnds`: paging ends, unless cursors are lost again and
  again. It assumes that a client that has begun goes on (`WF_vars(Fetch)`).

The exception is the code's. `list_approvals` starts at the top whenever it does not
find the cursor (`app/approvals.py:308-315`), and nothing bounds how often: a client
with a limit of 1 whose row is decided between every two pages, while new approvals
keep arriving, never comes to the end. Two places are enough to show it.

`ReviewQueueProofs` proves `PagingIsComplete` and `PagingRepeatsNothing` for any
number of approvals and any limits. The invariant is in `ReviewQueue` as `IInv`:
what stayed and is at or above the cursor has been given (`NewerIsListed`), and as
long as no cursor was lost, nothing below it has (`OlderIsAhead`). It needs that a
page is the newest of the rest, which `PageIsNewest` and `PageIsAll` prove of its
cardinalities, and that closing up after an approval that leaves keeps the order of
the others (`BelowKeepsOrder`).

`PagesAreBounded` is what of `PagingEnds` does not need fairness. `Place` is where the
client is, above all places if its cursor is gone. Each page takes it down; neither a
creation nor any departure takes it up but that of the cursor's own row. So there are
`N + 1` pages at most between two such departures, or from the last one to the end.
That there is always a next page to ask for, and that the client asks, is
model-checked only.

## 11. Model-checked only, and not modelled

Every safety property, action property and refinement of a passing run is a
theorem of one of the `*Proofs` modules. Liveness under fairness is TLC's, since the
proof system reaches neither fairness nor ENABLED: `EventuallyAtRest`,
`CrashStrandsNothing`, `RequestsEnd`, `RunsEnd`, `PagingEnds`. `TrailsAreBounded`,
`HandlersAdvance` and `PagesAreBounded` prove of three of them that the steps run out.

Not modelled:

* Detectors: regular expressions over text are data, not control.
* Schemas, logging, the policy file's format and the settings that are neither
  keys nor secrets: checks and formats of input.
* The export command, benchmark and scripts: they read, or drive load.
* In the gateway, the risk level, which is reported and decides nothing, a rule's
  condition on the size of a request, and message contents that are not strings,
  which neither the detectors nor the redaction look at.
* In the engine, what a payload or a response says: a payload is intact or not,
  a response passes the output guard or does not. The guard's and the provider's
  own steps are those of `Gateway`; in a resume they end it in any of the ways
  they can.
* In the console, the rows a page has loaded and shows: they are replaced by the
  next load and decide nothing.
* CANCELLED: the code draws an edge to it and never takes it, so no action does.
* Gauges, latency histograms and the console's statistics.
