\* One approval, two reviewers' requests and a direct caller of
\* resume_approved, two crashes.
CONSTANTS
    a1 = a1  h1 = h1  h2 = h2  w1 = w1  k1 = k1  k2 = k2
    Approvals <- MCOneApproval
    Handlers <- MCHandlers
    Workers = {w1}
    Creators = {"alice"}
    Reviewers = {"alice", "bob"}
    Keys <- MCKeys
    MaxResumeAttempts = 2
    MaxCrashes = 2
    None = None
SYMMETRY MCSymmetry
SPECIFICATION Spec
INVARIANTS
    TypeOK
    ClaimIsExclusive
    CallsBounded
    DecisionsExplainState
    AuditReplaysToRow
    PollsAgreeWithRow
PROPERTIES
    OnlyDrawnTransitions
    ImplementsLifecycle
