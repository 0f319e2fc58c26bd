\* Two approvals decided by two requests that share one Idempotency-Key, one
\* crash, and one attempt, so that the next startup gives up.  Decisions on
\* expired approvals, and commits that fail, count without end; the bound
\* MaxCount is what stops them.
CONSTANTS
    a1 = a1  a2 = a2  h1 = h1  h2 = h2  k1 = k1
    Approvals <- MCTwoApprovals
    Handlers <- MCHandlers
    Workers = {}
    Creators = {"alice"}
    Reviewers = {"bob"}
    Keys = {k1}
    MaxResumeAttempts = 1
    MaxCrashes = 1
    MaxCount = 2
    None = None
SYMMETRY MCSymmetry
SPECIFICATION MSpec
CHECK_DEADLOCK FALSE
INVARIANTS
    KeysDecideOnce
PROPERTIES
    MovesAreCounted
