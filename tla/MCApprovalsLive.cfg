\* Liveness, and decisions as the only resumes: one approval, two requests,
\* two crashes.
CONSTANTS
    a1 = a1  h1 = h1  h2 = h2  w1 = w1  k1 = k1  k2 = k2
    Approvals <- MCOneApproval
    Handlers <- MCHandlers
    Workers = {}
    Creators = {"alice"}
    Reviewers = {"bob"}
    Keys = {k1}
    MaxResumeAttempts = 2
    MaxCrashes = 2
    None = None
SPECIFICATION FairSpec
INVARIANTS
    ResumedOnce
PROPERTIES
    EventuallyAtRest
    CrashStrandsNothing
