\* Two requests, one retry, one resume attempt, one crash.
CONSTANTS
    r1 = r1  r2 = r2
    Requests <- MCRequests
    Facts <- MCFacts
    Rules <- MCRules
    Redactable = {"PII", "SECRET"}
    RequestBodies <- MCRequestBodies
    ResponseBodies <- MCResponseBodies
    DetectorFailureMode = "fail_closed"
    MaxRetries = 1
    MaxResumeAttempts = 1
    MaxCrashes = 1
SPECIFICATION Spec
INVARIANT FailClosedDenies
