\* Three inspections, three detectors, three threads, a deadline of two ticks.
CONSTANTS
    pii = pii  injection = injection  topics = topics
    r1 = r1  r2 = r2  r3 = r3
    Detectors <- MCDetectors
    Runs <- MCRuns
    Lists <- MCLists
    Finds <- MCFinds
    Fallible = {injection}
    Lengths <- MCLengths
    Deadline = 2
    Workers = 3
SPECIFICATION FairSpec
INVARIANTS
    TypeOK
    RoomSuffices
PROPERTIES
    ImplementsInspection
    RunsEnd
CHECK_DEADLOCK FALSE
