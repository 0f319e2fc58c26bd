\* A tab at each door, one request at a time, two starts of the server.
CONSTANTS
    ann = ann  bob = bob  app = app  left = left  right = right  s1 = s1  s2 = s2
    Keys <- MCKeys
    NoKey = NoKey
    Anonymous = Anonymous
    Configurations <- Changing
    Tabs <- MCTabs
    Door <- BothDoors
    Slots <- OneSlot
    MaxSessions = 2
    MaxStarts = 2
SPECIFICATION Spec
INVARIANTS
    TypeOK
    OnlyReviewersDecide
CHECK_DEADLOCK FALSE
