\* Two tabs of the console, two requests in flight, two sessions.
CONSTANTS
    ann = ann  bob = bob  app = app  left = left  right = right  s1 = s1  s2 = s2
    Keys <- MCKeys
    NoKey = NoKey
    Anonymous = Anonymous
    Configurations <- Lasting
    Tabs <- MCTabs
    Door <- ConsoleTabs
    Slots <- MCSlots
    MaxSessions = 2
    MaxStarts = 1
SPECIFICATION Spec
SYMMETRY Alike
INVARIANTS
    ActsAsShown
PROPERTIES
    DroppedForAReason
CHECK_DEADLOCK FALSE
