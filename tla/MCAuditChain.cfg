\* Two streams of up to four events over three milliseconds, two random
\* parts, and one correction of the clock.
CONSTANTS
    a1 = a1  a2 = a2
    Streams <- MCStreams
    Randoms = {1, 2}
    LastMilli = 2
    MaxEvents = 4
    MaxSetBacks = 1
SYMMETRY MCSymmetry
SPECIFICATION Spec
CHECK_DEADLOCK FALSE
INVARIANTS
    ForksAreStampedBack
