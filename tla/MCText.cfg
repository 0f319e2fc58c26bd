\* All findings of three finders in four positions; four texts that decode to each other.
CONSTANTS
    Length = 4
    Labels = {"EMAIL", "SSN", "PEM"}
    Turn <- MCTurn
    Rank <- MCRank
    Char = "CHAR"
    plain = plain  half = half  raw = raw  b64 = b64
    Texts = {plain, half, raw, b64}
    Normal <- MCNormal
    MaxDepth = 2
SPECIFICATION MCSpec
INVARIANTS
    MergedIsFound
    HighestLabelWins
    TextIsRedacted
    EveryLayerIsDecoded
CHECK_DEADLOCK FALSE
