\* Five places, pages of one to three; 0 and 9 are out of range.
CONSTANTS
    N = 5
    Limits = {0, 2, 9}
    MaxLimit = 3
SPECIFICATION FairSpec
INVARIANTS
    StayingIsListed
    RepeatsOnlyAfterLoss
PROPERTIES
    PagingEnds
