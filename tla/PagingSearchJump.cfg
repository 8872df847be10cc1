CONSTANTS
    MaxInt = 15
    MaxTotal = 13
SPECIFICATION PagingSpec
INVARIANTS JumpsLandOnAPage
CHECK_DEADLOCK FALSE
