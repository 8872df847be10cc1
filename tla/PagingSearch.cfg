CONSTANTS
    MaxInt = 15
    MaxTotal = 13
SPECIFICATION PagingSpec
INVARIANTS PagesAreWhole OnlyBadJumpsFail
CHECK_DEADLOCK FALSE
