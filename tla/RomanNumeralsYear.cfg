CONSTANTS
    Token <- CheckedTokens
SPECIFICATION Spec
INVARIANTS ReturnsYear
CHECK_DEADLOCK FALSE
