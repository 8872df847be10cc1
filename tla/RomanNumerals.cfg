CONSTANTS
    Token <- CheckedTokens
SPECIFICATION Spec
INVARIANTS NumeralsAreRead PrefixIsNatural
CHECK_DEADLOCK FALSE
