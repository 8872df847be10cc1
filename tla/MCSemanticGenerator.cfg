CONSTANTS
    File = {f1, f2, f3}
    Record <- MCRecord
    Name <- MCName
    NameOf <- MCNameOf
    Unparted = {","}
    HashCode <- MCHashCode
    Concept <- MCConcept
    Labels <- MCLabels
    Base <- MCBase
    None = None
    Gone = Gone
    Unopenable = Unopenable
    Malformed = Malformed
    NoGraph = NoGraph
    Absent = Absent
    Truncated = Truncated
SPECIFICATION FairSpec
INVARIANTS Attribution
PROPERTIES ImplementsRdf GraphOfTheWalk UndisturbedGraphIsComplete EveryGenerationEnds
CHECK_DEADLOCK FALSE
