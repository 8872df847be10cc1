CONSTANTS
    Graph <- MCGraph
    Absent = Absent
    Truncated = Truncated
    NeedsFiles <- MCNeedsFiles
    NoNeeds = NoNeeds
    Blank = Blank
    Unrunnable = Unrunnable
    ShortUri = {"short"}
    BufferSize = 3
SPECIFICATION FairSearcherSpec
INVARIANTS ResultsAreWhole
PROPERTIES EveryAnswerEnds
CHECK_DEADLOCK FALSE
