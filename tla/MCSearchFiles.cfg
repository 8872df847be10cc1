CONSTANTS
    p = p
    q = q
    s1 = s1
    s2 = s2
    Run = {r1}
    Path = {p, q}
    MaxVersion = 1
    NoIndex = NoIndex
    NoRun = NoRun
    Search = {s1, s2}
    NumNeeds = 2
    Matches <- MCMatches
    Broken <- MCBroken
    Name <- MCName
    MaxHits = 2
    MaxCommits = 2
SPECIFICATION FairSpec
INVARIANTS LinesInOrder AnswersCanBeEvaluated
PROPERTIES EverySearchEnds
CHECK_DEADLOCK FALSE
