CONSTANTS
    top = top
    nested = nested
    docs = docs
    sub = sub
    Run = {r1, r2}
    File = {top, nested}
    Dir = {docs, sub}
    Root = docs
    Entries <- MCEntries
    Below <- MCBelow
    Spelling = {plain, dotted}
    MaxVersion = 2
    NoFile = NoFile
    NoIndex = NoIndex
    NoRun = NoRun
SPECIFICATION FairSpec
INVARIANTS TypeOK UniquePaths UpdateBuildsOnLastCommit
PROPERTIES ImplementsStore NeverBackInTime UndisturbedCommitIsComplete EveryRunEnds
CHECK_DEADLOCK FALSE
