CONSTANTS
    Jobs = {j1, j2}
    Agents = {a1}
    Sources = {s1}
    FirstScanned = 1
    MaxMessages = 2
    OnlyOne = FALSE
    MaxFailures = 1
SPECIFICATION FairSpec
INVARIANTS
    TypeOK
    NothingLost
    SavedOnce
    LockHasHolder
PROPERTIES
    ImplementsMailbox
    NoneRunsInCircles
    LockIsReleasedUnlessStuck
