CONSTANTS
    Jobs = {j1, j2}
    Agents = {}
    Sources = {s1}
    FirstScanned = 1
    MaxMessages = 1
    OnlyOne = FALSE
    MaxFailures = 1
SPECIFICATION FairSpec
PROPERTIES
    LockIsReleased
