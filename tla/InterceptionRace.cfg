\* Two workers make a table's first update.
SPECIFICATION Spec
CONSTANTS
    Workers = {1, 2}
    Tables = {"new"}
    Existing = {}
    MayUpdate <- TwoCreators
    MaxDiffs = 2
    MaxStatements = 1
    MaxWrites = 2
    CounterMod = 3
    FirstId = 1
CHECK_DEADLOCK FALSE
INVARIANT NoDiffLost
