\* Two workers on a table that exists; one of them creates another; the counter wraps.
SPECIFICATION Spec
CONSTANTS
    Workers = {1, 2}
    Tables = {"old", "new"}
    Existing = {"old"}
    MayUpdate <- OneCreator
    MaxDiffs = 2
    MaxStatements = 2
    MaxWrites = 3
    CounterMod = 3
    FirstId = 1
CHECK_DEADLOCK FALSE
INVARIANTS TypeOK EntryExists InRecordingOrder NoDiffLost ValuesDistinct
PROPERTY ImplementsDiffStore
