\* A query's rows under up to two updates, of eight kinds.
SPECIFICATION Spec
CONSTANTS
    Updates <- MCUpdates
    Wheres <- MCWheres
    ColumnLists <- MCColumnLists
    Values <- MCValues
    MaxUpdates = 2
CHECK_DEADLOCK FALSE
INVARIANTS TypeOK RowsFollowTable PanicsOnlyIfUnsupported FieldsAsAnnounced
