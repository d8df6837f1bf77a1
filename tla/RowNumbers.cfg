\* An update sets a column to a number.
SPECIFICATION Spec
CONSTANTS
    Updates <- NumberUpdates
    Wheres <- NoWhere
    ColumnLists <- NumberColumns
    Values <- NumberValues
    MaxUpdates = 1
CHECK_DEADLOCK FALSE
INVARIANT UpdatedValuesShown
