\* Rows whose first column is the empty string.
SPECIFICATION Spec
CONSTANTS
    SeqMod = 16
    DeprecateEof = TRUE
    OptionalMetadata = FALSE
    OverflowChecks = FALSE
    Coms = {"Query"}
    ColumnCounts = {2}
    TextRows <- EmptyFirstRows
    BinaryRows <- None
    MaxRows = 2
    Filtering = FALSE
INVARIANT EndsWithLastPacket
