\* Replies to every kind of command, to a client with DEPRECATE_EOF: rows of text result
\* sets are skipped at will, and sequence numbers wrap within a reply.
SPECIFICATION Spec
CONSTANTS
    SeqMod = 7
    DeprecateEof = TRUE
    OptionalMetadata = FALSE
    OverflowChecks = FALSE
    Coms = {"Query", "FieldList", "Ping", "StmtReset", "StmtPrepare", "StmtExecute"}
    ColumnCounts = {1, 2}
    TextRows <- SafeRows
    BinaryRows <- BinaryOnes
    MaxRows = 5
    Filtering = TRUE
INVARIANTS TypeOK EndsWithLastPacket OnlySkippedRowsMissing NoGapInResultSet
PROPERTY ReplyEnds
