\* A client that closes statements without waiting, writes forwarded, no TLS.
SPECIFICATION Spec
CONSTANTS
    SeqMod = 256
    DeprecateEof = TRUE
    OptionalMetadata = FALSE
    OverflowChecks = TRUE
    Commands <- WithClose
    AuthFlows = {"ok", "fail", "fast", "full", "switch"}
    TextRows <- PlainRows
    MaxRows = 1
    MaxCommands = 3
    InterceptWrites = FALSE
    TlsFeature = FALSE
    TlsClients = {FALSE}
    ServerTimesOut = FALSE
CHECK_DEADLOCK FALSE
INVARIANT InSync
PROPERTIES EveryCommandSettled ImplementsQueryProxy
