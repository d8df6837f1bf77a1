\* A client that goes on to its TLS handshake at once.
SPECIFICATION Spec
CONSTANTS
    SeqMod = 256
    DeprecateEof = TRUE
    OptionalMetadata = FALSE
    OverflowChecks = TRUE
    Commands <- JustSelect
    AuthFlows = {"ok", "fail", "fast", "full", "switch"}
    TextRows <- PlainRows
    MaxRows = 1
    MaxCommands = 3
    InterceptWrites = TRUE
    TlsFeature = TRUE
    TlsClients = {TRUE, FALSE}
    ServerTimesOut = TRUE
CHECK_DEADLOCK FALSE
INVARIANT TlsBytesReachTls
