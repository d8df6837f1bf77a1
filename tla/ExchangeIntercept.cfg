\* A whole session of one client, with writes intercepted.
SPECIFICATION Spec
CONSTANTS
    SeqMod = 256
    DeprecateEof = TRUE
    OptionalMetadata = FALSE
    OverflowChecks = TRUE
    Commands <- Conversation
    AuthFlows = {"ok", "fail", "fast", "full", "switch"}
    TextRows <- PlainRows
    MaxRows = 1
    MaxCommands = 3
    InterceptWrites = TRUE
    TlsFeature = TRUE
    TlsClients = {TRUE, FALSE}
    ServerTimesOut = TRUE
CHECK_DEADLOCK FALSE
INVARIANTS TypeOK InSync AnswersMatch NoMutualWait WorkerNeverPanics WritesStayLocal
PROPERTIES EveryCommandSettled WorkerFollowsClient ImplementsQueryProxy
