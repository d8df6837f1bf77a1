\* One worker logs what the server answers, another one replays it; entries are lost,
\* late, out of order, and expire.
SPECIFICATION Spec
CONSTANTS
    SeqMod = 256
    DeprecateEof = TRUE
    OptionalMetadata = FALSE
    OverflowChecks = FALSE
    Workers = {1, 2}
    Logs = {1}
    Replays = {2}
    Commands <- SelectAndProbe
    ServerReplies <- Answers
    BufSize = 3
    MaxAsks = 2
    MaxAnswer = 8
CHECK_DEADLOCK FALSE
INVARIANTS TypeOK LogCoversAnswer LogComplete AnswerIsOneReply WholeEntriesNeverPanic WaitsForServerOnlyIfAsked
PROPERTIES ReplayedQuerySettled WorkerFollowsClient
