\* A reply that arrives in several reads.
SPECIFICATION Spec
CONSTANTS
    SeqMod = 256
    DeprecateEof = TRUE
    OptionalMetadata = FALSE
    OverflowChecks = FALSE
    Workers = {1, 2}
    Logs = {1}
    Replays = {2}
    Commands <- JustSelect
    ServerReplies <- Answers
    BufSize = 3
    MaxAsks = 2
    MaxAnswer = 8
CHECK_DEADLOCK FALSE
INVARIANT PublishesFullResponses
