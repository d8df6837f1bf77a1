\* Every cut of numbered streams into reads.
SPECIFICATION Spec
CONSTANTS
    Streams <- MCStreams
    MaxPackets = 3
    HeaderSize = 2
    BufSize = 5
    SeqMod = 3
CHECK_DEADLOCK FALSE
INVARIANTS TypeOK ForwardsWholePackets NoPanicOnWellFormed
PROPERTIES CompletePacketsForwarded ImplementsPacketStream
