\* One source with a long stream, or two with a short one, and their parsers.
SPECIFICATION DecoderSpec
CONSTANTS
    Mount <- TwoMounts
    Free = Free
    PipeSize = 1
    MaxChunks <- EnoughChunks
    ByteBits = 4
    Width <- Widths
    SatBits = 3
    SigBits = 2
    Preamble = 13
    Plans <- PlansMC
    ChunkSizes = {4, 5, 7}
    PartLimit <- Limits
INVARIANTS EndedIsUnsubscribed ReadyMissesNothing ReadyDecodesAll ResultIsAsSent
CHECK_DEADLOCK FALSE
