\* Every kind of request, cut in every way, next to a rover and a source.
SPECIFICATION FairSpec
CONSTANTS
    None = None
    Root = Root
    A = A
    B = B
    C = C
    u1 = u1
    u2 = u2
    ghost = ghost
    mp = mp
    up = up
    pl = pl
    bad = bad
    SafeMount = {A, B, C}
    Mount = {A, B, C}
    User = {u1, u2, ghost}
    Password = {mp, up}
    Edits <- Changes
    Database <- Rows0
    Handler <- Two
    Byte <- Bytes
    Conversations <- Sent
    Fixes = {"p", "q"}
    MAX_SENTENCE_SIZE = 4
    MAX_ACCUMULATOR_SIZE = 5
    BUFFER_SIZE = 5
    MAX_INITIAL_HEADER_SIZE = 8
    MAX_CONNECTIONS_PER_USER = 1
    MaxEdits = 1
INVARIANTS ServedIsVerified TailIsKept PositionIsLastGga OrphanSourceHasReason
PROPERTIES RequestEnds
CHECK_DEADLOCK FALSE
