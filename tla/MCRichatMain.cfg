\* A channel of two cells that nobody reads, and more messages than it holds.
SPECIFICATION MainFairSpec
CONSTANTS
    Messages = {m1, m2}
    NoData = NoData
    MaxMessages = 2
    Cells <- Indices
    get_idx <- Masked
    MaxLog = 5
INVARIANT NothingLost
PROPERTY InterruptEnds
