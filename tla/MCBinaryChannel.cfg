\* A size that is no power of two: six cells, of which pos & 5 uses four.
SPECIFICATION FairSpec
CONSTANTS
    Messages = {m1, m2}
    NoData = NoData
    MaxMessages = 6
    Cells <- Indices
    get_idx <- Masked
    MaxLog = 8
INVARIANT NeverStuck
PROPERTY ImplementsFifo
