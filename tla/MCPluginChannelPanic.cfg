\* Slots in an order the validator may notify them in, against the assertions
\* of push_msg.
SPECIFICATION Spec
CONSTANTS
    Receivers = {r1}
    Inputs <- SlotsInputs
    Filters <- NoFilters
    Replays <- TailOnly
    Cap = 4
    SlotsMax = 3
    BytesMax = 4
    SlotMsgSize = 1
    MaxLog = 5
    NoData = NoData
INVARIANT NoPanic
