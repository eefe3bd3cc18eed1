\* Slots in any order against the limits on bytes and slots, for one reader.
SPECIFICATION FairSpec
CONSTANTS
    Clients = {c1}
    Inputs <- ManySlots
    Replays <- TailOrSlot
    Cap = 4
    SlotsMax = 2
    BytesMax = 3
    MaxLog = 5
    NoData = NoData
INVARIANTS KnownSlotRetained LimitsHold DeliveredInOrder
PROPERTIES LaggedOnlyIfRemoved AllButTheLast
