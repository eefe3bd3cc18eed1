\* Fair threads and tasks; slots that come late and out of order, and statuses
\* of a chain of slots that the validator notifies in any order or not at all, on
\* a ring of four.
SPECIFICATION FairSpec
CONSTANTS
    Receivers = {r1}
    Inputs <- FairInputs
    Filters <- FairFilters
    Replays <- FairReplays
    Cap = 4
    SlotsMax = 2
    BytesMax = 3
    SlotMsgSize = 1
    MaxLog = 5
    NoData = NoData
INVARIANTS NoLostWakeup DeliveredInOrder AncestorStatusFirst TrackedSlotRetained LimitsHold
PROPERTIES EveryoneCatchesUp ImplementsLog
