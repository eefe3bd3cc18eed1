\* Every order of the messages of a slot, and a later slot that ends it.
SPECIFICATION Spec
CONSTANTS
    Inputs <- TwoSlots
    MaxPush = 6
INVARIANTS BlockIsWhole SettledBlockDelivered LandedBuiltOrReported
CHECK_DEADLOCK FALSE
