\* One client that sets two filters, one worker, rings that retain one message or none.
SPECIFICATION FairSpec
CONSTANTS
    Clients = {k1}
    Workers = {w1}
    Commitments = {"processed", "confirmed"}
    Requests <- RequestsOf
    FirstPos = 2
    MaxPushes <- PushesOf
    Retained <- RetainedOf
    CacheSize = 2
    LenMax = 0
    MaxPerTick = 2
    MaxSubs = 2
    MaxPings <- PingsOf
    Updates <- UpdatesOf
    Nothing = Nothing
CHECK_DEADLOCK FALSE
INVARIANTS RefCounted StillServed NoLostWakeup GaplessDelivery
PROPERTIES CatchesUp Freed
