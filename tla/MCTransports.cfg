\* Subscriptions over each transport, refused and served.
SPECIFICATION FairSpec
CONSTANTS
    MaxRequestSize = 1
    MaxRecvStreams = 2
    FirstSlot = 7
    None = None
    Subscriptions <- SubscriptionsOf
    MaxMessages = 3
    Window = 1
    MaxErrors = 1
CHECK_DEADLOCK FALSE
INVARIANTS ReasonReported SendLoopSound Lossless
PROPERTY AllForwarded
