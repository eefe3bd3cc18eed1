\* Messages and requests in any order, a queue of one request.
SPECIFICATION FairSpec
CONSTANTS
    Callers = {c1, c2}
    Inputs <- TwoBlocks
    Requests <- TwoRequests
    QueueSize = 1
    MaxAge = 2
    MaxPush = 3
PROPERTIES NewestAnswered EveryoneAnswered
