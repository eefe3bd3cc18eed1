\* Four handles cloned, dropped and polled in any order.
SPECIFICATION FairSpec
CONSTANTS
    Handles = {h1, h2, h3, h4}
    First = h1
INVARIANT ParkedWillBeWoken
PROPERTY EveryoneLearns
CHECK_DEADLOCK FALSE
