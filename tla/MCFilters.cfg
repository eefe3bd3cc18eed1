\* Every kind of filter under the default and under two strict limits.
SPECIFICATION Spec
CONSTANTS
    Keys = {"a", "b"}
    None = None
    NameLen <- NameLens
    MAX_FILTERS = 2
    MAX_DATA_SIZE = 3
    MAX_DATA_BASE58_SIZE = 5
    MAX_DATA_BASE64_SIZE = 4
    WORD = 16
    MAX_ALLOC = 7
    LimitsSet <- AllLimits
    Requests <- AllRequests
    Incoming <- AllUpdates
CHECK_DEADLOCK FALSE
INVARIANTS PanicOnlyByHugeRange SlicesSound NoFullStream RoundTrip LimitsKept Refilter
