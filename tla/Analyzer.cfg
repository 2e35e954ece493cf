SPECIFICATION Spec
CONSTANTS
    mode = "DVB"
    TR101290_PAT_PMT_INTERVAL_MS = 3
    TR101290_PID_INTERVAL_MS = 4
    intervalCheckThrottleMs = 2
    Program = 32
    Video = 48
    Filters <- MCFilters
    Bursts = {1, 14}
    Budgets <- MCBudgets
INVARIANTS
    PatSilenceIsReported
PROPERTIES
    CcErrorsAreReal
    LossIsCounted
    IntervalErrorsAreReal
CHECK_DEADLOCK FALSE
