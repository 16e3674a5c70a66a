\* Three calls over two slots: retries, a breaker that opens and probes, and a
\* rate limit of two calls per two ticks.
CONSTANTS
    c1 = c1
    c2 = c2
    c3 = c3
    Calls = {c1, c2, c3}
    MaxConcurrent = 2
    MaxAttempts = 2
    MaxRps = 2
    Window = 2
    Threshold = 2
    ResetTimeout = 2
    MaxTime = 3
    MaxThrows = 1
SPECIFICATION LiveSpec
INVARIANTS SlotsAccounted RateBounded FailuresTrip ProbeAcquires
PROPERTIES OpenUntilProbe OneProbe CallReturns ProbeDecided
CHECK_DEADLOCK FALSE
