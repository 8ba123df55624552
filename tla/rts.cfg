\* Two processors; close may run on another than the timer (see rts_disable).
SPECIFICATION FairSpec
CONSTANTS
    Workers = {w1, w2}
    NoWorker = NoWorker
    Timeouts = {10}
    JiffyMs = 10
    MaxLate = 2
    SameCpu = FALSE
INVARIANTS TypeOK NoSpinOnSleeper StopsQuietly NoLostWakeup BackgroundAlive
PROPERTIES BackgroundSpec YieldResumed BackgroundRuns CloseReturns
CHECK_DEADLOCK FALSE
