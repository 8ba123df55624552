\* Two processors: the timer is handled on one while the other closes.
SPECIFICATION FairSpec
CONSTANTS
    Workers = {w1}
    NoWorker = NoWorker
    Timeouts = {10}
    JiffyMs = 10
    MaxLate = 1
    SameCpu = FALSE
PROPERTY DisableStopsTimer
CHECK_DEADLOCK FALSE
