\* One processor.  A close with the task in RSATaskYield.
SPECIFICATION FairSpec
CONSTANTS
    Workers = {w1}
    NoWorker = NoWorker
    Timeouts = {10}
    JiffyMs = 10
    MaxLate = 1
    SameCpu = TRUE
PROPERTY TaskCompletes
