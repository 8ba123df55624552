\* hamregistry may come, go, and be interrupted at any time.
SPECIFICATION FairSpec
CONSTANTS
    Preempt = TRUE
    MaxRequests = 3
INVARIANTS TypeOK AnswerMatches UnservedInAtomic
PROPERTIES GivesUpOnlyUnreached RequestEnds WakeReaches
CHECK_DEADLOCK FALSE
