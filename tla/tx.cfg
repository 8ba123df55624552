\* Other contexts send characters and flush the output while the process writes.
SPECIFICATION Spec
CONSTANTS
    N = 2
    Chars = {c}
    Nul = Nul
    UIntMod = 16
    MaxCount = 2
    TtyFlush = TRUE
    Others = TRUE
    Wakeup = 2
    Asks = {2}
    L2Size = 1
INVARIANTS TypeOK CountersSound NothingLost NoOverrun NoLostWriteWakeup
