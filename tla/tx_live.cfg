\* Only the process writes; the modem core may hang up and flush the FIFO.
SPECIFICATION FairSpec
CONSTANTS
    N = 2
    Chars = {c}
    Nul = Nul
    UIntMod = 16
    MaxCount = 2
    TtyFlush = FALSE
    Others = FALSE
    Wakeup = 1
    Asks = {3}
    L2Size = 1
PROPERTIES WriterProceeds DrainEnds
