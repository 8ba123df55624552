\* The core is the only producer; two characters, limits of two and three.
SPECIFICATION RxFairSpec
CONSTANTS
    N = 3
    Chars = {c1, c2}
    Nul = Nul
    Producers = {core}
    TtyFlush = FALSE
    UIntMod = 16
    MaxCount = 8
    Limit = 2
    FlipSize = 3
INVARIANTS RxTypeOK InBounds AllPushed
PROPERTIES QueueSpec RxOrder SendReturns
