\* Two contexts send at once: the room check is out of date under the lock.
SPECIFICATION Spec
CONSTANTS
    N = 2
    Chars = {c1}
    Nul = Nul
    Producers = {p1, p2}
    TtyFlush = FALSE
    UIntMod = 16
    MaxCount = 6
INVARIANT StoredOnlyWithRoom
