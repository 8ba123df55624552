\* A context that switches DTR and RTS, the modem core, and a process in TIOCMIWAIT.
SPECIFICATION FairSpec
CONSTANTS
    Setters = {s1}
    Waiters = {p1}
    Core = Core
    Calls <- SomeCalls
    Status <- TwoStatus
    Masks = {{"CTS"}}
INVARIANTS TypeOK ExternalIntKept NoMissedChange
PROPERTY HangupSeen
