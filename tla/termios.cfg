\* Three requests and three speeds, one of which softserial_set_ldisc does not know.
SPECIFICATION Spec
CONSTANTS
    Speeds <- MCSpeeds
    KnownSpeeds <- MCKnownSpeeds
    Requests <- MCRequests
INVARIANTS TypeOK InSync
