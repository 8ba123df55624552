\* Three processes, and a count that wraps round when all have the device open.
SPECIFICATION Spec
CONSTANTS
    Procs = {p1, p2, p3}
    RefMod = 3
    MaxIrqs = 2
SYMMETRY Symmetry
CONSTRAINT FewTroubles
INVARIANTS TypeOK OnWhileOpen OffWhenClosed RegistersMapped TtyAlive
PROPERTY ModemShared
