\* Two processes; the count does not wrap round.
SPECIFICATION Spec
CONSTANTS
    Procs = {p1, p2}
    RefMod = 4
    MaxIrqs = 2
PROPERTY LastOneStops
