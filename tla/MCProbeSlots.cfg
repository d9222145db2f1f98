SPECIFICATION SlotsSpec
CONSTANTS
    Probers = {p1, p2, p3}
    Limits = {0, 1, 2, 3}
    MaxReloads = 2
INVARIANTS
    CountsProbes
    NeverOversold
PROPERTIES
    EveryProberIsServed
CHECK_DEADLOCK FALSE
