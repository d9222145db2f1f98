CONSTANTS
    a = a
    b = b
    j1 = j1
    j2 = j2
    r1 = r1
    r2 = r2
    NoOwner = NoOwner
    Former = Former
    NoJob = NoJob
    Instances = {a}
    Jobs = {j1, j2}
    Requests = {r1, r2}
    Operators = {r2}
    Key <- MCKey
    Actuals = {1, 2}
    QueueCap = 1
    Retention = FALSE
    MaxCrashes = 1
    MaxFaults = 1
SYMMETRY JobSymmetry
SPECIFICATION Spec
INVARIANTS NoReservationLeft ForcedIsNotCompleted OneJobPerKey
PROPERTY KeepsPromise
CHECK_DEADLOCK FALSE
