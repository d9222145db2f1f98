SPECIFICATION CircuitSpec
CONSTANTS
    FailCap = 3
    Providers = {p1}
    Reporters = {r1, r2, r3}
    IncidentConfigs <- MCConfigs
    Lags = {0, 1}
    AgeCap = 4
SYMMETRY Symmetry
INVARIANTS
    EvidenceMatchesCircuit
PROPERTIES
    OpensOnlyOnCorroboration
    LateResultsKeepCircuitOpen
