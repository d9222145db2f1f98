SPECIFICATION Spec
CONSTANTS
    Deployments = {d1}
    Workers = {w1}
    QueueCap = 1
    Seqs = {1, 2, 3, 4}
    None = None
    Progress <- MCProgress
    FirstTry <- MCFirstTry
    FailCap = 1
    Requests = {r1}
    Attempts = 1
    Threshold = 1
    RecoveryCooldown = 1
    SweepsEnabled = TRUE
    ReloadKinds = {"identity", "strategy", "remove", "add"}
    MaxReloads = 1
PROPERTIES
    RecoversWhenUpstreamStays
    RecoveryStops
