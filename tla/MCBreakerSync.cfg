SPECIFICATION FairSpec
CONSTANTS
    FailCap = 1
    Replicas = {a, b}
    Deployments = {d1}
    MaxCooldown = 2
    Retries = 1
    Durations = {3}
    NoReplica = NoReplica
INVARIANTS
    TypeOK
PROPERTIES
    MarkersSurvive
    EchoDiesOut
    RetirementSpreads
