SPECIFICATION Spec
CONSTANTS
    FailCap = 2
    Deployments = {d1}
    Scopes = {streaming, tools}
    Configs <- MCConfigs
    Durations = {1, 3}
INVARIANTS
    CooldownHasDeadline
    RetiredUntilIdentityChanges

    
