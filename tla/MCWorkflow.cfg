\* One gateway over its file store.
CONSTANTS
    Nodes <- JoinNodes
    Edges <- JoinEdges
    Outcomes <- JoinOutcomes
    Selects <- JoinSelects
    MaxAttempts <- JoinAttempts
    Workers = {gateway}
    NoOwner = NoOwner
    PerAttempt = FALSE
    Labels = {"L", "R"}
    Effectful = {3}
    Gated = {3}
    Approval = {2}
    Unmappable = {3}
    RetryTimeout = {1}
    Requests = {q}
    Answers = {"approved", "rejected"}
    Cancellable = TRUE
    Contexts = {"expired"}
    MaxCrashes = 1
    MaxFaults = 1
    MaxIncidents = 1

SPECIFICATION WorkflowSpec
INVARIANTS WorkflowTypeOK EffectOnce AndJoin
PROPERTY ParkedIsKept
CHECK_DEADLOCK FALSE
