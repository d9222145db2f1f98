CONSTANTS
    a = a
    b = b
    j1 = j1
    j2 = j2
    r1 = r1
    r2 = r2
    NoOwner = NoOwner
    Former = Former
    NoJob = NoJob
    Instances = {a, b}
    Jobs = {j1}
    Requests = {r1}
    Operators = {}
    Key <- MCKey
    Actuals = {1}
    QueueCap = 1
    Retention = TRUE
    MaxCrashes = 0
    MaxFaults = 0
SPECIFICATION FairSpec
INVARIANTS OneSubmission SubmissionIsRecorded OneTokenPerInstance
PROPERTY JobComesToRest
CHECK_DEADLOCK FALSE
