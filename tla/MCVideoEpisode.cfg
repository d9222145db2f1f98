CONSTANTS
    a = a
    b = b
    j1 = j1
    r1 = r1
    NoOwner = NoOwner
    Former = Former
    NoJob = NoJob
    Instances = {a}
    Jobs = {j1}
    Requests = {r1}
    Operators = {r1}
    Key <- MCKey
    Actuals = {1}
    QueueCap = 1
    Retention = FALSE
    MaxCrashes = 1
    MaxFaults = 1
    Shots = 2
    Takes = {5}
SPECIFICATION EpisodeFairSpec
INVARIANTS EpisodeTypeOK EachShotSubmittedOnce ShotsInOrder EpisodeIsBilled
PROPERTIES CheckpointsAreKept EpisodeComesToRest
CHECK_DEADLOCK FALSE
