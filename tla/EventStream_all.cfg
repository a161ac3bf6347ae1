\* One client, two connections, three events, one crash that may tear a line.
CONSTANTS
    MaxEvents = 3
    MaxConns = 2
    MaxCrashes = 1
    SinceParams = {0, 1}
SPECIFICATION FairSpec
INVARIANTS
    NothingSlips
    RepeatsOnlyAtTheSeam
    NoReplayOfSeen
PROPERTIES
    EveryEventArrives
CHECK_DEADLOCK FALSE
