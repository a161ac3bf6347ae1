\* Every run ends and counts honestly, in every chat mode, whatever agents answer and
\* with plans approved at any moment, also the run that resumes after a crash.
CONSTANTS
    a = a
    b = b
    c = c
    d = d
    noSig = noSig
    sig1 = sig1
    Ids = {a, b}
    FirstPlans <- OneMilestone
    Sigs = {sig1}
    NoSig = noSig
    Requests <- EveryMode
    Answers = {"approve"}
    MaxRetry = 2
    MaxReplans = 1
    MaxPlans = 1
    MaxRuns = 2
    MaxCrashes = 1
SPECIFICATION FairSpec
INVARIANTS
    PassedIsHonest
PROPERTIES
    RunEnds
\* An idle session with no more requests waits for ever.
CHECK_DEADLOCK FALSE
