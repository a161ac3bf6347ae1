\* One run of a plan of three milestones, and a fourth that a replan may insert.
CONSTANTS
    a = a
    b = b
    c = c
    d = d
    noSig = noSig
    sig1 = sig1
    Ids = {a, b, c, d}
    FirstPlans <- ThreeMilestones
    Sigs = {sig1}
    NoSig = noSig
    Requests <- OnlyBuild
    Answers = {}
    MaxRetry = 1
    MaxReplans = 1
    MaxPlans = 1
    MaxRuns = 1
    MaxCrashes = 0
SPECIFICATION Spec
PROPERTIES
    ContinuesWithWhatFollowed
\* An idle session with no more requests waits for ever.
CHECK_DEADLOCK FALSE
