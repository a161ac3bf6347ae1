\* Two runs of plans of up to three milestones, with one crash, no answer to
\* a plan approval while a run executes.
CONSTANTS
    a = a
    b = b
    c = c
    d = d
    noSig = noSig
    sig1 = sig1
    Ids = {a, b, c}
    FirstPlans <- TwoMilestones
    Sigs = {sig1}
    NoSig = noSig
    Requests <- PlanAndBuild
    Answers = {"approve", "dismiss"}
    MaxRetry = 1
    MaxReplans = 1
    MaxPlans = 2
    MaxRuns = 2
    MaxCrashes = 1
SPECIFICATION QuietSpec
INVARIANTS
    TypeOK
    DoneIsEarned
    CompletedIsEarned
    PassedIsHonest
    NeverRedone
    DiskIsCurrent
PROPERTIES
    DiskKeepsDone
    KeepsPromise
\* An idle session with no more requests waits for ever.
CHECK_DEADLOCK FALSE
