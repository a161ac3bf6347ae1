\* Two runs of one process, under the fairness of both threads.
CONSTANTS
    r1 = r1
    r2 = r2
    r3 = r3
    s1 = s1
    s2 = s2
    Runs = {r1, r2}
    Sessions = {s1}
    SessionOf <- OneSession
    NoRun = NoRun
    Outcomes = {"failed"}
    MaxBoots = 1
SPECIFICATION FairSpec
PROPERTIES
    EventuallySettled
    EveryExecutedRunIsAnswered
\* A server with an empty queue and no client waits for ever.
CHECK_DEADLOCK FALSE
