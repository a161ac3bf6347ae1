\* Two runs of one session; the process may crash or be stopped twice.
CONSTANTS
    r1 = r1
    r2 = r2
    r3 = r3
    s1 = s1
    s2 = s2
    Runs = {r1, r2}
    Sessions = {s1}
    SessionOf <- OneSession
    NoRun = NoRun
    Outcomes = {"completed", "failed"}
    MaxBoots = 3
SPECIFICATION Spec
SYMMETRY RunSymmetry
INVARIANTS
    TypeOK
    NoLostRun
    PersistedOrPending
    NoOrphanOnDisk
    CancelReceiptHolds
PROPERTIES
    ImplementsSerialExecutor
\* A server with an empty queue and no client waits for ever.
CHECK_DEADLOCK FALSE
