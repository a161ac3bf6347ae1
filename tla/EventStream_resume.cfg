\* Two events that wait in the queue of a stream get the same id.
CONSTANTS
    MaxEvents = 2
    MaxConns = 2
    MaxCrashes = 0
    SinceParams = {0}
SPECIFICATION Spec
INVARIANT
    ResumeLosesNothing
CHECK_DEADLOCK FALSE
