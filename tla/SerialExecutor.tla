--------------------------- MODULE SerialExecutor ---------------------------
(***************************************************************************)
(* What a serial run queue promises its clients, without threads, disks or *)
(* program counters: jobs start one at a time, in the order they were      *)
(* submitted and at most once; a job whose cancellation was asked for      *)
(* while it waited never starts, and a client is told "cancelled before it *)
(* started" only about such a job; a restart of the process loses the jobs *)
(* it held and never brings one back.                                      *)
(***************************************************************************)
EXTENDS Sequences

CONSTANTS Jobs,
          None   \* not a job

VARIABLES waiting,  \* submitted and not started, oldest first
          asked,    \* waiting jobs whose cancellation was asked for
          told,     \* waiting jobs reported as cancelled
          current,  \* the job being executed
          retired   \* jobs that will never start (again)

executor == <<waiting, asked, told, current, retired>>

Waiting == {waiting[i] : i \in DOMAIN waiting}
Fresh(j) == j \notin Waiting \cup retired \cup {current}

Init ==
    /\ waiting = <<>> /\ asked = {} /\ told = {}
    /\ current = None /\ retired = {}

Submit(j) ==
    /\ Fresh(j)
    /\ waiting' = Append(waiting, j)
    /\ UNCHANGED <<asked, told, current, retired>>

Ask(j) ==
    /\ j \in Waiting
    /\ asked' = asked \cup {j}
    /\ UNCHANGED <<waiting, told, current, retired>>

Tell(j) ==
    /\ j \in asked
    /\ told' = told \cup {j}
    /\ UNCHANGED <<waiting, asked, current, retired>>

Start ==
    /\ current = None /\ waiting # <<>> /\ Head(waiting) \notin asked
    /\ current' = Head(waiting) /\ waiting' = Tail(waiting)
    /\ UNCHANGED <<asked, told, retired>>

Drop ==
    /\ current = None /\ waiting # <<>> /\ Head(waiting) \in asked
    /\ waiting' = Tail(waiting)
    /\ asked' = asked \ {Head(waiting)} /\ told' = told \ {Head(waiting)}
    /\ retired' = retired \cup {Head(waiting)}
    /\ UNCHANGED current

Finish ==
    /\ current # None
    /\ current' = None /\ retired' = retired \cup {current}
    /\ UNCHANGED <<waiting, asked, told>>

\* Jobs that were on their way in are lost with the rest.
Restart ==
    /\ \E lost \in SUBSET {j \in Jobs : Fresh(j)} :
         retired' = retired \cup lost \cup Waiting \cup ({current} \cap Jobs)
    /\ waiting' = <<>> /\ asked' = {} /\ told' = {} /\ current' = None

Next ==
    \/ \E j \in Jobs : Submit(j) \/ Ask(j) \/ Tell(j)
    \/ Start \/ Drop \/ Finish \/ Restart

Spec == Init /\ [][Next]_executor
=============================================================================
