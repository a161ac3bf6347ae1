--------------------------- MODULE MissionPromise ---------------------------
(***************************************************************************)
(* What executing a mission promises, without threads, files or budgets.   *)
(*                                                                         *)
(* A mission is opened for a plan.  Its milestones are completed one by    *)
(* one, each only after the validator passed it for that plan; meanwhile   *)
(* the plan may be amended, but what is completed stays in it.  The        *)
(* mission is reported completed only when every milestone of the plan as  *)
(* it then stands is completed.  At any moment it may stop, by a           *)
(* cancellation, an error or the end of the process.                       *)
(***************************************************************************)
EXTENDS Naturals

CONSTANTS Ids, Pids

VARIABLES
    run,     \* "idle", "open", or how the mission ended
    of,      \* id of the plan that is executed
    ids,     \* milestones of the plan
    done,    \* the completed ones
    proven   \* <<plan id, milestone id>> the validator passed

vars == <<run, of, ids, done, proven>>
Ends == {"completed", "partial", "failed"}

Nothing == run' = "idle" /\ of' = 0 /\ ids' = {} /\ done' = {}

Init == run = "idle" /\ of = 0 /\ ids = {} /\ done = {} /\ proven = {}

Open ==
    /\ run = "idle" /\ run' = "open"
    /\ of' \in Pids
    /\ ids' \in SUBSET Ids
    /\ done' \in SUBSET ids'
    /\ \A x \in done' : <<of', x>> \in proven
    /\ UNCHANGED proven

Prove(x) ==
    /\ run = "open" /\ x \in ids
    /\ proven' = proven \cup {<<of, x>>}
    /\ UNCHANGED <<run, of, ids, done>>

Complete(x) ==
    /\ run = "open" /\ x \in ids /\ <<of, x>> \in proven
    /\ done' = done \cup {x}
    /\ UNCHANGED <<run, of, ids, proven>>

Amend ==
    /\ run = "open"
    /\ ids' \in SUBSET Ids /\ done \subseteq ids'
    /\ UNCHANGED <<run, of, done, proven>>

Report(end) ==
    /\ run = "open" /\ run' = end
    /\ end = "completed" => done = ids
    /\ UNCHANGED <<of, ids, done, proven>>

Stop == run # "idle" /\ Nothing /\ UNCHANGED proven

Next == \/ Open \/ Amend \/ Stop
        \/ \E x \in Ids : Prove(x) \/ Complete(x)
        \/ \E end \in Ends : Report(end)

Spec == Init /\ [][Next]_vars
=============================================================================
