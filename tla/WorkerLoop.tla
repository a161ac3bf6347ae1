------------------------------ MODULE WorkerLoop ------------------------------
(***************************************************************************)
(* One call of run_worker (src/src/agents/worker.py): the model is asked    *)
(* for a turn, the turn is an answer that ends the call, a refused answer,  *)
(* or a batch of tool calls, and the loop goes on until the tool budget is  *)
(* spent.  The tools act on the workspace through the write jail and on the *)
(* table of development servers (src/src/sandbox/process_manager.py).       *)
(*                                                                          *)
(* A tool call is one step; the contract auto-run and the UI nudges only    *)
(* add text to the conversation and are left out.                           *)
(***************************************************************************)
EXTENDS WritePolicy, Naturals

CONSTANTS
  Discoverable,     \* tools that search_tools may add to the active ones
  Sigs,             \* signatures of tool failures
  Servers,          \* server ids
  MaxServers,       \* _MAX_SERVERS
  BatchCap,         \* max_worker_batch_calls
  SameFail,         \* max_same_tool_failures
  ConsecFail,       \* max_consecutive_tool_failures
  NonJsonMax        \* _NON_JSON_RETRIES

ASSUME WorkerAssumption ==
  /\ IsFiniteSet(Servers)
  /\ {MaxServers, BatchCap, SameFail, ConsecFail, NonJsonMax} \subseteq Nat \ {0}

VARIABLES
  targets,    \* the target_files of the milestone in work
  phase,      \* where the worker is: "idle", "turn", "batch", "returned", "raised"
  budget,     \* tool budget of this call (worker or hotfix profile)
  result,     \* what run_worker returned: status and whether it asks something
  count,      \* tool_call_count
  nonJson,    \* non_json_retries
  left,       \* calls of the batch not handled yet
  discovered, \* discovery_in_batch
  breaker,    \* breaker_reason is set
  fails,      \* failure_counts, kept across the attempts of a milestone
  consec,     \* consecutive_failures, kept likewise
  active,     \* active_tools beyond the core ones, kept likewise
  modified,   \* files_modified of this call
  disk,       \* the files that exist
  pol,        \* the write policy
  pool,       \* _PROCESSES: the servers in the table
  alive,      \* those whose process runs
  started,    \* started_server_ids of this call
  adrift      \* history: the servers in the table whose start_server raised

localVars == <<budget, count, nonJson, left, discovered, breaker>>
loopVars == <<targets, phase, result, localVars>>
keptVars == <<fails, consec, active>>
fileVars == <<modified, disk, pol>>
serverVars == <<pool, alive, started, adrift>>
workerVars == <<loopVars, keptVars, fileVars, serverVars>>

Statuses == {"complete", "blocked", "request_scope", "cancelled"}
NoResult == [status |-> "complete", asks |-> FALSE]

\* The loop's test, and a new call of run_worker with what earlier ones left.
TakingTurns == phase = "turn" /\ count < budget

StartCall(b) ==
  /\ phase' = "turn"
  /\ budget' = b
  /\ result' = NoResult
  /\ count' = 0 /\ nonJson' = 0 /\ left' = 0
  /\ discovered' = FALSE /\ breaker' = FALSE
  /\ modified' = {} /\ started' = {}

\* The local variables of a call that is over.
ClearLocals ==
  /\ budget' = 0 /\ count' = 0 /\ nonJson' = 0 /\ left' = 0
  /\ discovered' = FALSE /\ breaker' = FALSE

\* The servers adrift are those that still are in the table, and these.
Drift(new) == adrift' = (adrift \cap pool') \cup new

\* Mutant: the servers are left running.
FinishLeavesServers(status, asks) ==
  /\ phase' = "returned"
  /\ result' = [status |-> status, asks |-> asks]
  /\ started' = {}
  /\ UNCHANGED <<pool, alive, adrift>>
  /\ ClearLocals

\* _finish: the servers this call started are stopped and dropped.
Finish(status, asks) ==
  /\ phase' = "returned"
  /\ result' = [status |-> status, asks |-> asks]
  /\ pool' = pool \ started
  /\ alive' = alive \ started
  /\ started' = {}
  /\ Drift({})
  /\ ClearLocals

\* The call goes on with another turn.
AnotherTurn == UNCHANGED <<phase, budget, result, count, left, discovered, breaker, serverVars>>

(***************************************************************************)
(* Answers that are no tool call.                                           *)
(***************************************************************************)
Cancelled ==
  /\ TakingTurns
  /\ Finish("cancelled", FALSE)
  /\ UNCHANGED <<keptVars, fileVars>>

ModelRaises ==
  /\ TakingTurns
  /\ phase' = "raised"
  /\ ClearLocals
  /\ UNCHANGED <<result, keptVars, fileVars, serverVars>>

\* Unparsable text: NonJsonMax of them in a row end the call.
NonJson ==
  /\ TakingTurns
  /\ IF nonJson + 1 >= NonJsonMax
       THEN Finish("blocked", FALSE)
       ELSE AnotherTurn /\ nonJson' = nonJson + 1
  /\ UNCHANGED <<keptVars, fileVars>>

\* request_scope, with or without paths, and blocked, with or without a question.
AsksScope ==
  /\ TakingTurns
  /\ \E asks \in BOOLEAN : Finish("request_scope", asks)
  /\ UNCHANGED <<keptVars, fileVars>>

SaysBlocked ==
  /\ TakingTurns
  /\ \E asks \in BOOLEAN : Finish("blocked", asks)
  /\ UNCHANGED <<keptVars, fileVars>>

Delivered == targets \subseteq disk

\* Mutant: complete is taken at its word.
SaysCompleteUnchecked ==
  /\ TakingTurns
  /\ Finish("complete", FALSE)
  /\ UNCHANGED <<keptVars, fileVars>>

\* complete: refused, without counting a call, while a target file is missing or
\* an import of one is not installed.
SaysComplete ==
  /\ TakingTurns
  /\ \E reported \in {{}} \cup {{f} : f \in Files}, installed \in BOOLEAN :
       /\ modified' = modified \cup reported
       /\ IF Delivered /\ installed
            THEN Finish("complete", FALSE)
            ELSE AnotherTurn /\ nonJson' = 0
  /\ UNCHANGED <<keptVars, disk, pol>>

\* An object with neither "tool", "calls" nor a known status.
Malformed ==
  /\ TakingTurns
  /\ nonJson' = 0
  /\ UNCHANGED <<phase, budget, result, count, left, discovered, breaker,
                 keptVars, fileVars, serverVars>>

\* Mutant: the cap lets one call more through.
TakeBatchOverCap ==
  /\ TakingTurns
  /\ nonJson' = 0
  /\ phase' = "batch"
  /\ left' \in 1 .. BatchCap + 1
  /\ discovered' = FALSE
  /\ UNCHANGED <<budget, result, count, breaker, keptVars, fileVars, serverVars>>

\* A batch, cut to BatchCap calls.
TakeBatch ==
  /\ TakingTurns
  /\ nonJson' = 0
  /\ phase' = "batch"
  /\ left' \in 1 .. BatchCap
  /\ discovered' = FALSE
  /\ UNCHANGED <<budget, result, count, breaker, keptVars, fileVars, serverVars>>

\* The budget is spent: complete without a word from the model, unless a target
\* file is missing.
BudgetSpent ==
  /\ phase = "turn"
  /\ count >= budget
  /\ Finish(IF Delivered THEN "complete" ELSE "blocked", FALSE)
  /\ UNCHANGED <<keptVars, fileVars>>

(***************************************************************************)
(* The calls of a batch.                                                    *)
(***************************************************************************)
InBatch == phase = "batch" /\ left > 0

\* A call that is neither counted nor executed: no tool name, or it follows a
\* search_tools of the same batch.
SkipCall ==
  /\ InBatch
  /\ left' = left - 1
  /\ UNCHANGED <<phase, budget, result, count, nonJson, discovered, breaker,
                 keptVars, fileVars, serverVars>>

Failed(sig) ==
  /\ fails' = [fails EXCEPT ![sig] = @ + 1]
  /\ consec' = consec + 1
  /\ breaker' = (fails[sig] + 1 >= SameFail \/ consec + 1 >= ConsecFail)

\* validate_tool_call refuses it: counted, but the budget is not tested again.
RefuseCall ==
  /\ InBatch
  /\ ~discovered
  /\ count' = count + 1
  /\ \E sig \in Sigs : Failed(sig)
  /\ left' = IF breaker' THEN 0 ELSE left - 1
  /\ UNCHANGED <<phase, budget, result, nonJson, discovered, active, fileVars, serverVars>>

\* What every executed call does after the tool answered.
CallFinished ==
  /\ count' = count + 1
  /\ left' = IF breaker' \/ count + 1 >= budget THEN 0 ELSE left - 1
  /\ UNCHANGED <<phase, budget, result, nonJson>>

Succeeded ==
  /\ consec' = 0
  /\ UNCHANGED <<fails, breaker>>
  /\ CallFinished

FailedCall ==
  /\ \E sig \in Sigs : Failed(sig)
  /\ CallFinished

Call == InBatch /\ ~discovered

\* search_tools: what it finds is callable from the next turn on.
SearchTools ==
  /\ Call
  /\ discovered' = TRUE
  /\ active' \in {active \cup new : new \in SUBSET Discoverable}
  /\ Succeeded \/ FailedCall
  /\ UNCHANGED <<fileVars, serverVars>>

ReadFile(f) ==
  /\ Call
  /\ IF MayReadFile(disk, f)
       THEN Succeeded /\ pol' = AfterReadFile(pol, f)
       ELSE FailedCall /\ UNCHANGED pol
  /\ UNCHANGED <<discovered, active, modified, disk, serverVars>>

WriteFile(f, rewrite) ==
  /\ Call
  /\ IF MayWriteFile(pol, disk, f, rewrite)
       THEN /\ Succeeded
            /\ pol' = AfterWriteFile(pol, disk, f)
            /\ disk' = disk \cup {f}
            /\ modified' = modified \cup {f}
       ELSE FailedCall /\ UNCHANGED fileVars
  /\ UNCHANGED <<discovered, active, serverVars>>

\* matches: the search string occurs exactly once.
PatchFile(f, matches) ==
  /\ Call
  /\ IF MayPatchFile(pol, disk, f) /\ matches
       THEN Succeeded /\ modified' = modified \cup {f}
       ELSE FailedCall /\ UNCHANGED modified
  /\ UNCHANGED <<discovered, active, disk, pol, serverVars>>

\* run_shellscript, when it was discovered: the script may create or delete any
\* file; the write jail does not see it.
RunShell(f, creates) ==
  /\ Call
  /\ "run_shellscript" \in active
  /\ disk' = IF creates THEN disk \cup {f} ELSE disk \ {f}
  /\ Succeeded \/ FailedCall
  /\ UNCHANGED <<discovered, active, modified, pol, serverVars>>

\* A tool that changes nothing this model keeps: list_directory, run_pytest...
OtherTool ==
  /\ Call
  /\ Succeeded \/ FailedCall
  /\ UNCHANGED <<discovered, active, fileVars, serverVars>>

(***************************************************************************)
(* serve_app and inspect_ui.                                                *)
(***************************************************************************)
CanServe == Call /\ "serve_app" \in active

\* start_server: dead servers give up their slots and a full table refuses.  The
\* ready test reads a URL, so it also succeeds when another process answers at
\* that port and the new one is already dead.  An answer that is no HTTP makes it
\* raise something it does not catch: the call fails like any other tool, but the
\* server stays in the table, and no call knows its id.
ServeStart(s) ==
  /\ CanServe
  /\ s \notin pool \cup started
  /\ Cardinality(alive) < MaxServers
  /\ pool' = alive \cup {s}
  /\ alive' \in {alive \cup {s}, alive}
  /\ \/ started' = started \cup {s} /\ Drift({}) /\ Succeeded
     \/ started' = started /\ Drift({s}) /\ FailedCall
  /\ UNCHANGED <<discovered, active, fileVars>>

\* It is refused, before or after the dead servers are dropped, or what it started
\* does not get ready and is killed and dropped.
ServeFails ==
  /\ CanServe
  /\ pool' \in {pool, alive}
  /\ Drift({})
  /\ FailedCall
  /\ UNCHANGED <<discovered, active, fileVars, alive, started>>

ServeStop(s) ==
  /\ CanServe
  /\ pool' = pool \ {s}
  /\ alive' = alive \ {s}
  /\ IF s \in pool
       THEN Succeeded /\ started' = started \ {s}
       ELSE FailedCall /\ UNCHANGED started
  /\ Drift({})
  /\ UNCHANGED <<discovered, active, fileVars>>

\* A probe that finds the text missing is a handoff: it fails, but clears the
\* run of failures and is not counted as one.
InspectUi(s) ==
  /\ Call
  /\ "inspect_ui" \in active
  /\ IF s \in alive THEN Succeeded \/ FailedCall ELSE FailedCall
  /\ UNCHANGED <<discovered, active, fileVars, serverVars>>

\* A server's process may end by itself, at any time.
ServerDies(s) ==
  /\ s \in alive
  /\ alive' = alive \ {s}
  /\ UNCHANGED <<loopVars, keptVars, fileVars, pool, started, adrift>>

\* Mutant: the breaker's reason is reported, and the loop goes on.
BatchEndsAnyway ==
  /\ phase = "batch"
  /\ left = 0
  /\ phase' = "turn"
  /\ discovered' = FALSE /\ breaker' = FALSE
  /\ UNCHANGED <<budget, result, count, nonJson, left, serverVars, keptVars, fileVars>>

\* After the last call: the breaker ends the attempt.  Its question is put under
\* a key that the runtime does not read, so it asks nothing.
BatchEnds ==
  /\ phase = "batch"
  /\ left = 0
  /\ IF breaker
       THEN Finish("blocked", FALSE)
       ELSE /\ phase' = "turn"
            /\ discovered' = FALSE
            /\ UNCHANGED <<budget, result, count, nonJson, left, breaker, serverVars>>
  /\ UNCHANGED <<keptVars, fileVars>>

\* Asking for the list of servers drops the dead ones.
ServeList ==
  /\ CanServe
  /\ pool' = alive
  /\ Drift({})
  /\ Succeeded
  /\ UNCHANGED <<discovered, active, fileVars, alive, started>>

WorkerStep ==
  /\ \/ Cancelled \/ ModelRaises \/ NonJson \/ AsksScope \/ SaysBlocked
     \/ SaysComplete \/ Malformed \/ TakeBatch \/ BudgetSpent
     \/ SkipCall \/ RefuseCall \/ SearchTools \/ OtherTool \/ BatchEnds
     \/ ServeList \/ ServeFails
     \/ \E f \in Files : ReadFile(f)
     \/ \E f \in Files, b \in BOOLEAN :
          WriteFile(f, b) \/ PatchFile(f, b) \/ RunShell(f, b)
     \/ \E s \in Servers : ServeStart(s) \/ ServeStop(s) \/ InspectUi(s) \/ ServerDies(s)
  /\ UNCHANGED targets
==============================================================================
