# A TLA+ model of task-coder-agent

The program is a coding agent behind an HTTP API. A client posts a message to a
session; the server queues a run; one worker thread executes runs one at a time
in the session's workspace and streams what happens as events. A run may be a
whole mission (plan, then for each milestone: code, validate, commit) or one
focused route (answer a question, apply one fix, review, set up). A run may
pause and ask the user for a decision, whose answer queues another run.

Everything lives in one process and in files: there is no database. Two threads
share the state, the event loop, which runs every HTTP handler from start to end
(they are `async def` functions without an await), and the run queue's worker.

Paths below are relative to the repository, as are those in `PROJECT.json`.

## Inventory

Each component, the state it keeps, what it does, what is hard about it, and
what would make it correct.

**Run queue and run registry** (`src/api/run_queue.py`, `run_cancellation.py`,
`routers/messages.py`, `routers/runs.py`, `app.py`).
State: a FIFO queue, the registry of `RunRecord`s in memory, the set of
cancellation tokens, the id of the active run; on disk `runs/<id>.json`,
`messages.jsonl`, the status in `session.json`.
Operations: enqueue, cancel, execute, shutdown, reconciliation at start.
Hard: both threads change the same record, each with its own order of memory,
file, token and log; the process may end between any two of them, also while it
repairs what an earlier one left.
Correct if: no run is lost or executed twice, a cancellation that was reported
holds, files agree with memory, every run ends and is answered.

**Mission loop** (`src/main.py`, `src/run_control.py`).
State: `plan.json`, the copy the run works on, index, count of passed
milestones, retry and replan counters; the mission memory; the workspace's git
history.
Operations: resolve the kind of run, orchestrate or resume, lint, the milestone
loop, retry, replan, hand off, audit, brief; the focused routes.
Hard: the list the loop stands in changes under it; a completed milestone is
recorded in four places one after the other; resumes combine what a crash left;
an approval arrives from the other thread.
Correct if: what is called completed was validated for that plan, completed work
is neither lost nor repeated, runs end.

**Plan editing** (`src/agents/plan_ops.py`, `orchestrator.py`, `plan_lint.py`).
No state; a patch is a list of operations applied to a copy. Correct if
completed milestones and unique ids survive every sequence of operations.

**Mission memory** (`src/memory_layer.py`). A JSON file of completed milestones
and past errors, keyed by plan and milestone, and an optional Cognee backend. Hard: it
is rewritten in place and read as empty when torn.

**Human-in-the-loop decisions** (`src/decisions.py`, `src/api/routers/decisions.py`).
One file with the pending decision of a session; creation by the worker, answer
by a handler that edits `plan.json` and queues a run. Hard: one slot for all
kinds of decision, cleared before the answer has had its effect.

**Event emitter and SSE stream** (`src/events.py`, `src/api/sse.py`,
`frontend/src/api/events.ts`). `events.jsonl`, the subscribers, a queue per
client. Hard: emission on the worker thread, delivery on the event loop, replay
on reconnect by an index computed on delivery. Correct if a client that
reconnects sees every event once and in order.

**Sessions** (`src/session.py`, `src/api/routers/sessions.py`,
`src/session_usage.py`). `session.json`, rewritten whole by several writers.
Hard: lost updates; deletion while a run executes.

**Focused routes** (`src/agents/hotfix.py`, `triage.py`, `ask.py`,
`code_review.py`, `fix_verifier.py`, `escalation.py`, `compact.py`,
`src/chat_mode.py`). Bounded sequences of agent calls that end in a result or in
a decision.

**Worker agent** (`src/agents/worker.py`, `tool_diagnostics.py`,
`src/tool_registry.py`). Conversation, tool budget, failure counts. Hard: several
budgets and stop conditions, not all of which count every turn.

**Validator** (`src/agents/validator.py`, `validation_compiler.py`,
`ui_validation.py`, `contracts.py`). A sequence of stages and a verdict of PASS,
RETRY or REPLAN.

**LLM client** (`src/llm_client.py`, `src/agents/utils.py`). The order of
backends, retries, fallbacks.

**Workspace tools** (`src/tools/`). File edits under the write policy of a
milestone; shells, browsers and git.

**Sandbox** (`src/sandbox/`). Command policy, environment, and a pool of at most
four server processes with their ports.

**Workspace binding** (`src/workspace/`). Identity, git state and the lock of a
workspace root.

**Settings** (`src/settings/`). Layers of settings and their merge.

**Repository exploration and briefs, evaluation harness, read-only endpoints,
web client, fine-tuning pipeline**: text for prompts, offline scoring, lookups,
the fold of the event stream into chat turns, batch scripts.

How they interact: a handler calls `RunQueue.enqueue`; the worker calls
`MissionsRuntime.run`, which calls agents, tools and validator in its own thread,
reads the token set through `ensure_not_cancelled`, and writes plan, memory,
decision and session files; `EventEmitter.emit` calls back into the event loop
for each subscribed client; the decision handler closes the circle by queueing a
run.

## Modules

| module | what it is |
|---|---|
| `RunQueue` | the run queue, its registry, tokens and files, two threads, crashes and restarts |
| `SerialExecutor` | what the queue promises: an abstract serial executor |
| `RunQueueProofs` | theorems about both |
| `PlanPatch` | milestones, and the operators of `apply_plan_patch` and `_save_handoff` on lists of them |
| `PlanPatchProofs` | lemmas about those operators |
| `MissionLoop` | the mission runtime, `plan.json`, the memory store, and the handler that answers a plan approval |
| `MissionPromise` | what executing a mission promises |
| `MissionLoopProofs` | theorems about `MissionLoop` |
| `WritePolicy` | the write jail of a milestone, as operators on a record |
| `WorkerLoop` | one call of `run_worker`: turns, batches, tools, servers; extends `WritePolicy` |
| `MilestoneExecution` | `_execute_milestone`: attempts of the worker, the validator's stages, verdicts; extends `WorkerLoop` |
| `MilestonePromise` | what the execution of a milestone promises its mission |
| `MilestoneProofs` | theorems about these four |
| `FocusedRoutes` | the runs that are no planned mission, and the decisions they leave to the user |
| `FocusedProofs` | theorems about `FocusedRoutes` |
| `EventStream` | the event log, its emitters, the SSE streams and a client that reconnects |
| `EventStreamProofs` | theorems about `EventStream` |
| `SettingsStore` | the settings of the process, their two files, PATCH and PUT |
| `LlmClient` | the calls of a language model by two threads, and the token totals; extends `SettingsStore` |
| `LlmClientProofs` | theorems about `LlmClient` |
| `MCRunQueue`, `MCMissionLoop`, `MCMilestone`, `MCFocused`, `MCLlmClient` | small instances for TLC |

How they fit together: `RunQueue` takes `MissionsRuntime.run` as one external step;
`MissionLoop` and `FocusedRoutes` are what that step does. Both take a milestone
as one step with an outcome, and `MilestoneExecution` is the inside of that step. Its
`MilestonePromise` states the outcomes and the number of attempts the callers
count on. A call of a language model, one step everywhere else, is `LlmClient`.

### RunQueue

One action is one access to shared state. The event-loop thread has the program
counter `hpc` and the locals `hop`, `hrun`, `hmeta`; the worker has `wpc`, `wrun`,
`wres`. `rec` is the status in the registry and `disk` the one in the run's file;
they are separate because `rec.status = ...` and `registry.update(rec)` are
separate statements, and the lock covers only the second. `tokens` is
`RunCancellation._cancelled`, `active` is `_active_run_id`, `chat` is what
`messages.jsonl` says of a run, `meta` the status in `session.json`. A handler
that loaded the session context before another thread saved it writes its old
status back (`hmeta`).

`cancel` is six reads and writes (`CancelRequest` to `CancelLine`), `_execute` is
the chain `CheckToken`, `Mark`, `WorkerSave`, `SetActive`, `Begin`, `Body`,
`Settle`, `SettleSet`, `WorkerLine`, ... `ClearToken`. `Exit` is a crash or a
stop at any moment; a file that is being written may be torn by it. `Start`,
`ReconcileRun`, `ReconcileSession` and `Listen` are the next process.
`MissionsRuntime.run` is external here: it writes a session status at each end and
returns, raises, or stops at a cancellation checkpoint.

### PlanPatch and MissionLoop

A plan is its id, its approval state and a list of milestones; a milestone is an
id and whether it is completed. Titles, criteria and prompts are left out, since
no step of the loop depends on them. `plan.json` is `disk`; the
run's own copy is `plan`; the copy that is about to be written, and the one a
patch is applied to, is `held`. The two readers that treat an absent and an
unparsable file alike are the reason why a torn `plan.json` is `NoPlan`, and a
torn memory store is the empty one.

A run is resolved (`ResolveKind`), routed by chat mode (`PlanApproved`,
`PlanAdjust`, `PlanDraft`, `Build`, `Reply`), planned or resumed (`Plan`,
`Resume`), linted and repaired (`Lint`, `PatchOp`, `PatchDone`), accepted or
paused for approval, and executed: `SkipCompleted`, `StartMilestone`, a cycle
that `Passes`, `Fails`, is `Blocked`, lacks guidance or asks for a replan, then
`Mark`, `MarkSave` (`_save_handoff` reads and writes `plan.json`), `Log` (the
memory store), and at the end `Audit` and `Brief`. `Cancelled` and `Raise` may end
a run at any of its checkpoints. The handler's `Resolve` (loads and checks the decision),
`Clear`, `ReadPlan`, `WritePlan`, `Enqueue` are `resolve_decision`. Two variables
are history: `earned` is what the validator passed, by plan and milestone, and `moved`
the completed milestones that a replan of this run has put in front of the loop again.

Agents, validator and git are external: an action for each answer the code tells
apart. The memory layer is enabled, as it is by default, and a planner's
milestones start pending. A worker call is one step that ends.

### WritePolicy, WorkerLoop and MilestoneExecution

The module globals of `file_ops.py` are the record `pol`; a path is a member of
`Files`, normalised and inside the workspace. `BeginPolicy` is
`begin_milestone_write_policy`, `MayWriteFile`, `MayPatchFile`, `MayReadFile` are
the checks of the tools, `AfterWriteFile` and `AfterReadFile` what the tools
remember.

In `WorkerLoop` the model's turn is an action for each answer that `run_worker` tells
apart (`NonJson`, `AsksScope`, `SaysBlocked`, `SaysComplete`, `Malformed`,
`TakeBatch`, and `Cancelled`, `ModelRaises`, `BudgetSpent` before one), and a batch is
one action per call: `SkipCall`, `RefuseCall`, or a tool. `left` is the
rest of the batch; `count` is `tool_call_count`; `fails` and `consec` are the two
dictionaries the breaker reads and outlive a call, as does `active`, the tools
that `search_tools` added. `pool` is `_PROCESSES` of the process manager and
`alive` the processes that run: they differ, since a process may end by itself
(`ServerDies`) and is only noticed by the next start or list. `Finish` is `_finish`,
which stops the servers the call started, that is, those whose id it was told: the
ready test of `start_server` catches only `OSError` and `URLError`, so a URL with a
bad port or an answer that is no HTTP raises with the server in the table, and
`dispatch` makes that a failed call like any other. `ServeStart` has both ends, and the
history variable `adrift` collects the servers of the second. `ServeFails` is a start
that is refused or whose server is killed. A shell script changes `disk` behind the
policy's back.

`MilestoneExecution` adds the attempts. `phase` says who is at work: `turn` and
`batch` the worker, `ui`, `checks`, `contract`, `review` the validator, `judged` the
retry loop. The validator's stages come in the code's order: compile, audit of the
modified files, UI smoke test or the contract's command, the model's verdict with
its normalisation. What a stage finds is a choice among the outcomes that the
state allows. `UiServerRaises` is the same start that raises, in the UI test, where
it is outside the `try` that stops the server; `UiChecksRaise` is what is raised
inside it. `Over` is the return of the handoff, `RunEnds` the `finally` of `run`.

### FocusedRoutes

One runtime object serves every run, so `brief` (`_escalation_brief`) and `skip`
(`_skip_orchestration`) are variables that a run inherits unless `run()` resets
them. `run` is the run in progress with its locals. `Begin` is the entry of `run()`,
`Route` is triage with `normalize_route`, the ask and review loops count calls
against their budgets, `Execute` is a hotfix milestone (whose attempts are
`MilestoneExecution`), and `Verified`, `Unverified`,
`NeedsRework`, `VerifierEscalates`, `Escalate`, `Merge` what follows. `End`, `Finish`
and `Pause` are the three ways a run ends: silently, with its outcome stamped on
`plan.json`, or with a decision. The decision handler is two steps, `Answer` (load
and check) and one of `Dismiss`, `Approve`, `EscalateByHand`, `FollowUp` (clear and
carry out), because the worker may save another decision in between. The tools are
those that read, those that write, and the checks (`run_checks`, `run_shellscript`),
which a review may call and which run what the workspace defines, so they may
change files. `dirty` is a
history variable: what was changed for a job and not verified since. `Stopped` ends
a run at any checkpoint.

### EventStream

An event is its number. The file is its readable lines in order (`log`), how many of its
lines cannot be read (`torn`; nothing depends on where they stand), and whether it ends
with a newline. `EmitWrites` and `EmitWritten` are the two halves of a write under the
emitter's lock, with a crash that may tear the line between them; a line that is begun
behind a torn one is glued to it, and neither can be read. `subs` is the list of
subscribers of each emitter the process made, in the order of subscription, and `Notify`
is one callback. `RunBegins`, `RunEnds` and `Connect` resolve the emitter through the
two registries of `events.py`, active and shared. The generator subscribes
(`Subscribe`), reads the file (`ReadHistory`), replays (`Replay`), follows (`Follow`,
which computes the id at that moment) and unsubscribes when it is closed. The client is
an `EventSource`: it sends the last id it was given when it reconnects, and a positive
`?since=` in its URL goes before it.

### SettingsStore and LlmClient

Settings are the list of providers, which are enabled, their keys and the order of
fallback; the other sections are merged in the same way. `settings` is the object in
memory, `json` and `secrets` the two files. `Load` is the first `get_settings` with the
migration of `.env` and the overlay of the environment; `Among` is the comprehension
that keeps a list's order, and `Patch` is PATCH or PUT; `SaveSettings` and `SaveSecrets`
are the two writes of a save.

In `LlmClient` a thread's call has a role, the chain computed at its start and the
position in it. A provider serves each role with a model of its own (`Model`), and what
is learned is kept by base URL and model name (`Models`): two providers of one model share
an entry, two roles of one provider may not. `TryBackend` looks the provider up again
and takes the request's shape from what was learned; `Refused` changes, remembers and
retries; `Unusable` goes to the next provider; `Fatal` is a status that is no reason to
and ends the call. `limits` is what each model refuses, chosen once. `Frank` models name
the field they refuse; `Healthy` pairs of a provider and a frank model answer. `usage`
counts calls in `session.json`, in the contexts that threads hold, and those recorded
at all.

## Runs

| run | instance | what it shows |
|---|---|---|
| `queue_safety` | 2 runs of a session, 3 processes, 2 results, symmetric runs | a queued run is always in some hand (`NoLostRun`), files agree with memory (`PersistedOrPending`), what a dead process left is settled (`NoOrphanOnDisk`), a reported cancellation holds (`CancelReceiptHolds`), and the queue implements `SerialExecutor` |
| `queue_liveness` | 2 runs, 1 process, fair threads | every queued run is settled on disk, every executed run is answered |
| `queue_restart` | 1 run, 3 processes | what is queued is settled by a later process, also when one dies while reconciling |
| `mission_safety` | 3 milestone ids, plans of two, 1 cycle, 1 replan each, 2 plans, 2 runs, 1 crash; no answer during a run; patches may insert again what they removed | what is called completed was validated (`DoneIsEarned`, `CompletedIsEarned`), nothing is forgotten, or repeated unless a replan moves it back (`NeverRedone`, `DiskIsCurrent`, `DiskKeepsDone`), the count is honest (`PassedIsHonest`), and missions implement `MissionPromise` |
| `mission_liveness` | 2 ids, plans of one, every chat mode, 2 cycles, 1 replan each, 1 plan, 2 runs, 1 crash, approvals at any moment, fair threads | every run ends, also the one that resumes after a crash, and the count is honest even when a plan is approved during a run |
| `mission_removal` | 4 ids, a plan of three, 1 cycle, 1 replan each, 1 run | the disagreement below: expected to be violated |
| `milestone_safety` | 3 files (source, new test, old test), shell, batches of 2, failure limits 3, budget 2, 2 attempts, 1 execution | a call stays within budget and batch, the breaker holds over attempts, a PASS delivered its files, tests of the user are not touched, and retries implement `MilestonePromise` |
| `milestone_servers` | 2 servers and a table of one, 1 file, 2 executions, starts that raise, fair thread | no server outlives the call that started it unless its start raised, none the run, and an execution ends |
| `focused_routes` | 2 files, one of them risky; 5 kinds of request; 3 runs, 2 of them posted; budgets 3 | every answer that is offered can be carried out, a mission builds what was asked for with its own brief, completed means verified, every run ends |
| `event_stream` | 3 events, 2 connections, 1 crash that may tear a line, `?since` 0 or 1, fair generator | nothing is lost between replay and live events, repeats only at the seam, no replay of what the client has seen, every event arrives |
| `event_resume` | 2 events, 2 connections | the disagreement below: expected to be violated |
| `llm_client` | 2 providers, one with a key in `.env` and one in the environment, 2 roles, 2 models that both providers serve, 4 bodies, 2 calls, 2 patches, 1 crash | a restart keeps the settings, no provider that works is passed over but where a status ends the call (`NoWorkingProviderIsPassedOver`), a refused field stays out, what is learned is true, tokens are counted exactly |

Why the bounds are enough. *Queue*: two runs are what order, a busy worker and a lost
token need; the third process lets one die while it reconciles what the first left.
*Missions*: three ids leave a replan of a two-milestone plan a new id to insert before,
at or after the loop's position. The program's defaults are three cycles and two replans
of a milestone; in `mission_liveness` two cycles separate a first from a last one, in
`mission_safety` one cycle is enough, because what a retry changes is only the count of
retries and the last fingerprint, and one replan separates a patch that is asked for
from one the budget refuses. Two plans are what the memory store could confuse, and the
second run is the resume after the crash. In `mission_liveness` the plan is one
milestone and a patch can add the second. `mission_removal` needs two completed
milestones, one to remove and one to insert. *Milestones*: a batch of two against a
budget of two is the smallest that overruns it; a limit of three failures is reached
only by failures of two attempts or of two batches; the second execution of
`milestone_servers` finds what the first left. *Focused*: a request, its follow-up and
the follow-up of that are what it takes to pass a decision's milestone on twice, and the
two posts let one run be stopped before another. *Events*: two events waiting and one
being written are what order and the computed ids need, two connections a reconnect.
*Calls*: two providers are a fallback, and the limits hold a model that refuses two
fields, which takes the three shapes of `MaxShapes`, and one that refuses both token
fields; each model is served by both providers, to different roles, so a call may find
what was learned through the other; two calls let both threads learn of one model, and
the second patch is saved over the first.

The constants that are bounds of the models and not of the code: `MaxBoots`,
`MaxPlans`, `MaxRuns`, `MaxPosts`, `MaxCrashes`, `MaxExecs`, `MaxEvents`,
`MaxConns`, `MaxCalls`, `MaxPatches`; `Ids` bounds the length of patches.
`MaxRetry`, `MaxRetries`, `MaxReplans`, `BatchCap`, `SameFail`, `ConsecFail`,
`NonJsonMax`, `MaxServers`, `MaxShapes` and the budgets are the program's own limits,
with smaller values (`MaxShapes` is 5 in the code and 3 in the run).

A patch may insert again an id that it has removed, and so move a milestone. The
code allows it for any milestone that is not completed; a completed one then stands
in front of the loop again when the current one is moved before it, or removed while
another is inserted. The run counts and executes it again. `moved`
collects these, and `PassedIsHonest` and `NeverRedone` are about the rest: that nothing
*else* makes a run count or execute a milestone twice.

`QuietSpec` leaves out the behaviours in which a plan approval
is answered while a run executes. The code allows them too, and with them
`DoneIsEarned`, `DiskIsCurrent` and `DiskKeepsDone` fail: see the disagreements. What
holds with them is `PassedIsHonest`, which `mission_liveness` checks.

Deadlock is checked in the two milestone runs. In the others a server with an empty
queue and no client waits, and the counters of runs are bounded.

### Fairness

- `RunQueue!FairSpec`: weak fairness of the worker thread, of a handler that
  has started and of the next process's start-up: each is a thread that the
  operating system keeps scheduling and whose calls time out. A server that is
  stopping exits; clients, crashes and shutdowns have no fairness.
- `MissionLoop!FairSpec`: the worker and the handler. A patch is a finite list, so
  `PatchOp` has none and `PatchDone` or `PatchRejected` ends it. That a milestone
  ends is what `ExecutionEnds` below is about.
- `MilestoneExecution!FairSpec`: the run's thread, in the worker and outside it. A server's
  death has none. `ExecutionEnds` carries its assumption in the formula: a call ends
  if the model does not give answers that nothing counts (`Uncounted`: a refused
  "complete", an object that is neither call nor status, a call without a name)
  for ever. The code has no bound on those, so without the hypothesis the property
  is false.
- `FocusedRoutes!FairSpec`: the worker thread without `AskRepeats` and
  `ReviewRepeats`, that is, answers that can be used come at last. As above, a
  malformed turn resets or uses no budget in these loops.
- `EventStream!FairSpec`: an `emit` that was begun goes on; each generator and the
  network deliver. No run has to begin, no connection has to last.
- `LlmClient` has no liveness: the attempts with one provider are
  bounded by `MaxShapes` and the chain is finite.

## What is proved

`RunQueueProofs`, for any sets of runs and sessions and any number of restarts: type
correctness; no run is lost and a run shown as running is being executed; a cancelled
run stays blocked and keeps its receipt (`CancellationHolds`); disk and memory agree
(`DiskAgrees`), and a listening server has no orphan of an earlier process on disk
(`NoOrphans`), whenever that process died; and the queue implements `SerialExecutor`
(`Refinement`). All follow from `IInv`. The properties alone are not inductive: that a
reported cancellation holds depends on the token still being set for every run that is
queued or in the worker's hand (`PromiseInv`), that on a run being in one place at a
time (`QueueInv`) and on what each program counter says of the record (`RecordInv`,
`ControlInv`).

`PlanPatchProofs`: inserting and removing keep a list of milestones, its completed ids
and the uniqueness of ids, marking adds exactly one. The proofs go through the position
that `FirstAt` and `LastAt` choose.

`MissionLoopProofs`, for any ids, plans, budgets, requests and numbers of plans,
runs and crashes, and patches of any length:

- under `Spec`, so with answers at any moment and patches that move milestones:
  `TypeCorrect` (with the budgets never overrun) and `CompletedStaysInThePlan`.
  The invariant is `Shape`: a plan that is executed exists, the loop stands at one
  of its milestones, and a copy being patched has the same completed ids as the
  plan it came from.
- under `Spec`, if planning calls give every milestone an id of its own (`UniquePlans`):
  `PassedStaysHonest` and `CompletedIsNotRedone`. The invariant is `Places`: ids stay
  unique in every copy of the plan; the milestones counted are at most the different
  completed ones behind the loop; and in a run that has made its plan itself all that is
  completed is behind the loop, or was moved back. The last part is why a milestone is
  not redone when the run is no resume, where `SkipCompleted` does not ask the memory
  store. The step that matters is `StaysBehind`: where `ReAnchor` goes on, a completed
  milestone that was behind the loop still is, or is in `MovedBack`. `UniquePlans` is a
  hypothesis: nothing in the code checks a planner's answer for it
  (`orchestrator.py:255`), and without it a count over ids says nothing. TLC checks both
  properties on instances that satisfy it.
- under `QuietSpec`: `CompletedMilestonesAreEarned`, `CompletedMissionsAreEarned`,
  `PlanFileIsCurrent`, `CompletedStaysInTheFile` and `MissionsKeepTheirPromise`, the
  refinement. The invariant is `IInv`, which adds `InStep`: between any two steps
  the run's plan and `plan.json` agree on plan id, milestone ids and completed ids,
  but for the milestone that is just being handed over. Without it nothing relates
  what a crash leaves on disk to what the validator passed. `QuietSpec` is a
  hypothesis and not a fact of the code.

`MilestoneProofs`, for any files, tools, servers, limits and numbers of attempts and
executions:

- `TypeCorrect`, and from `IInv == TypeOK /\ Limits` the theorems `CallsStayBounded`
  and `TheBreakerHolds`. The bounds alone are not inductive: a refused call adds to
  `count` without a look at the budget, so the invariant bounds `count + left` while
  a batch is open; and that no turn follows a breaker needs the failures to be below
  their limits wherever the breaker is not set, the ways out of a call included.
- `ServersAreStopped` from `Slots`: what is in the table and not adrift was started,
  outside of a call, by the UI test in progress, and inside one by that call.
- `PassLeavesItsFiles` from `FilesKept`: the targets are on disk from the moment
  "complete" is accepted until the verdict.
- `ExistingTestsStay` from `Guarded`: while a milestone is in work the policy is the
  one opened for it, and none of the tests that existed then is among the fresh ones.
- `RetriesImplementThePromise`, the refinement, from `Trying`: the first attempt has
  no earlier signature to repeat, so a FAIL comes after it.

`FocusedProofs`, for any files, requests, budgets and numbers of runs, and wherever a
run is stopped. All four rest on `Shape`, which says what fields the run and the plan
have, and none of the properties is inductive alone:

- `BriefsAreTheirOwn` from `Stashed`: who is about to merge has just stashed his own
  brief, and nobody carries evidence before that, so a brief that a stopped run left
  in the shared runtime is never merged.
- `MissionsBuildTheirRequest` from `Resumes`: a request in the queue, or the running
  one, that skips orchestration is a resume.
- `OfferedAnswersAreServable` from `Carries`: a fix has its milestone wherever it is
  offered, chosen, queued or carried out.
- `CompletedMeansVerified` from `Answerable`: a run reports no changed files before a
  fix was carried out.

`EventStreamProofs`, for any number of events, connections, crashes and torn lines, any
`?since=`, and runs that begin and end under a stream:

- `TypeCorrect`, which the other three need: what is a queue, a wire or a list.
- `NothingIsLost` and `RepeatsStayAtTheSeam`, from one invariant `IInv`. `Shape` says that
  all streams and runs of a process use one emitter and that a live stream is in
  its list once, which is what the two registries of `events.py` must achieve; that the log
  is in order (`LogInOrder`); and `Faithful` of each stream, what it has, in the
  state it is in, of the events since its subscription, and in which order. The
  properties speak of open streams alone and are not inductive: an event that is
  emitted between subscription and read is in the queue long before the stream is open.
- `NothingSeenIsReplayed` from `Cursor`: ids on a wire do not fall, and none is below
  the place of its event in the file, however many lines are torn, so all that a client
  was given stands before the start of its next connection. It holds for clients that
  come without a `?since=`, as the property says: a `?since=` is a wish to see events
  again.

`LlmClientProofs`, for any providers, limits, settings and bodies, any number of
calls and both threads:

- `UsageStaysExact` from `Counted`: no context holds a higher total than the file.
- `LearnedStaysTrue` from `ShapesHonest`: what is remembered of a model that names what
  it refuses, and every shape a call tries with it, leaves out only what it refuses. The
  table alone is not enough: a thread writes it from the shape it tried, which it may
  have taken long ago.
- `RestartsKeepSettings` from `StoreInv`: what a start would read from the two files
  and lay the environment over is what is in memory, but for what the environment
  names; between the two writes of a save the file of settings already fits the save.
- `WorkingProvidersAreNotPassedOver` and `RefusedFieldsStayOut` from `Walks`: whoever a
  call has passed over could not answer or was taken out of the settings during the
  call, and the attempts with a provider are one more than the fields it refused. The
  first is about every end of a call without an answer; where a status ended it, about
  the providers up to the one it is from. Both are about models that refuse
  fewer fields than `MaxShapes` (`Adaptable`); one that refuses more is given up, as in
  the code.

The assumptions on constants are the named `ASSUME`s of the modules, which TLC
evaluates on the runs.

Every invariant that a run checks is a theorem, and so is every action property and
refinement. Only model-checked is liveness, which is out of the prover's reach, as is
ENABLED: `EventuallySettled`, `EveryExecutedRunIsAnswered`, `RunEnds`, `ExecutionEnds`,
`RunsEnd`, `EveryEventArrives`; and the two properties that `mission_removal` and
`event_resume` refute.

## Where code and documentation disagree

Shown by a run: `mission_removal`. When a replan removes the milestone the loop is at, the
loop keeps its index (`main.py:996`) to "continue with whatever followed it" (`:992-993`).
If the same patch inserts one before, also behind a completed anchor, which
`plan_ops.py:149-156` takes, the index is that of a completed milestone: with A and
B completed, C removed and D inserted after A, the loop executes B
again, counts it twice, never visits D, and the mission is reported partial.

Shown by a run: `event_resume`. `src/api/sse.py:16-18` says that a client resumes
where it left off; the id of a live event is the number of lines in the file when it
is *sent* (`:73`), so when two events wait both get the id of the second, and a client
that loses its connection between them never gets the second.

Met while modelling, without a run of their own. Queue:

- After a restart one lookup of a run hides a session's other stored runs from its
  list (`run_queue.py:184`, against `:18-19`).
- A run cancelled between the worker's check and its write of "running" is reported
  cancelled, then overwritten, started, and stopped at its first checkpoint
  (`run_queue.py:426-434`); cancelled between that write and `_active_run_id`
  (`:437`) it takes the branch for a run whose worker died.
- A run cancelled at the right moment ends without an answer in the chat (`:432`,
  against `:19-21`).
- The message that triggers a run is logged after the run is queued
  (`messages.py:38-48`): an answer can stand above its question.

Missions:

- After a crash between `plan.json` and the memory store the resumed run executes a
  milestone that the plan calls completed (`main.py:886`, against `:431-432`).
- A replan that moves the current milestone before a completed one repeats the
  completed one (`main.py:985`, against `plan_ops.py:16`).
- An approval answered during a run can unmark a completed milestone, because both
  threads rewrite `plan.json` without a lock (`decisions.py:237`, against `plan_ops.py:16`).
  The run queued for an approved plan builds whatever `plan.json` holds when it
  starts (`decisions.py:78`, against `:67` and `:89`).
- A planner's answer may repeat an id (`orchestrator.py:255`): a resumed run takes
  the second milestone for done, and the mission is reported completed.
- A crash after the last milestone and before the outcome makes the next message a
  repair of a mission that was never reported (`main.py:599-604`). A failed planning
  call leaves `session.json` at "running" (`:802`).
- "partial" and "failed" are taken for a draft that waits (`chat_mode.py:76-79`): a
  build asked to be new resumes the plan of the ended mission (`main.py:785-791`). An
  escalated focused run finds a waiting draft and builds that. `BuildsItsRequest` excepts
  both.
- A replan that removes every milestone ends the mission as "completed", none of none
  (`main.py:1013`): no property of completed milestones says anything of it.

Worker and validator:

- After a REPLAN the test that the milestone itself created exists when the next
  execution begins, and is protected from it (`file_ops.py:99`, against `README.md:29` and
  `tests/test_file_policy.py:17`).
- The question of a worker that the breaker stopped is put under
  `needs_clarification`, and the runtime reads `clarification` (`main.py:2333`): the
  milestone is blocked and no replan is asked for.
- A PASS with guidance becomes a REPLAN, though the docstring speaks only of FAIL
  (`validator.py:1126-1135`). A REPLAN of the UI smoke test carries no guidance and
  costs an attempt. Some FAIL verdicts carry no signature, though `README.md:678` says
  every one does. A missing `flake8` passes a test milestone with a lint profile as "red
  phase" (`validator.py:842-912`).
- A server started in a call that ends with an exception lives until the run ends. So
  does one whose own start raises (`process_manager.py:113-122`, `:192-196`), also after
  its call returned, or after the UI test, which says it will "always stop it"
  (`ui_validation.py:12`): nobody has its id, and it takes a slot of the table.
  A start on a port where another process answers may report a dead process as ready.

Focused routes:

- The handler loads the decision, checks it, and removes the file: one saved by the
  worker in between is removed unread.
- A repair of the toolchain that fails offers to apply its own packet as a fix, which
  may complete without a new verification of the touched files (`main.py:1850`).
  `CompletedIsVerified` is about what a run's own packet changed, and does not see it. A
  verifier's escalation may be overruled by triage.
- A review is called read-only (`code_review.py:84`), and its `run_checks` and
  `run_shellscript` run code of the workspace, which may change files.
- A focused route stamps its outcome on whatever `plan.json` holds
  (`main.py:2113-2122`), a draft that waits for approval included.
- Some branches cannot be reached: no targets (`:1881`), no actionable targets
  (`:1995`), an empty packet (`:1814`).

Settings and model calls:

- A status such as 404, 408 or 422 ends a call at once (`llm_client.py:574-575`), and
  the providers behind it are not asked.
- After a crash between the two files of the very first save the keys of `.env` are
  never imported (`README.md:188` says they are imported once): the settings name the
  providers, and `secrets.json` is missing. After a crash during a PATCH of a
  provider's address and key the new address has the old key. Neither save was
  acknowledged, so `RestartKeepsSettings` says nothing of them.
- A key can be replaced and never cleared; that of a removed provider stays in
  `secrets.json`.
- The environment wins over the file only at a start: a PATCH goes over it, and
  persists what was laid over.
- Without a usable id in `fallback_order` every enabled provider is tried, though
  the README says that a provider is not used until it is added.
- A refusal that names no field is taken for `max_tokens` and remembered. Two threads
  overwrite each other's entry in that table.
- A stream that breaks off after some text and falls back goes on in the same turn of the
  client. When every provider fails, the stream that was announced is never ended.
- `session.json` is written whole from old contexts: a rename or another
  model set by PATCH may be undone by the run (`session.py:291`); a session deleted during
  its run is created again (`sessions.py:128`).

## Plan

Done: `RunQueue`, `SerialExecutor`; `PlanPatch`, `MissionLoop`, `MissionPromise`;
`WritePolicy`, `WorkerLoop`, `MilestoneExecution`, `MilestonePromise`;
`FocusedRoutes`; `EventStream`; `SettingsStore`, `LlmClient`; the proofs listed above.

Left, in order:

1. An abstract event log, of which each connection is a reader, as a refinement of
   `EventStream`; `Course` is its mapping.
2. `NeverRedone` and `PassedIsHonest` under a weaker hypothesis than `UniquePlans`: what
   still holds of a plan that repeats an id.
3. Lemmas of `FocusedRoutes` and `MilestoneExecution` that bound their runs: a measure
   that every counted step lowers, the safety half of `RunsEnd` and `ExecutionEnds`.

## Not modelled

- **Repository exploration, briefs, evaluation, telemetry, uploads, the web client's
  views, the fine-tuning scripts**: text, lookups, and batch passes over files, with no
  state whose order matters.
- **Workspace binding**: identity and git state are functions of the file system; the
  lock of a root is only ever taken by the one worker thread, so nothing contends for
  it.
- **Deletion and creation of sessions**, titles and other fields of `session.json`: they
  are written whole, and no property could hold of them beyond what is said above.
- **Cognee and the error log of the memory layer**, the file of resolved decisions, the
  archive of old plans: written, and never read for a decision of the program.
- **External**: language models, git, shells, browsers, the network. An action or a
  choice stands for each answer the code tells apart.

Abstractions that all models share: emitting an event does not fail; a request that is
refused by validation changes nothing; provider ids are unique; several sessions share
only the queue, which serialises them, so the mission models follow one; a planner's
milestones start pending and, in the checked instances, have unique ids.
