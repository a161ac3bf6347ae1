---------------------------- MODULE MissionLoop ----------------------------
(***************************************************************************)
(* The mission path of MissionsRuntime.run (src/main.py) for one session,  *)
(* with what outlives a run: plan.json, the completion memory and the plan *)
(* approval a client may still answer.                                     *)
(*                                                                         *)
(* Two threads write plan.json.                                            *)
(*   - The worker thread executes one run at a time: it resolves the kind  *)
(*     of the run, plans or resumes, lints, then executes the milestones,  *)
(*     each with bounded retries and bounded replans.  pc, req, kind,      *)
(*     plan, held, idx, passed, replans, seen, retry, prev are its locals. *)
(*   - The event-loop thread answers POST /decisions: it reads plan.json,  *)
(*     changes the approval state and writes it back.  hpc, hact, hheld    *)
(*     and hpid are its locals.                                            *)
(*                                                                         *)
(* One action is one access to plan.json or to the memory store.  The      *)
(* worker agent, the validator and git are external: Passes, AsksReplan,   *)
(* Blocked, GuidanceMissing and Fails are what they may answer.  earned    *)
(* and moved are history variables.                                        *)
(***************************************************************************)
EXTENDS PlanPatch

CONSTANTS FirstPlans,  \* the ids a planning call may answer with, in order
          Sigs, NoSig, \* failure fingerprints, and the empty one
          Requests,    \* [mode, kind, phrase, skip]: what clients ask for
          Answers,     \* how clients answer a plan approval
          MaxRetry,    \* MAX_RETRY_CYCLES
          MaxReplans,  \* settings.runtime.max_replans_per_milestone
          MaxPlans,    \* bound: planning calls that succeed
          MaxRuns,     \* bound: runs started
          MaxCrashes   \* bound: crashes of the server

ASSUME FirstPlansAssumption == FirstPlans \subseteq Seq(Ids) \ {<<>>}
ASSUME NoSigAssumption == NoSig \notin Sigs
ASSUME AnswersAssumption == Answers \subseteq {"approve", "dismiss"}
ASSUME BudgetAssumption == MaxRetry \in Nat \ {0} /\ MaxReplans \in Nat
ASSUME BoundsAssumption == MaxPlans \in Nat /\ MaxRuns \in Nat /\ MaxCrashes \in Nat
ASSUME RequestsAssumption ==
    Requests \subseteq [mode : {"ask", "plan", "build"}, kind : {"auto", "new", "resume", "repair"},
                        phrase : BOOLEAN, skip : BOOLEAN]

Pids == 1..MaxPlans
Approval == {"none", "draft", "approved", "dismissed", "executing",
             "completed", "partial", "failed"}

\* plan.json.  A file that is absent and one that does not parse are the
\* same to every reader.
NoPlan == [pid |-> 0, app |-> "none", ms |-> <<>>]

\* No run: the locals of an idle worker, or of an idle handler.
NoRequest == [mode |-> "build", kind |-> "auto", phrase |-> FALSE, skip |-> FALSE]
Zero  == [x \in Ids |-> 0]
Empty == [x \in Ids |-> {}]

VARIABLES
    disk,       \* plan.json
    mem,        \* <<plan id, milestone id>> the memory store calls completed
    decision,   \* plan id of the pending plan approval, or 0
    approvals,  \* how many runs of approved plans are queued
    result,     \* status of the MissionResult being reported
    pids, runs, crashes,             \* counters
    pc, req, kind, plan, held, idx, passed, replans, seen, retry, prev,
    hpc, hact, hpid, hheld,
    earned,     \* history: <<plan id, milestone id>> the validator passed
    moved       \* history: the completed milestones behind the loop that a
                \* replan of this run put in front of it

counters == <<pids, runs, crashes>>
loop     == <<idx, passed, replans, seen, moved>>
cycle    == <<retry, prev>>
handler  == <<hpc, hact, hpid, hheld>>
stored   == <<mem, decision, approvals>>
vars == <<disk, mem, decision, approvals, result, pids, runs, crashes, pc, req, kind,
          plan, held, idx, passed, replans, seen, retry, prev, hpc, hact, hpid, hheld,
          earned, moved>>

Awaiting(p) ==
    Pending(p.ms) /\ p.app \notin {"approved", "executing", "completed", "dismissed"}

ResetLoop ==
    /\ idx' = 1 /\ passed' = 0 /\ replans' = Zero /\ seen' = Empty
    /\ moved' = {}

ResetCycle == retry' = 0 /\ prev' = NoSig

\* The run is over, with the status the comments name: its locals are gone.
ResetWorker ==
    /\ pc' = "idle" /\ req' = NoRequest /\ kind' = "auto" /\ result' = "none"
    /\ plan' = NoPlan /\ held' = NoPlan
    /\ ResetLoop /\ ResetCycle

ResetHandler == hpc' = "idle" /\ hact' = "dismiss" /\ hpid' = 0 /\ hheld' = NoPlan

Init ==
    /\ disk = NoPlan /\ mem = {} /\ decision = 0 /\ approvals = 0
    /\ result = "none"
    /\ pids = 0 /\ runs = 0 /\ crashes = 0
    /\ pc = "idle" /\ req = NoRequest /\ kind = "auto" /\ plan = NoPlan /\ held = NoPlan
    /\ idx = 1 /\ passed = 0 /\ replans = Zero /\ seen = Empty
    /\ retry = 0 /\ prev = NoSig
    /\ hpc = "idle" /\ hact = "dismiss" /\ hpid = 0 /\ hheld = NoPlan
    /\ earned = {} /\ moved = {}

-----------------------------------------------------------------------------
(* The start of a run.                                                     *)

Begin(r) ==
    /\ pc = "idle"
    /\ runs < MaxRuns
    /\ pc' = "resolve" /\ req' = r /\ runs' = runs + 1
    /\ UNCHANGED <<disk, mem, decision, result, pids, crashes, kind, plan, held, loop, cycle,
                   handler, earned>>

\* A client's request, or the run an approved plan was queued with.
Ask(r) == Begin([mode |-> r.mode, kind |-> r.kind, phrase |-> r.phrase,
                 skip |-> r.skip])
          /\ UNCHANGED approvals

BeginApproved ==
    /\ approvals > 0
    /\ Begin([mode |-> "build", kind |-> "resume", phrase |-> FALSE, skip |-> TRUE])
    /\ approvals' = approvals - 1

\* _resolve_run_kind
ResolveKind ==
    /\ pc = "resolve"
    /\ kind' = IF req.kind # "auto" THEN req.kind
               ELSE IF Pending(disk.ms) THEN "resume"
               ELSE IF disk.ms # <<>> THEN "repair"
               ELSE "new"
    /\ pc' = "load"
    /\ UNCHANGED <<disk, stored, result, counters, req, plan, held, loop, cycle, handler, earned>>

\* previous_plan = self._load_plan(session), a second read of plan.json
Load ==
    /\ pc = "load"
    /\ plan' = disk
    /\ pc' = "route"
    /\ UNCHANGED <<disk, stored, result, counters, req, kind, held, loop, cycle, handler, earned>>

-----------------------------------------------------------------------------
(* Mode routing: _run_plan_mode, and the build path up to orchestration.   *)

\* Approved in the chat, the draft is written back as approved; by the skip
\* flag, it is not.  Both go on to build what plan.json then holds.
PlanApproved ==
    /\ pc = "route" /\ req.mode = "plan" /\ Awaiting(plan)
    /\ req.skip \/ req.phrase
    /\ disk' = IF req.skip THEN disk ELSE [plan EXCEPT !.app = "approved"]
    /\ req' = [req EXCEPT !.mode = "build", !.skip = TRUE]
    /\ pc' = "reload"
    /\ UNCHANGED <<stored, result, counters, kind, plan, held, loop, cycle, handler, earned>>

Reload ==
    /\ pc = "reload"
    /\ plan' = disk
    /\ kind' = "resume"
    /\ pc' = "skip_orch"
    /\ UNCHANGED <<disk, stored, result, counters, req, held, loop, cycle, handler, earned>>

PlanAdjust ==
    /\ pc = "route" /\ req.mode = "plan" /\ Awaiting(plan)
    /\ ~req.skip /\ ~req.phrase
    /\ held' = plan
    /\ pc' = "adjust"
    /\ UNCHANGED <<disk, stored, result, counters, req, kind, plan, loop, cycle, handler, earned>>

PlanDraft ==
    /\ pc = "route" /\ req.mode = "plan" /\ ~Awaiting(plan)
    /\ kind' = IF kind \in {"new", "repair"} THEN kind ELSE "new"
    /\ pc' = "orchestrate"
    /\ UNCHANGED <<disk, stored, result, counters, req, plan, held, loop, cycle, handler, earned>>

\* Build mode; the request takes the mission route.
Build ==
    /\ pc = "route" /\ req.mode = "build"
    /\ pc' = "skip_orch"
    /\ UNCHANGED <<disk, stored, result, counters, req, kind, plan, held, loop, cycle,
                   handler, earned>>

\* Ask mode answers and leaves the mission alone.
Reply ==
    /\ pc = "route" /\ req.mode = "ask"
    /\ ResetWorker   \* "completed"
    /\ UNCHANGED <<disk, stored, counters, handler, earned>>

\* A request that is not a resume may take a focused route: a review or a
\* hotfix.  It ends in _finish_focused_result, which writes the outcome of the
\* route to whatever mission plan.json holds (_refresh_mission_brief) ...
FocusedLoad(status) ==
    /\ pc = "route" /\ req.mode = "build" /\ kind # "resume"
    /\ held' = disk /\ result' = status
    /\ pc' = "focused"
    /\ UNCHANGED <<disk, stored, counters, req, kind, plan, loop, cycle, handler, earned>>

FocusedSave ==
    /\ pc = "focused"
    /\ disk' = IF held.ms = <<>> THEN disk ELSE [held EXCEPT !.app = result]
    /\ ResetWorker
    /\ UNCHANGED <<stored, counters, handler, earned>>

\* ... or pauses for a decision of another type, which takes the place of a
\* plan approval that is pending.
FocusedPause ==
    /\ pc = "route" /\ req.mode = "build" /\ kind # "resume"
    /\ decision' = 0
    /\ ResetWorker   \* "awaiting_decision"
    /\ UNCHANGED <<disk, mem, approvals, counters, handler, earned>>

\* skip_orch: a plan that waits for approval is built, whatever the kind.
SkipOrchestration ==
    /\ pc = "skip_orch"
    /\ IF (req.skip \/ Awaiting(plan)) /\ plan.ms # <<>>
       THEN /\ kind' = "resume"
            /\ plan' = [plan EXCEPT !.app = "executing"]
            /\ disk' = plan'
       ELSE UNCHANGED <<kind, plan, disk>>
    /\ pc' = "orchestrate"
    /\ UNCHANGED <<stored, result, counters, req, held, loop, cycle, handler, earned>>

-----------------------------------------------------------------------------
(* run_orchestration, lint and acceptance of the plan.                     *)

Resumable == kind = "resume" /\ Pending(disk.ms)

\* The plan is read ...
Resume ==
    /\ pc = "orchestrate" /\ Resumable
    /\ plan' = disk
    /\ pc' = "resume"
    /\ UNCHANGED <<disk, stored, result, counters, req, kind, held, loop, cycle, handler, earned>>

\* ... and written back, with the defaults of fields it lacked.
ResumeSave ==
    /\ pc = "resume"
    /\ disk' = plan
    /\ pc' = "lint"
    /\ UNCHANGED <<stored, result, counters, req, kind, plan, held, loop, cycle, handler, earned>>

\* Mutant: a repair keeps the id of the plan it replaces.
SamePid == IF disk.pid # 0 THEN disk.pid ELSE pids + 1

\* plan["plan_id"] = a new uuid
NewPid == pids + 1

\* A planning call answers; the plan gets a new plan_id and replaces plan.json.
Plan(ids) ==
    /\ pc = "orchestrate" /\ ~Resumable
    /\ pids < MaxPlans
    /\ pids' = pids + 1
    /\ plan' = [pid |-> NewPid, app |-> "none", ms |-> [i \in DOMAIN ids |-> Todo(ids[i])]]
    /\ disk' = plan'
    /\ pc' = "lint"
    /\ UNCHANGED <<stored, result, runs, crashes, req, kind, held, loop, cycle, handler, earned>>

\* No valid plan after the correction: "failed", without a last status.
PlanningFails ==
    /\ pc = "orchestrate" /\ ~Resumable
    /\ ResetWorker   \* "failed"
    /\ UNCHANGED <<disk, stored, counters, handler, earned>>

\* _lint_and_repair_plan: the fixes, if any, are written; the issues, if
\* any, go to the orchestrator for one patch.
Lint ==
    /\ pc = "lint"
    /\ \/ UNCHANGED disk
       \/ disk' = plan
    /\ \/ pc' = "accept" /\ UNCHANGED held
       \/ pc' = "repair" /\ held' = plan
    /\ UNCHANGED <<stored, result, counters, req, kind, plan, loop, cycle, handler, earned>>

\* In build mode the plan is executing; in plan mode it is a draft.
Accept ==
    /\ pc = "accept"
    /\ plan' = [plan EXCEPT !.app = IF req.mode = "build" THEN "executing" ELSE "draft"]
    /\ disk' = plan'
    /\ pc' = IF req.mode = "build" THEN "loop" ELSE "pause"
    /\ UNCHANGED <<stored, result, counters, req, kind, held, loop, cycle, handler, earned>>

\* _pause_for_plan
Pause ==
    /\ pc = "pause"
    /\ decision' = plan.pid
    /\ ResetWorker   \* "awaiting_decision"
    /\ UNCHANGED <<disk, mem, approvals, counters, handler, earned>>

-----------------------------------------------------------------------------
(* _request_plan_patch, for a lint repair, a replan or a user's adjustment *)

\* The milestone the loop is at.
Here == plan.ms[idx].id

Patching == {"repair", "replan", "adjust"}

\* One operation of the patch is applied to the copy.
PatchOp ==
    /\ pc \in Patching
    /\ \/ \E after, new \in Ids :
            /\ CanInsert(held.ms, after, new)
            /\ held' = [held EXCEPT !.ms = InsertMilestone(@, after, new)]
       \/ \E x \in Ids :
            /\ Editable(held.ms, x)
            /\ held' = [held EXCEPT !.ms = RemoveMilestone(@, x)]
    /\ UNCHANGED <<disk, stored, result, counters, pc, req, kind, plan, loop, cycle,
                   handler, earned>>

\* Mutant: the patched plan is executed from its start.
StartOver(ms) == 1

\* Where the loop goes on after a replan of the milestone it was at: at the
\* same milestone by id, or, when it was removed, at the same index.
ReAnchor(ms) ==
    LET x == plan.ms[idx].id IN IF x \in IdsOf(ms) THEN FirstAt(ms, x) ELSE idx

\* The completed milestones before a position, and those the loop has gone past.
DoneBefore(ms, i) == {ms[j].id : j \in {k \in DOMAIN ms : k < i /\ ms[k].done}}
Behind == DoneBefore(plan.ms, idx)

\* History: those that ms has after the milestone the loop is at, or, without
\* that milestone, where it was or after that.
MovedBack(ms) ==
    {y \in Behind : IF Here \in IdsOf(ms) THEN FirstAt(ms, Here) < FirstAt(ms, y)
                                          ELSE idx <= FirstAt(ms, y)}

\* The patch is accepted and saved.  A patch that changes nothing here is one
\* that updates fields, which needs a pending milestone to update.
PatchDone ==
    /\ pc \in Patching
    /\ held # plan \/ Pending(plan.ms)
    /\ plan' = IF pc = "adjust" THEN [held EXCEPT !.app = "draft"] ELSE held
    /\ disk' = plan'
    /\ held' = NoPlan
    /\ pc' = CASE pc = "repair" -> "accept"
               [] pc = "replan" -> "loop"
               [] pc = "adjust" -> "pause"
    /\ idx' = IF pc = "replan" THEN ReAnchor(held.ms) ELSE idx
    /\ moved' = IF pc = "replan" THEN moved \cup MovedBack(held.ms) ELSE moved
    /\ UNCHANGED <<stored, result, counters, req, kind, passed, replans, seen, cycle,
                   handler, earned>>

\* Neither the answer nor its correction is a valid patch, or the call fails:
\* a lint repair is given up, a replan halts the mission.
PatchRejected ==
    /\ pc \in {"repair", "replan"}
    /\ pc' = IF pc = "repair" THEN "accept" ELSE "audit"
    /\ held' = NoPlan
    /\ UNCHANGED <<disk, stored, result, counters, req, kind, plan, loop, cycle, handler, earned>>

AdjustmentFails ==
    /\ pc = "adjust"
    /\ ResetWorker   \* "failed"
    /\ UNCHANGED <<disk, stored, counters, handler, earned>>

-----------------------------------------------------------------------------
(* The milestone loop.                                                     *)

Key  == <<plan.pid, Here>>
More == idx <= Len(plan.ms)

\* Mutant: the memory is not separated by plan, nor kept for resumed runs.
RememberedByName == \E p \in Pids : <<p, Here>> \in mem

\* Only a resumed run believes the memory, and only about this plan.
Remembered == kind = "resume" /\ Key \in mem

\* Mutant: only plan.json is told, by _save_handoff.
MarkNothing == plan

\* ms["status"] = "completed"
MarkHere == [plan EXCEPT !.ms[idx].done = TRUE]

SkipCompleted ==
    /\ pc = "loop" /\ More /\ Remembered
    /\ plan' = MarkHere
    /\ disk' = plan'
    /\ passed' = passed + 1 /\ idx' = idx + 1
    /\ UNCHANGED <<stored, result, counters, pc, req, kind, held, replans, seen, moved,
                   cycle, handler, earned>>

StartMilestone ==
    /\ pc = "loop" /\ More /\ ~Remembered
    /\ pc' = "cycle"
    /\ ResetCycle
    /\ UNCHANGED <<disk, stored, result, counters, req, kind, plan, held, loop, handler, earned>>

LoopEnds ==
    /\ pc = "loop" /\ ~More
    /\ pc' = "audit"
    /\ UNCHANGED <<disk, stored, result, counters, req, kind, plan, held, loop, cycle,
                   handler, earned>>

\* _check_cancelled, and a worker agent that stops: the first checkpoint that
\* sees the token ends the run.
Cancelled ==
    /\ \/ pc \in {"route", "cycle"}
       \/ pc = "loop" /\ More
    /\ ResetWorker   \* "cancelled"
    /\ UNCHANGED <<disk, stored, counters, handler, earned>>

\* Any exception out of the mission body.
Raise ==
    /\ pc # "idle"
    /\ ResetWorker   \* "error"
    /\ UNCHANGED <<disk, stored, counters, handler, earned>>

-----------------------------------------------------------------------------
(* _execute_milestone: one cycle is the worker agent, then the validator.  *)

\* PASS: git_commit is dispatched, and its answer only reported.
Passes ==
    /\ pc = "cycle"
    /\ pc' = "mark"
    /\ earned' = earned \cup {Key}
    /\ UNCHANGED <<disk, stored, result, counters, req, kind, plan, held, loop, cycle,
                   handler>>

\* A failure of the milestone that the loop answers by halting: a bare
\* block, or retries that are exhausted.
Halt == pc' = "audit" /\ UNCHANGED cycle

Blocked ==
    /\ pc = "cycle"
    /\ Halt
    /\ UNCHANGED <<disk, stored, result, counters, req, kind, plan, held, loop, handler, earned>>

\* Mutant: the cycle starts again without using up a retry.
RetryFree == UNCHANGED <<retry, pc>>

Retry == retry' = retry + 1 /\ pc' = IF retry + 1 < MaxRetry THEN "cycle" ELSE "audit"

\* REPLAN without guidance counts as a failure without a fingerprint.
GuidanceMissing ==
    /\ pc = "cycle"
    /\ Retry
    /\ UNCHANGED <<prev, disk, stored, result, counters, req, kind, plan, held, loop,
                   handler, earned>>

\* FAIL: stop early when the fingerprint repeats, else retry.
Fails(sig) ==
    /\ pc = "cycle"
    /\ IF sig # NoSig /\ sig = prev
       THEN Halt
       ELSE Retry /\ prev' = sig
    /\ UNCHANGED <<disk, stored, result, counters, req, kind, plan, held, loop, handler, earned>>

\* Mutant: one replan more than the budget.
OverBudget(sig) == sig \in seen[Here] \/ replans[Here] > MaxReplans

\* The replan circuit breakers: the same failure again, or no budget left.
Futile(sig) == sig \in seen[Here] \/ replans[Here] >= MaxReplans

\* REPLAN, from the validator or from a worker that asks for clarification
\* (which has no fingerprint): the patch is asked for unless it is futile.
AsksReplan(sig) ==
    /\ pc = "cycle"
    /\ IF Futile(sig)
       THEN pc' = "audit" /\ UNCHANGED <<held, replans, seen>>
       ELSE /\ seen' = [seen EXCEPT ![Here] = @ \cup ({sig} \ {NoSig})]
            /\ replans' = [replans EXCEPT ![Here] = @ + 1]
            /\ pc' = "replan" /\ held' = plan
    /\ UNCHANGED <<disk, stored, result, counters, req, kind, plan, idx, passed, moved,
                   cycle, handler, earned>>

\* _save_handoff reads plan.json ...
Mark ==
    /\ pc = "mark"
    /\ IF Here \in IdsOf(disk.ms)
       THEN held' = [disk EXCEPT !.ms = MarkFirst(@, Here)] /\ pc' = "mark_save"
       ELSE pc' = "log" /\ UNCHANGED held
    /\ UNCHANGED <<disk, stored, result, counters, req, kind, plan, loop, cycle, handler, earned>>

\* ... and writes it back with the milestone completed.
MarkSave ==
    /\ pc = "mark_save"
    /\ disk' = held /\ held' = NoPlan
    /\ pc' = "log"
    /\ UNCHANGED <<stored, result, counters, req, kind, plan, loop, cycle, handler, earned>>

\* PASS in the loop: the plan in memory, then log_milestone_state.
Log ==
    /\ pc = "log"
    /\ plan' = MarkHere
    /\ mem' = mem \cup {Key}
    /\ passed' = passed + 1 /\ idx' = idx + 1
    /\ pc' = "loop"
    /\ UNCHANGED <<disk, decision, approvals, result, counters, req, kind, held, replans,
                   seen, moved, cycle, handler, earned>>

\* Mutant: the loop reached the end of the plan.
AllVisited == ~More

\* audit_passed: every milestone passed or was skipped, and none is pending.
AllPassed == passed = Len(plan.ms) /\ ~Pending(plan.ms)

\* The mission audit.
Audit ==
    /\ pc = "audit"
    /\ result' = IF AllPassed THEN "completed"
                 ELSE IF passed > 0 THEN "partial" ELSE "failed"
    /\ pc' = "brief"
    /\ UNCHANGED <<disk, stored, counters, req, kind, plan, held, loop, cycle, handler, earned>>

\* _refresh_mission_brief writes the plan back with the mission's outcome.
Brief ==
    /\ pc = "brief"
    /\ disk' = IF plan.ms = <<>> THEN disk ELSE [plan EXCEPT !.app = result]
    /\ ResetWorker
    /\ UNCHANGED <<stored, counters, handler, earned>>

-----------------------------------------------------------------------------
(* POST /sessions/{sid}/decisions, for a plan approval.                    *)

\* The decision is loaded, ...
Resolve(answer) ==
    /\ hpc = "idle" /\ decision # 0
    /\ hpc' = "clear" /\ hact' = answer /\ hpid' = decision /\ hheld' = NoPlan
    /\ UNCHANGED <<disk, stored, result, counters, pc, req, kind, plan, held, loop, cycle,
                   earned>>

\* ... and removed, whichever it is by now, before anything comes of the answer.
Clear ==
    /\ hpc = "clear"
    /\ decision' = 0
    /\ hpc' = "read"
    /\ UNCHANGED <<hact, hpid, hheld, disk, mem, approvals, result, counters, pc, req, kind, plan,
                   held, loop, cycle, earned>>

\* _set_plan_approval_state: read plan.json ...
ReadPlan ==
    /\ hpc = "read"
    /\ hheld' = disk
    /\ hpc' = IF disk = NoPlan THEN "enqueue" ELSE "write"
    /\ UNCHANGED <<hact, hpid, disk, stored, result, counters, pc, req, kind, plan, held,
                   loop, cycle, earned>>

\* ... and write it with the new state.
WritePlan ==
    /\ hpc = "write"
    /\ disk' = [hheld EXCEPT !.app = IF hact = "approve" THEN "approved" ELSE "dismissed"]
    /\ hpc' = "enqueue"
    /\ UNCHANGED <<hact, hpid, hheld, stored, result, counters, pc, req, kind, plan, held,
                   loop, cycle, earned>>

\* An approved plan is queued; a dismissed one is not.
Enqueue ==
    /\ hpc = "enqueue"
    /\ approvals' = IF hact = "approve" THEN approvals + 1 ELSE approvals
    /\ ResetHandler
    /\ UNCHANGED <<disk, mem, decision, result, counters, pc, req, kind, plan, held, loop,
                   cycle, earned>>

-----------------------------------------------------------------------------
\* Where plan.json, the memory store and the decision may be half written; a
\* failed cycle logs its errors in the memory store too.
WritesPlan   == {"route", "focused", "skip_orch", "orchestrate", "resume", "lint", "repair",
                 "replan", "adjust", "accept", "loop", "mark_save", "brief"}
WritesMemory == {"cycle", "log"}

\* The process dies, and another one starts.
Crash ==
    /\ crashes < MaxCrashes
    /\ pc # "idle" \/ hpc # "idle"
    /\ crashes' = crashes + 1
    /\ disk' = disk \/ (disk' = NoPlan /\ (pc \in WritesPlan \/ hpc = "write"))
    /\ mem' = mem \/ (mem' = {} /\ pc \in WritesMemory)
    /\ decision' = decision \/ (decision' = 0 /\ pc = "pause")
    /\ approvals' = 0
    /\ ResetWorker /\ ResetHandler
    /\ UNCHANGED <<pids, runs, earned>>

Worker ==
    \/ ResolveKind \/ Load
    \/ PlanApproved \/ Reload \/ PlanAdjust \/ PlanDraft \/ Build \/ SkipOrchestration
    \/ Reply \/ FocusedSave \/ FocusedPause
    \/ (\E status \in {"completed", "partial", "failed"} : FocusedLoad(status))
    \/ Resume \/ ResumeSave \/ PlanningFails \/ (\E ids \in FirstPlans : Plan(ids))
    \/ Lint \/ Accept \/ Pause
    \/ PatchDone \/ PatchRejected \/ AdjustmentFails
    \/ SkipCompleted \/ StartMilestone \/ LoopEnds \/ Cancelled \/ Raise
    \/ Passes \/ Blocked \/ GuidanceMissing
    \/ (\E sig \in Sigs \cup {NoSig} : Fails(sig) \/ AsksReplan(sig))
    \/ Mark \/ MarkSave \/ Log \/ Audit \/ Brief

Handler == Clear \/ ReadPlan \/ WritePlan \/ Enqueue

Client ==
    \/ \E r \in Requests : Ask(r)
    \/ BeginApproved
    \/ \E answer \in Answers : Resolve(answer)

Next == Worker \/ PatchOp \/ Handler \/ Client \/ Crash

Spec == Init /\ [][Next]_vars

(***************************************************************************)
(* The worker thread keeps running: agents, planner and git answer or time *)
(* out.  PatchOp has no fairness of its own: a patch is a finite list, so  *)
(* it is accepted or rejected in the end.                                  *)
(***************************************************************************)
FairSpec == Spec /\ WF_vars(Worker) /\ WF_vars(Handler)

\* Clients that do not answer a plan approval while a run executes, nor start
\* a run while one is being answered.  Nothing in the code makes them wait:
\* the properties that need it say so, and are violated without it.
Quiet == hpc = "idle" \/ pc = "idle"
QuietSpec == Init /\ [][Next /\ Quiet']_vars

-----------------------------------------------------------------------------
(* Properties.                                                             *)

WorkerPC == {"idle", "resolve", "load", "route", "reload", "focused", "skip_orch",
             "orchestrate", "resume", "lint", "repair", "accept", "pause", "adjust",
             "loop", "cycle", "mark", "mark_save", "log", "replan", "audit", "brief"}
PlanFile == [pid : 0..MaxPlans, app : Approval, ms : Seq(Milestone)]
Keys == Pids \X Ids

\* Every variable has its type; the budgets of the loop are never overrun:
\* retries (MAX_RETRY_CYCLES) and replans of one milestone
\* (max_replans_per_milestone).
TypeOK ==
    /\ {disk, plan, held, hheld} \subseteq PlanFile
    /\ mem \subseteq Keys /\ earned \subseteq Keys
    /\ decision \in 0..MaxPlans /\ approvals \in Nat
    /\ result \in {"none", "completed", "partial", "failed"}
    /\ pids \in 0..MaxPlans /\ runs \in 0..MaxRuns /\ crashes \in 0..MaxCrashes
    /\ pc \in WorkerPC /\ kind \in {"auto", "new", "resume", "repair"}
    /\ req \in [mode : {"ask", "plan", "build"}, kind : {"auto", "new", "resume", "repair"},
                phrase : BOOLEAN, skip : BOOLEAN]
    /\ idx \in Nat \ {0} /\ passed \in Nat /\ moved \subseteq Ids
    /\ replans \in [Ids -> 0..MaxReplans] /\ seen \in [Ids -> SUBSET Sigs]
    /\ retry \in 0..MaxRetry /\ prev \in Sigs \cup {NoSig}
    /\ hpc \in {"idle", "clear", "read", "write", "enqueue"} /\ hact \in {"approve", "dismiss"}
    /\ hpid \in 0..MaxPlans

Executing == {"loop", "cycle", "mark", "mark_save", "log", "replan", "audit", "brief"}
AtMilestone == {"cycle", "mark", "mark_save", "log", "replan"}

Earned(p) == \A x \in DoneIds(p.ms) : <<p.pid, x>> \in earned

\* A milestone is called completed, in plan.json, in a copy of it that either
\* thread holds or in the memory store, only if the validator passed it for
\* that very plan: not for a plan with the same milestone ids before it, and
\* not because of a crash or a patch.  (QuietSpec: an answer during a run may
\* write an older plan back, in which a milestone of another plan is then marked.)
DoneIsEarned ==
    /\ Earned(disk) /\ Earned(plan) /\ Earned(held) /\ Earned(hheld)
    /\ mem \subseteq earned

\* A mission is reported completed only if every milestone of its plan, as
\* replans left it, was passed by the validator for this plan.
CompletedIsEarned ==
    pc = "brief" /\ result = "completed" =>
        \A x \in IdsOf(plan.ms) : <<plan.pid, x>> \in earned

\* milestones_passed never exceeds the milestones completed among those the
\* loop has gone past, in whatever order milestones are inserted, removed and
\* moved, until a replan puts a completed one in front of the loop again.
PassedIsHonest ==
    pc \in Executing /\ moved = {} =>
        passed <= Cardinality({i \in DOMAIN plan.ms : i < idx /\ plan.ms[i].done})

\* A milestone of this plan that the memory store calls completed is never
\* given to a worker agent again, whatever kind of run this is, unless a replan
\* has put that very milestone in front of the loop again.
NeverRedone == pc \in AtMilestone /\ Key \in mem => Here \in moved

\* "The Orchestrator removed this milestone -- its work is deemed unnecessary;
\* continue with whatever followed it." (main.py:991-993): not with a milestone
\* that is completed and came before it.
ContinuesWithWhatFollowed ==
    [][pc = "replan" /\ pc' = "loop" /\ Here \notin IdsOf(plan'.ms) /\ idx' \in DOMAIN plan'.ms
           => plan'.ms[idx'].id \notin Behind]_vars

\* What a crash would leave to recover from: while a mission is executed,
\* plan.json holds its plan as patched so far, with every milestone the run has
\* counted.  (QuietSpec: an answer during a run may write an older plan back.)
DiskIsCurrent ==
    pc \in Executing =>
        /\ disk.pid = plan.pid
        /\ IdsOf(disk.ms) = IdsOf(plan.ms)
        /\ DoneIds(plan.ms) \subseteq DoneIds(disk.ms)

\* The plan a run executes never loses a completed milestone.
PlanKeepsDone ==
    [][{pc, pc'} \subseteq Executing => DoneIds(plan.ms) \subseteq DoneIds(plan.ms)']_vars

\* plan.json never loses a completed milestone while it holds the same plan:
\* 'Milestones with status "completed" are immutable.'  (QuietSpec: see
\* the run "decision".)
DiskKeepsDone ==
    [][disk'.pid = disk.pid => DoneIds(disk.ms) \subseteq DoneIds(disk.ms)']_vars

\* Every run ends: retries, replans and the plan are all finite.
RunEnds == pc # "idle" ~> pc = "idle"

\* Executing a plan keeps the promises of MissionPromise.
Shown(v, none) == IF pc \in Executing THEN v ELSE none
Promise == INSTANCE MissionPromise WITH
    run <- IF pc = "brief" THEN result ELSE Shown("open", "idle"),
    of <- Shown(plan.pid, 0), ids <- Shown(IdsOf(plan.ms), {}),
    done <- Shown(DoneIds(plan.ms), {}), proven <- earned
KeepsPromise == Promise!Spec

-----------------------------------------------------------------------------
(* Why the properties hold: inductive invariants.                          *)

Planned == {"resume", "lint", "repair", "accept", "pause", "adjust"} \cup Executing

\* Whatever clients do: a plan that is executed exists, the loop stands at one
\* of its milestones, and a patch being built has the completed milestones of
\* the plan it edits.
Shape ==
    /\ TypeOK
    /\ \A p \in {disk, plan, held, hheld} : p.pid <= pids /\ (p.pid = 0 => p.ms = <<>>)
    /\ pc \in Planned => plan.pid # 0
    /\ pc \in AtMilestone => idx \in DOMAIN plan.ms
    /\ pc = "cycle" => retry < MaxRetry
    /\ pc \in Patching => held.pid = plan.pid /\ DoneIds(held.ms) = DoneIds(plan.ms)
    /\ pc = "brief" => result # "none" /\ (result = "completed" => ~Pending(plan.ms))

\* Two plans have the same id, milestones and completed milestones.
Agree(p, q) == p.pid = q.pid /\ IdsOf(p.ms) = IdsOf(q.ms) /\ DoneIds(p.ms) = DoneIds(q.ms)

\* p is q with milestone x completed too.
AgreeBut(p, q, x) ==
    p.pid = q.pid /\ IdsOf(p.ms) = IdsOf(q.ms) /\ DoneIds(p.ms) = DoneIds(q.ms) \cup {x}

\* Under QuietSpec: the worker's plan and plan.json agree, but for the
\* milestone that just passed.
InStep ==
    /\ Quiet
    /\ hpc = "write" => hheld = disk
    /\ pc \in {"route", "skip_orch", "resume", "lint", "repair", "accept", "pause", "adjust"}
           => plan = disk
    /\ pc = "focused" => held = disk
    /\ pc \in Executing \ {"log"} => Agree(disk, plan)
    /\ pc = "mark_save" => AgreeBut(held, disk, Here)
    /\ pc = "log" => AgreeBut(disk, plan, Here)

IInv ==
    /\ Shape /\ InStep
    /\ DoneIsEarned
    /\ pc \in {"mark", "mark_save", "log"} => Key \in earned


\* Planning calls give every milestone an id of its own.
UniquePlans == \A ids \in FirstPlans : \A i, j \in DOMAIN ids : ids[i] = ids[j] => i = j

Underway == {"lint", "repair", "accept"} \cup Executing

\* What a run has counted are different milestones behind the loop, and a plan
\* that the run has made knows all that the memory store knows of it; but for
\* milestones that a replan has moved back.
Position ==
    /\ \A k \in mem : k[1] <= pids
    /\ pc \notin Executing => idx = 1 /\ passed = 0 /\ moved = {}
    /\ pc = "resume" => kind = "resume"
    /\ moved = {} => passed <= Cardinality(Behind)
    /\ pc \in Underway /\ kind # "resume" =>
        /\ \A x \in Ids : <<plan.pid, x>> \in mem => x \in DoneIds(plan.ms)
        /\ DoneIds(plan.ms) \subseteq Behind \cup moved
    /\ NeverRedone

\* Whatever clients do, if plans are made with unique ids.
Places == Shape /\ (\A p \in {disk, plan, held, hheld} : UniqueIds(p.ms)) /\ Position

=============================================================================
