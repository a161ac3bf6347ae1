---------------------------- MODULE FocusedRoutes ----------------------------
(***************************************************************************)
(* The runs of MissionsRuntime that are no planned mission: how a request   *)
(* is routed, the ask and review loops, the one-packet fixes with their     *)
(* verification and escalation (src/src/main.py, src/src/agents), and the   *)
(* decisions such a run leaves to the user (src/src/decisions.py and the    *)
(* handlers of src/src/api/routers/decisions.py, which run on the event     *)
(* loop beside the worker thread).                                          *)
(*                                                                         *)
(* One runtime object serves every run.  A milestone is executed in one     *)
(* step (MilestoneExecution has its inside), and so is a mission            *)
(* (MissionLoop).  A job is what a user asked for: follow-up runs keep it.  *)
(***************************************************************************)
EXTENDS Integers, Sequences

CONSTANTS
  Files,         \* the files of the workspace
  Risky,         \* those of migrations, the API and the build
  Accesses,      \* may a run find the workspace bound read-only, or not?
  Requests,      \* what a client may post: mode, kind, route and fix mode
  MaxRuns,       \* bound on the runs, follow-ups included
  MaxPosts,      \* bound on those a client posts
  ReviewBudget,  \* max_review_tool_calls
  AskBudget,     \* _MAX_ASK_TOOL_CALLS
  BatchCap,      \* _MAX_BATCH and _MAX_ASK_BATCH
  ReviewRetries, \* _NON_JSON_RETRIES
  Verdicts       \* how a milestone may end other than with PASS

ASSUME FocusedAssumption ==
  /\ Risky \subseteq Files /\ Accesses \subseteq BOOLEAN
  /\ {MaxRuns, MaxPosts, ReviewBudget, AskBudget, BatchCap, ReviewRetries} \subseteq Nat \ {0}
  /\ Requests \subseteq [mode : {"ask", "plan", "build"},
                         kind : {"auto", "new", "resume", "repair"},
                         route : {"auto", "mission", "hotfix", "review"},
                         fix : {"ask", "auto"}]
  /\ Verdicts \subseteq {"REPLAN", "BLOCKED", "FAIL"}

VARIABLES
  plan,      \* plan.json: whose job, is a milestone left, its approval_state
  decision,  \* pending_decision.json
  handler,   \* the decision handler: its step, its action, what it loaded
  queue,     \* the runs waiting, in order
  runs,      \* how many runs were made
  posts,     \* how many of them a client posted
  run,       \* the run being executed
  brief,     \* runtime._escalation_brief: the run that stashed it, or 0
  skip,      \* runtime._skip_orchestration
  dirty      \* <<job, file>>: changed for the job, not VERIFIED since

session == <<plan, decision>>
clients == <<handler, queue, runs, posts>>
runtime == <<run, brief, skip>>
vars == <<session, clients, runtime, dirty>>

Runs == 1 .. MaxRuns
NoPlan == [job |-> 0, left |-> FALSE, state |-> ""]
\* A milestone counts by its target files and by whether it is the packet of a
\* route, a bare list of files, or none.
NoMilestone == [form |-> "none", files |-> {}]
Full(files) == [form |-> "full", files |-> files]
Bare(files) == [form |-> "bare", files |-> files]
NoDecision ==
  [type |-> "none", options |-> {}, milestone |-> NoMilestone, touched |-> {}, job |-> 0]
NoPacket == [kind |-> "none", milestone |-> NoMilestone, touched |-> {}]
NoHandoff == [verdict |-> "none", check |-> "none", modified |-> {}]
Idle == [at |-> "over", status |-> "idle", no |-> 0, job |-> 0, packet |-> "none",
         evidence |-> -1, changed |-> {}]
NoCall == [at |-> "idle", action |-> "none", taken |-> NoDecision]

Init ==
  /\ plan = NoPlan /\ decision = NoDecision
  /\ handler = NoCall /\ queue = <<>> /\ runs = 0 /\ posts = 0
  /\ run = Idle /\ brief = 0 /\ skip = FALSE
  /\ dirty = {}

-----------------------------------------------------------------------------
(* Clients *)

Request(req, job, packet, skipping) ==
  [req |-> req, no |-> runs + 1, job |-> job, packet |-> packet, skip |-> skipping]

Enqueue(r) == runs < MaxRuns /\ runs' = runs + 1 /\ queue' = Append(queue, r)

\* POST /messages and POST /runs.
Post ==
  /\ handler.at = "idle" /\ posts < MaxPosts /\ posts' = posts + 1
  /\ \E req \in Requests : Enqueue(Request(req, runs + 1, NoPacket, FALSE))
  /\ UNCHANGED <<session, handler, runtime, dirty>>

\* resolve_decision loads the file and refuses an action it does not offer, ...
Answer ==
  /\ handler.at = "idle" /\ decision # NoDecision
  /\ \E a \in decision.options :
       handler' = [at |-> "act", action |-> a, taken |-> decision]
  /\ UNCHANGED <<session, queue, runs, posts, runtime, dirty>>

\* ... removes it, whatever it holds by now, ...
Act(action) ==
  /\ handler.at = "act" /\ handler.action = action
  /\ decision' = NoDecision
  /\ handler' = NoCall

\* _set_plan_approval_state
SetApproval(state) == plan' = IF plan.job = 0 THEN plan ELSE [plan EXCEPT !.state = state]

Dismiss ==
  /\ Act("dismiss")
  /\ IF handler.taken.type = "plan_approval" THEN SetApproval("dismissed") ELSE UNCHANGED plan
  /\ UNCHANGED <<queue, runs, posts, runtime, dirty>>

BuildRequest(kind, route) == [mode |-> "build", kind |-> kind, route |-> route, fix |-> "ask"]

\* ... and does what was chosen: both of these queue a mission, ...
Approve ==
  /\ Act("approve_plan")
  /\ SetApproval("approved")
  /\ Enqueue(Request(BuildRequest("resume", "mission"), handler.taken.job, NoPacket, TRUE))
  /\ UNCHANGED <<posts, runtime, dirty>>

EscalateByHand ==
  /\ Act("escalate_mission")
  /\ Enqueue(Request(BuildRequest("new", "mission"), handler.taken.job, NoPacket, FALSE))
  /\ UNCHANGED <<plan, posts, runtime, dirty>>

PacketFor(action, d) ==
  CASE action = "apply_fix" ->
         [kind |-> "review_fix", milestone |-> d.milestone, touched |-> d.touched]
    [] action = "run_smoke" ->
         [kind |-> "smoke", milestone |-> NoMilestone, touched |-> d.touched]
    [] action = "setup_env" ->
         [kind |-> "setup_env", milestone |-> NoMilestone, touched |-> d.touched]

\* The 422 of _packet_for_action, when the decision is already gone.
Unservable(action, d) == action = "apply_fix" /\ d.milestone = NoMilestone

\* ... and the others a run that carries a packet, which is never resumed.
FollowUp ==
  /\ \E action \in {"apply_fix", "run_smoke", "setup_env"} : Act(action)
  /\ ~Unservable(handler.action, handler.taken)
  /\ Enqueue(Request(BuildRequest("new", "review"), handler.taken.job,
                     PacketFor(handler.action, handler.taken), FALSE))
  /\ UNCHANGED <<plan, posts, runtime, dirty>>

-----------------------------------------------------------------------------
(* How a run begins and ends *)

Has(p) == p.job # 0
\* plan_awaiting_approval
Awaiting(p) == p.left /\ p.state \notin {"approved", "executing", "completed", "dismissed"}

\* _resolve_run_kind
ResolveKind(kind) ==
  IF kind # "auto" THEN kind
  ELSE IF plan.left THEN "resume" ELSE IF Has(plan) THEN "repair" ELSE "new"

Fresh(r, readOnly) ==
  [at |-> IF r.req.mode = "ask" THEN "asking"
          ELSE IF r.req.mode = "plan" THEN "drafting"
          ELSE IF r.packet # NoPacket THEN "packet" ELSE "routing",
   no |-> r.no, job |-> r.job, packet |-> r.packet,
   kind |-> ResolveKind(r.req.kind), route |-> r.req.route, fix |-> r.req.fix,
   prev |-> plan, readOnly |-> readOnly, calls |-> 0, invalid |-> 0,
   milestone |-> NoMilestone, handoff |-> NoHandoff, evidence |-> -1]

Working == run.at # "over"

\* Mutant: run() keeps the brief and the flag that the last run left.
BeginKeeping ==
  /\ ~Working /\ queue # <<>>
  /\ \E readOnly \in Accesses : run' = Fresh(Head(queue), readOnly)
  /\ skip' = (skip \/ Head(queue).skip)
  /\ queue' = Tail(queue)
  /\ UNCHANGED <<session, handler, runs, posts, brief, dirty>>

\* run() sets the attributes of the runtime and loads the plan it will go by.
Begin ==
  /\ ~Working /\ queue # <<>>
  /\ \E readOnly \in Accesses : run' = Fresh(Head(queue), readOnly)
  /\ skip' = Head(queue).skip /\ brief' = 0
  /\ queue' = Tail(queue)
  /\ UNCHANGED <<session, handler, runs, posts, dirty>>

\* The result is recorded, and the thread waits for the next run.
End(status) ==
  run' = [at |-> "over", status |-> status, no |-> run.no, job |-> run.job,
          packet |-> run.packet.kind, evidence |-> run.evidence,
          changed |-> run.handoff.modified]

\* A checkpoint sees a cancellation, or a step raises: nothing is put right
\* but what the next run() resets.
Stopped ==
  /\ Working
  /\ \E status \in {"cancelled", "error"} : End(status)
  /\ UNCHANGED <<session, clients, brief, skip, dirty>>

\* _finish_focused_result stamps its outcome on the plan of the session.
Finish(status) ==
  /\ End(status)
  /\ plan' = IF Has(plan) THEN [plan EXCEPT !.state = status] ELSE plan
  /\ UNCHANGED decision

\* _pause_for_decision
Pause(type, options, milestone, touched) ==
  /\ decision' = [type |-> type, options |-> options, milestone |-> milestone,
                  touched |-> touched, job |-> run.job]
  /\ End("awaiting_decision")
  /\ UNCHANGED plan

-----------------------------------------------------------------------------
(* The ask loop and the review loop *)

Changed(files) == {run.job} \X files
Tools == {"read", "check", "write"}
AskTools == {"read"}              \* _ASK_READ_TOOLS
ReviewTools == {"read", "check"}  \* _REVIEW_TOOLS: run_checks and run_shellscript too

\* What tools may change: a check runs what the workspace defines, say its tests.
Changes(tools) ==
  IF tools \subseteq {"read"} \/ run.readOnly THEN {{}} ELSE SUBSET Files

\* A batch up to the cap, each call counted, denied or not, up to the budget.
Counted(n, budget) ==
  LET cut == IF n > BatchCap THEN BatchCap ELSE n
  IN IF run.calls + cut > budget THEN budget ELSE run.calls + cut

\* Mutant: only the calls that were dispatched count.
InspectDispatched(budget, allowed) ==
  /\ run.calls < budget
  /\ \E tools \in SUBSET Tools \ {{}}, n \in 1 .. BatchCap + 1 :
       /\ run' = [run EXCEPT !.invalid = 0,
                    !.calls = IF tools \cap allowed = {} THEN @ ELSE Counted(n, budget)]
       /\ \E files \in Changes(tools \cap allowed) : dirty' = dirty \cup Changed(files)

\* A tool outside the list is answered with an error.
Inspect(budget, allowed) ==
  /\ run.calls < budget
  /\ \E tools \in SUBSET Tools \ {{}}, n \in 1 .. BatchCap + 1 :
       /\ run' = [run EXCEPT !.invalid = 0, !.calls = Counted(n, budget)]
       /\ \E files \in Changes(tools \cap allowed) : dirty' = dirty \cup Changed(files)

AskInspects ==
  /\ run.at = "asking" /\ Inspect(AskBudget, AskTools)
  /\ UNCHANGED <<session, clients, brief, skip>>

\* An answer that is no answer: nothing at all, or calls that are no calls.
AskRepeats ==
  /\ run.at = "asking" /\ run.calls < AskBudget
  /\ \E n \in {0, run.invalid + 1} : n < 2 /\ run' = [run EXCEPT !.invalid = n]
  /\ UNCHANGED <<session, clients, brief, skip, dirty>>

\* Prose is an answer; so is what the budget or a second empty reply forces.
AskReplies ==
  /\ run.at = "asking"
  /\ End("completed")
  /\ UNCHANGED <<session, clients, brief, skip, dirty>>

ReviewInspects ==
  /\ run.at = "reviewing" /\ Inspect(ReviewBudget, ReviewTools)
  /\ UNCHANGED <<session, clients, brief, skip>>

ReviewRepeats ==
  /\ run.at = "reviewing" /\ run.calls < ReviewBudget
  /\ \E n \in {0, run.invalid + 1} :
       n < ReviewRetries /\ run' = [run EXCEPT !.invalid = n]
  /\ UNCHANGED <<session, clients, brief, skip, dirty>>

\* No report: the retries or the budget are used up, or it is refused.
ReviewFails ==
  /\ run.at = "reviewing"
  /\ Finish("failed")
  /\ UNCHANGED <<clients, brief, skip, dirty>>

Choices == {"apply_fix", "escalate_mission", "dismiss"}

\* A report: the files of its actionable findings, which are never without.
ReviewReports ==
  /\ run.at = "reviewing" /\ run.calls < ReviewBudget
  /\ \E files \in SUBSET Files :
       IF files = {} \/ run.readOnly THEN Finish("completed")
       ELSE IF run.fix # "auto" THEN Pause("review_fix", Choices, Full(files), files)
       ELSE /\ run' = [run EXCEPT !.at = "fixing", !.calls = 0, !.invalid = 0,
                                  !.milestone = Full(files)]
            /\ UNCHANGED session
  /\ UNCHANGED <<clients, brief, skip, dirty>>

-----------------------------------------------------------------------------
(* Routing *)

\* What triage may report; two bad answers or a failed call give NoReport.
NoReport == [route |-> "mission", confidence |-> "low", files |-> {}]
Reports ==
  {NoReport} \cup [route : {"mission", "hotfix", "review"},
                   confidence : {"high", "medium", "low"}, files : SUBSET Files]

\* The route asked for; words like "code review" and an empty workspace decide
\* for an automatic one.
Asked ==
  IF run.route # "auto" THEN {run.route}
  ELSE {"auto", "review"} \cup (IF run.kind = "new" THEN {"mission"} ELSE {})

\* Mutant: a request for the hotfix route is taken at its word.
NormalizeRouteWithoutFiles(report, asked) ==
  LET override == asked \in {"mission", "hotfix", "review"}
      route == IF override THEN asked
               ELSE IF report.confidence = "low" THEN "mission" ELSE report.route
  IN IF route = "hotfix" /\ report.confidence # "high" /\ ~override
     THEN "mission" ELSE route

NormalizeRoute(report, asked) ==
  LET override == asked \in {"mission", "hotfix", "review"}
      route == IF override THEN asked
               ELSE IF report.confidence = "low" THEN "mission" ELSE report.route
  IN IF route = "hotfix" /\ (report.files = {} \/ (report.confidence # "high" /\ ~override))
     THEN "mission" ELSE route

Route ==
  /\ run.at = "routing"
  /\ IF run.kind = "resume" THEN run' = [run EXCEPT !.at = "planning"]
     ELSE \E asked \in Asked :
          \E report \in IF asked \in {"auto", "hotfix"} THEN Reports ELSE {NoReport} :
            LET route == NormalizeRoute(report, asked) IN
            run' = [run EXCEPT
                      !.at = CASE route = "mission" -> "planning"
                               [] route = "review" -> "reviewing"
                               [] route = "hotfix" ->
                                    IF report.files = {} THEN "merging" ELSE "fixing",
                      !.milestone = IF route = "hotfix" THEN Full(report.files) ELSE @]
  /\ UNCHANGED <<session, clients, brief, skip, dirty>>

\* _run_packet_run: a packet without a milestone is put to the user once more.
TakePacket ==
  /\ run.at = "packet"
  /\ LET p == run.packet
         milestone == CASE p.kind = "setup_env" -> Full({})
                        [] p.kind = "smoke" -> Full(p.touched)
                        [] p.kind = "review_fix" -> p.milestone
     IN IF milestone = NoMilestone
        THEN Pause("hotfix_followup", {"escalate_mission", "dismiss"}, NoMilestone, {})
        ELSE /\ run' = [run EXCEPT !.at = "fixing",
                                   !.milestone = milestone]
             /\ UNCHANGED session
  /\ UNCHANGED <<clients, brief, skip, dirty>>

-----------------------------------------------------------------------------
(* One packet: execution, verification, escalation *)

\* _execute_milestone with the hotfix profile.  Without target files there is
\* no write jail.  PASS means that the verifier in its loop said VERIFIED or
\* UNVERIFIED.
Execute ==
  /\ run.at = "fixing"
  /\ \E verdict \in Verdicts \cup {"PASS"},
        modified \in SUBSET (IF run.readOnly THEN {} ELSE IF run.milestone.files = {}
                             THEN Files ELSE run.milestone.files),
        check \in {"VERIFIED", "UNVERIFIED"} :
       /\ verdict # "PASS" => check = "UNVERIFIED"
       /\ run' = [run EXCEPT !.at = IF verdict = "PASS" THEN "verifying" ELSE "escalating",
                             !.handoff = [verdict |-> verdict, check |-> check,
                                          modified |-> modified]]
       /\ dirty' = dirty \cup Changed(modified)
  /\ UNCHANGED <<session, clients, brief, skip>>

\* The milestone to verify: after the repair of the toolchain, the bare list of
\* the files the decision was about.
ToVerify == IF run.packet.kind = "setup_env" THEN Bare(run.packet.touched) ELSE run.milestone
Touched == run.handoff.modified \cup ToVerify.files
\* Only after that repair is the verifier asked anew.
Checks ==
  IF run.packet.kind = "setup_env"
  THEN {"VERIFIED", "NEEDS_REWORK", "UNVERIFIED", "ESCALATE_TO_MISSION"}
  ELSE {run.handoff.check}

VerifiedFor(files) == {d \in dirty : d[2] \in files}

\* Mutant: what could not be verified counts as done.
VerifiedOrNot ==
  /\ run.at = "verifying" /\ Checks \cap {"VERIFIED", "UNVERIFIED"} # {}
  /\ Finish("completed")
  /\ dirty' = IF "VERIFIED" \in Checks THEN dirty \ VerifiedFor(Touched) ELSE dirty
  /\ UNCHANGED <<clients, brief, skip>>

Verified ==
  /\ run.at = "verifying" /\ "VERIFIED" \in Checks
  /\ Finish("completed")
  /\ dirty' = dirty \ VerifiedFor(Touched)
  /\ UNCHANGED <<clients, brief, skip>>

Unverified ==
  /\ run.at = "verifying" /\ "UNVERIFIED" \in Checks
  /\ Pause("fix_unverified", {"run_smoke", "setup_env", "escalate_mission", "dismiss"},
           ToVerify, Touched)
  /\ UNCHANGED <<clients, brief, skip, dirty>>

\* In a run that does not ask, escalation triage decides.
NeedsRework ==
  /\ run.at = "verifying" /\ "NEEDS_REWORK" \in Checks
  /\ IF run.fix = "auto"
     THEN run' = [run EXCEPT !.at = "escalating", !.milestone = ToVerify] /\ UNCHANGED session
     ELSE Pause("fix_followup", Choices, ToVerify, Touched)
  /\ UNCHANGED <<clients, brief, skip, dirty>>

\* _stash_mission_brief; the caller merges it unless something raises first.
Stash ==
  /\ brief' = run.no
  /\ run' = [run EXCEPT !.at = "merging"]

VerifierEscalates ==
  /\ run.at = "verifying" /\ "ESCALATE_TO_MISSION" \in Checks
  /\ Stash
  /\ UNCHANGED <<session, clients, skip, dirty>>

\* deterministic_guard: only a risky stay in a sensitive place is overruled.
Guarded(answer, risk, files) ==
  IF answer = "stay" /\ risk = "high" /\ files \cap Risky # {} THEN "escalate" ELSE answer

\* Mutant: the packet of a fix that stalled is not kept with the decision.
EscalateWithoutPacket ==
  /\ run.at = "escalating"
  /\ \E answer \in {"stay", "escalate"}, risk \in {"low", "high"} :
       IF Guarded(answer, risk, run.milestone.files) = "escalate"
       THEN Stash /\ UNCHANGED session
       ELSE /\ Pause("hotfix_followup", Choices, NoMilestone, run.milestone.files)
            /\ UNCHANGED brief
  /\ UNCHANGED <<clients, skip, dirty>>

\* _escalate_hotfix_failure; a failed triage means to stay.
Escalate ==
  /\ run.at = "escalating"
  /\ \E answer \in {"stay", "escalate"}, risk \in {"low", "high"} :
       IF Guarded(answer, risk, run.milestone.files) = "escalate"
       THEN Stash /\ UNCHANGED session
       ELSE /\ Pause("hotfix_followup", Choices, run.milestone, run.milestone.files)
            /\ UNCHANGED brief
  /\ UNCHANGED <<clients, skip, dirty>>

\* _merge_escalation_brief takes what is stashed, if anything is.
Merge ==
  /\ run.at = "merging"
  /\ run' = [run EXCEPT !.at = "planning", !.evidence = brief,
                        !.milestone = NoMilestone, !.handoff = NoHandoff]
  /\ brief' = 0
  /\ UNCHANGED <<session, clients, skip, dirty>>

-----------------------------------------------------------------------------
(* Plans and missions *)

\* A planning call fails: no status is written, no plan is changed.
PlanFails ==
  /\ run.at \in {"drafting", "planning"}
  /\ End("failed")
  /\ UNCHANGED <<session, clients, brief, skip, dirty>>

\* Plan mode: a draft is made or adjusted, which may leave nothing of it to do, and
\* put to the user.
Draft ==
  /\ run.at = "drafting"
  /\ IF Awaiting(run.prev)
     THEN \E left \in BOOLEAN : plan' = [run.prev EXCEPT !.left = left, !.state = "draft"]
     ELSE plan' = [job |-> run.job, left |-> TRUE, state |-> "draft"]
  /\ decision' = [NoDecision EXCEPT !.type = "plan_approval",
                    !.options = {"approve_plan", "dismiss"}, !.job = run.job]
  /\ End("awaiting_decision")
  /\ UNCHANGED <<clients, brief, skip, dirty>>

\* Plan mode: words of approval go on to Build.
ApprovedByWord ==
  /\ run.at = "drafting" /\ Awaiting(run.prev)
  /\ plan' = [run.prev EXCEPT !.state = "approved"]
  /\ skip' = TRUE
  /\ run' = [run EXCEPT !.at = "planning", !.kind = "resume", !.prev = plan']
  /\ UNCHANGED <<decision, clients, brief, dirty>>

\* A plan that still waits for approval is built as it stands, and written back
\* as it was when the run began.
BuildsThePlan == Has(run.prev) /\ (skip \/ Awaiting(run.prev))

Planned(p) == run' = [run EXCEPT !.at = "building"]
              /\ plan' = [p EXCEPT !.state = "executing"]

\* run_orchestration resumes a plan only while a milestone of it is left.
Plan ==
  /\ run.at = "planning"
  /\ LET found == IF BuildsThePlan THEN run.prev ELSE plan
     IN IF (BuildsThePlan \/ run.kind = "resume") /\ found.left THEN Planned(found)
        ELSE Planned([job |-> run.job, left |-> TRUE, state |-> "executing"])
  /\ UNCHANGED <<decision, clients, brief, skip, dirty>>

MissionEnds ==
  /\ run.at = "building"
  /\ \E status \in {"completed", "partial", "failed"} :
       /\ End(status)
       /\ plan' = [plan EXCEPT !.left = (status # "completed"), !.state = status]
  /\ UNCHANGED <<decision, clients, brief, skip, dirty>>

-----------------------------------------------------------------------------
Clients ==
  Post \/ Answer \/ Dismiss \/ Approve \/ EscalateByHand \/ FollowUp

Asks == AskInspects \/ AskReplies
Reviews == ReviewInspects \/ ReviewFails \/ ReviewReports
Fixes == \/ TakePacket \/ Execute \/ Verified \/ Unverified \/ NeedsRework
         \/ VerifierEscalates \/ Escalate \/ Merge
Missions == PlanFails \/ Draft \/ ApprovedByWord \/ Plan \/ MissionEnds
Worker == Begin \/ Route \/ Asks \/ Reviews \/ Fixes \/ Missions

Next == Clients \/ Worker \/ Stopped \/ AskRepeats \/ ReviewRepeats

Spec == Init /\ [][Next]_vars

\* The worker thread goes on, and a model that is asked again and again gives an
\* answer that can be used at last.
FairSpec == Spec /\ WF_vars(Worker)

-----------------------------------------------------------------------------
(* Properties *)

\* Every answer a decision offers can be carried out, over any chain of follow-up
\* runs: the 422 of _packet_for_action (decisions.py:135), which comes when the
\* decision is already gone, and the empty packet of main.py:1814 do not occur.
AnswersAreServable ==
  /\ \A a \in decision.options : ~Unservable(a, decision)
  /\ handler.at # "idle" => ~Unservable(handler.action, handler.taken)
  /\ run.at = "packet" => ~Unservable("apply_fix", run.packet) \/ run.packet.kind # "review_fix"

\* A focused run that goes on as a mission takes the brief of its own attempt
\* with it, never none and never one that an earlier run of the same runtime
\* left when it was stopped (main.py:1163-1200 and 1594-1615).
EscalatesWithItsOwnBrief ==
  run.at \in {"planning", "building"} /\ run.evidence # -1 => run.evidence = run.no

\* A mission builds what its run was asked for, unless the run resumes or finds a
\* plan that waits for approval: what an earlier run left in the runtime does not
\* make it build another plan (main.py:414-428 and 785-793).
BuildsItsRequest ==
  run.at = "building" /\ run.kind # "resume" /\ ~Awaiting(run.prev) => plan.job = run.job

\* A run that stays focused ends completed only when the verifier has called everything its
\* packet changed VERIFIED (main.py:1656-1673).
CompletedIsVerified ==
  run.at = "over" /\ run.status = "completed" /\ run.evidence = -1 =>
    dirty \cap ({run.job} \X run.changed) = {}

\* Every run ends while the model gives usable answers at last: budgets count
\* every call, denied or not (code_review.py:216, ask.py:307).
RunsEnd == Working ~> ~Working

=============================================================================
