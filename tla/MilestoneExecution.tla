-------------------------- MODULE MilestoneExecution --------------------------
(***************************************************************************)
(* _execute_milestone of src/src/main.py: the worker, the validator or the  *)
(* fix verifier, and the retries between them, for one milestone after the  *)
(* other in the runs of a session.  The validator is                        *)
(* src/src/agents/validator.py with its contract compiler and its UI smoke  *)
(* test; a text is what is decided from it: whether guidance can be         *)
(* followed, whether it blames the tools, and the signature of the errors.  *)
(***************************************************************************)
EXTENDS WorkerLoop

CONSTANTS
  Packets,       \* the sets of target files a milestone may have
  FailSigs,      \* signatures of FAIL verdicts
  NoSig,         \* that of a FAIL without errors
  MaxRetries,    \* MAX_RETRY_CYCLES
  WorkerBudget,  \* max_worker_tool_calls
  HotfixBudget,  \* max_hotfix_tool_calls
  MaxExecs       \* bound: executions in a behaviour

ASSUME ExecutionAssumption ==
  /\ Packets \subseteq SUBSET Files
  /\ NoSig \notin FailSigs
  /\ {MaxRetries, WorkerBudget, HotfixBudget} \subseteq Nat \ {0}
  /\ MaxRetries >= 2
  /\ MaxExecs \in Nat

VARIABLES
  profile,   \* agent_profile: "worker" or "hotfix"
  attempt,   \* retry_count
  prevSig,   \* prev_failure_sig
  verdict,   \* verdict_data of this attempt
  ran,       \* the contract had a command, and it ran
  outcome,   \* verdict of the handoff; "none" while the milestone is in work
  base,      \* the tests that existed when the execution began
  execs      \* executions begun

retryVars == <<profile, attempt, prevSig, verdict, ran, outcome, base, execs>>
vars == <<workerVars, retryVars>>

Outcomes == {"PASS", "FAIL", "REPLAN", "BLOCKED", "CANCELLED", "RAISED"}
NoVerdict == [kind |-> "FAIL", guided |-> FALSE, sig |-> NoSig]
OpenPolicy == BeginPolicy({}, FALSE, FALSE, {})

\* _is_test_milestone.
IsTest == targets # {} /\ targets \subseteq Tests

Init ==
  /\ targets = {} /\ phase = "idle" /\ budget = 0 /\ result = NoResult
  /\ count = 0 /\ nonJson = 0 /\ left = 0 /\ discovered = FALSE /\ breaker = FALSE
  /\ fails = [sig \in Sigs |-> 0] /\ consec = 0 /\ active = {}
  /\ modified = {} /\ disk \in SUBSET Files /\ pol = OpenPolicy
  /\ pool = {} /\ alive = {} /\ started = {} /\ adrift = {}
  /\ profile = "worker" /\ attempt = 0 /\ prevSig = NoSig /\ verdict = NoVerdict
  /\ ran = FALSE /\ outcome = "CANCELLED" /\ base = {} /\ execs = 0

(***************************************************************************)
(* The execution and its attempts.                                          *)
(***************************************************************************)
\* The write policy is opened for the milestone; the router picks the tools.
BeginExecution(packet, prof) ==
  /\ \/ phase = "idle"
     \/ phase = "over" /\ outcome \in {"PASS", "REPLAN"}
  /\ execs < MaxExecs
  /\ execs' = execs + 1
  /\ phase' = "attempt"
  /\ targets' = packet /\ profile' = prof
  /\ pol' = BeginPolicy(packet, packet # {} /\ packet \subseteq Tests, FALSE, disk)
  /\ base' = disk \cap Tests
  /\ active' \in SUBSET Discoverable
  /\ attempt' = 0 /\ outcome' = "none"
  /\ UNCHANGED <<result, localVars, fails, consec, modified, disk, serverVars,
                 prevSig, verdict, ran>>

StartAttempt ==
  /\ phase = "attempt"
  /\ attempt < MaxRetries
  /\ StartCall(IF profile = "hotfix" THEN HotfixBudget ELSE WorkerBudget)
  /\ UNCHANGED <<targets, keptVars, disk, pol, pool, alive, adrift, retryVars>>

\* The handoff is returned; the variables of the execution are gone.
Over(out) ==
  /\ phase' = "over"
  /\ outcome' = out
  /\ prevSig' = NoSig /\ verdict' = NoVerdict /\ ran' = FALSE /\ base' = {}
  /\ result' = NoResult /\ modified' = {}
  /\ fails' = [sig \in Sigs |-> 0] /\ consec' = 0 /\ active' = {}
  /\ UNCHANGED <<targets, localVars, disk, pol, serverVars, profile, attempt, execs>>

CancelledBetween ==
  /\ phase = "attempt"
  /\ attempt < MaxRetries
  /\ Over("CANCELLED")

Exhausted ==
  /\ phase = "attempt"
  /\ attempt >= MaxRetries
  /\ Over("FAIL")

\* What an answer of the worker other than complete leads to: a question is put
\* to the planner, a bare block halts.
NotComplete ==
  /\ phase = "returned"
  /\ result.status # "complete"
  /\ Over(CASE result.status = "cancelled" -> "CANCELLED"
            [] result.status # "cancelled" /\ result.asks -> "REPLAN"
            [] OTHER -> "BLOCKED")

\* The exception ends the run too; the servers of the call are still there.
Raised ==
  /\ phase = "raised"
  /\ Over("RAISED")

\* The finally of run: the policy is cleared, every server is stopped.
RunEnds ==
  /\ phase = "over"
  /\ phase' = "idle"
  /\ pol' = OpenPolicy
  /\ pool' = {} /\ alive' = {} /\ started' = {} /\ adrift' = {}
  /\ UNCHANGED <<targets, result, localVars, keptVars, modified, disk, retryVars>>

(***************************************************************************)
(* The verdict of an attempt.                                               *)
(***************************************************************************)
Judged(kind, guided, sig) ==
  /\ phase' = "judged"
  /\ verdict' = [kind |-> kind, guided |-> guided, sig |-> sig]
  /\ UNCHANGED <<targets, result, localVars, keptVars, fileVars, profile, attempt, prevSig, outcome, base, execs>>

Passes == Judged("PASS", FALSE, NoSig)
Replans == Judged("REPLAN", TRUE, NoSig)
Fails == \E sig \in FailSigs : Judged("FAIL", FALSE, sig)

WorkComplete(prof) ==
  /\ phase = "returned"
  /\ result.status = "complete"
  /\ profile = prof

\* run_fix_verification: an unreachable or unreadable verifier verifies nothing,
\* and an unverified fix passes.  ESCALATE_TO_MISSION ends the milestone.
VerifyFix ==
  /\ WorkComplete("hotfix")
  /\ Passes \/ Fails \/ Replans
  /\ UNCHANGED <<ran, serverVars>>

\* The validator: the contract is compiled afresh in each attempt, from a
\* workspace that may have changed.
Uncompilable ==
  /\ WorkComplete("worker")
  /\ Replans
  /\ UNCHANGED <<ran, serverVars>>

\* Tests among the modified files that this execution did not create.
UnauthorizedEdits == IF IsTest THEN {} ELSE (modified \cap Tests) \ pol.created
OutOfScope == IF targets = {} THEN {} ELSE modified \ targets

AuditFails ==
  /\ WorkComplete("worker")
  /\ targets # {}
  /\ UnauthorizedEdits # {} \/ OutOfScope # {}
  /\ Fails
  /\ UNCHANGED <<ran, serverVars>>

StartChecks(contract) ==
  /\ WorkComplete("worker")
  /\ targets # {}
  /\ UnauthorizedEdits = {} /\ OutOfScope = {}
  /\ phase' = CASE contract = "ui_smoke" -> "ui"
                [] contract = "structural" -> "review"
                [] OTHER -> "contract"
  /\ UNCHANGED <<targets, result, localVars, keptVars, fileVars, serverVars, retryVars>>

(***************************************************************************)
(* The UI smoke test.                                                       *)
(***************************************************************************)
\* A refused command asks for another plan, but says nothing of which.
UiServerFails ==
  /\ phase = "ui"
  /\ pool' \in {pool, alive} /\ Drift({})
  /\ Fails \/ Judged("REPLAN", FALSE, NoSig)
  /\ UNCHANGED <<ran, alive, started>>

\* As in ServeStart, another process may have answered the ready test.
UiServerStarts(s) ==
  /\ phase = "ui"
  /\ s \notin pool
  /\ Cardinality(alive) < MaxServers
  /\ pool' = alive \cup {s} /\ alive' \in {alive \cup {s}, alive}
  /\ started' = {s} /\ Drift({})
  /\ phase' = "checks"
  /\ UNCHANGED <<targets, result, localVars, keptVars, fileVars, retryVars>>

RaisesFrom(here) ==
  /\ phase = here
  /\ phase' = "raised"
  /\ UNCHANGED <<targets, result, localVars, keptVars, fileVars, retryVars>>

\* The start is outside the try whose finally stops the server: what it raises
\* ends the run, with or without a server left in the table.
UiServerRaises ==
  /\ RaisesFrom("ui")
  /\ UNCHANGED started
  /\ \/ pool' \in {pool, alive} /\ UNCHANGED alive /\ Drift({})
     \/ \E s \in Servers \ pool :
          /\ Cardinality(alive) < MaxServers
          /\ pool' = alive \cup {s} /\ alive' \in {alive \cup {s}, alive}
          /\ Drift({s})

\* The finally of the checks.
StopUiServer ==
  /\ pool' = pool \ started /\ alive' = alive \ started /\ started' = {}
  /\ Drift({})

\* A missing browser likewise asks for another plan without a word on it.
UiChecked ==
  /\ phase = "checks"
  /\ StopUiServer
  /\ Passes \/ Fails \/ Judged("REPLAN", FALSE, NoSig)
  /\ UNCHANGED ran

UiChecksRaise == RaisesFrom("checks") /\ StopUiServer

(***************************************************************************)
(* The contract's command.                                                  *)
(***************************************************************************)
PolicyDenied ==
  /\ phase = "contract"
  /\ Replans
  /\ UNCHANGED <<ran, serverVars>>

TestFilesExist == disk \cap Tests # {}

\* Exit code 5, and the plan names a pytest command of its own.
NothingCollected ==
  /\ phase = "contract"
  /\ TestFilesExist
  /\ modified \cap Tests = {}
  /\ Replans
  /\ UNCHANGED <<ran, serverVars>>

\* Exit code 1 of a test milestone, some module being missing.
RedPhase ==
  /\ phase = "contract"
  /\ IsTest
  /\ Passes
  /\ UNCHANGED <<ran, serverVars>>

AllSkipped ==
  /\ phase = "contract"
  /\ IsTest
  /\ disk \cap targets # {}
  /\ Fails
  /\ UNCHANGED <<ran, serverVars>>

\* Exit code 0; an import of a target that is not installed still fails.
ExitsZero ==
  /\ phase = "contract"
  /\ Passes \/ Fails
  /\ UNCHANGED <<ran, serverVars>>

ExitsNonzero ==
  /\ phase = "contract"
  /\ phase' = "review"
  /\ ran' = TRUE
  /\ UNCHANGED <<targets, result, localVars, keptVars, fileVars, serverVars,
                 profile, attempt, prevSig, verdict, outcome, base, execs>>

(***************************************************************************)
(* The model's verdict.                                                     *)
(***************************************************************************)
\* Guidance makes any verdict a REPLAN; without it there is no REPLAN.
NormalizeVerdict(said, guided) ==
  IF guided THEN "REPLAN" ELSE IF said = "REPLAN" THEN "FAIL" ELSE said

\* Guidance that blames the tools is not followed when they have just run.
BlockInfrastructure(kind, infra) ==
  IF kind = "REPLAN" /\ infra /\ ran THEN "FAIL" ELSE kind

ModelJudges(said, guided, infra) ==
  /\ phase = "review"
  /\ LET kind == BlockInfrastructure(NormalizeVerdict(said, guided), infra)
     IN  \E sig \in FailSigs \cup {NoSig} : Judged(kind, kind = "REPLAN", sig)
  /\ UNCHANGED <<ran, serverVars>>

Unparsable ==
  /\ phase = "review"
  /\ Fails
  /\ UNCHANGED <<ran, serverVars>>

JudgeRaises == RaisesFrom("review") /\ UNCHANGED serverVars

(***************************************************************************)
(* What the verdict leads to.                                               *)
(***************************************************************************)
Pass ==
  /\ phase = "judged"
  /\ verdict.kind = "PASS"
  /\ Over("PASS")

Replan ==
  /\ phase = "judged"
  /\ verdict.kind = "REPLAN" /\ verdict.guided
  /\ Over("REPLAN")

NextAttempt ==
  /\ phase' = "attempt"
  /\ attempt' = attempt + 1
  /\ verdict' = NoVerdict /\ ran' = FALSE
  /\ result' = NoResult /\ modified' = {}
  /\ UNCHANGED <<targets, localVars, keptVars, disk, pol, serverVars,
                 profile, outcome, base, execs>>

\* Mutant: the refused REPLAN costs no attempt.
ReplanRejectedForFree ==
  /\ phase = "judged"
  /\ verdict.kind = "REPLAN" /\ ~verdict.guided
  /\ phase' = "attempt"
  /\ verdict' = NoVerdict /\ ran' = FALSE
  /\ result' = NoResult /\ modified' = {}
  /\ UNCHANGED <<targets, localVars, keptVars, disk, pol, serverVars,
                 profile, attempt, prevSig, outcome, base, execs>>

\* Nothing to replan with: an attempt is spent, the last signature stays.
ReplanRejected ==
  /\ phase = "judged"
  /\ verdict.kind = "REPLAN" /\ ~verdict.guided
  /\ NextAttempt
  /\ UNCHANGED prevSig

\* Mutant: a FAIL without errors is taken for a repetition.
StuckOnNothing == verdict.sig = prevSig

Stuck == verdict.sig # NoSig /\ verdict.sig = prevSig

FailAgain ==
  /\ phase = "judged"
  /\ verdict.kind = "FAIL"
  /\ Stuck
  /\ Over("FAIL")

FailRetry ==
  /\ phase = "judged"
  /\ verdict.kind = "FAIL"
  /\ ~Stuck
  /\ NextAttempt
  /\ prevSig' = verdict.sig

ExecutionStep ==
  \/ StartAttempt \/ CancelledBetween \/ Exhausted \/ NotComplete \/ Raised \/ RunEnds
  \/ VerifyFix \/ Uncompilable \/ AuditFails \/ UiServerFails \/ UiServerRaises
  \/ UiChecked \/ UiChecksRaise
  \/ PolicyDenied \/ NothingCollected \/ RedPhase \/ AllSkipped \/ ExitsZero \/ ExitsNonzero
  \/ Unparsable \/ JudgeRaises
  \/ Pass \/ Replan \/ ReplanRejected \/ FailAgain \/ FailRetry
  \/ \E c \in {"ui_smoke", "structural", "command"} : StartChecks(c)
  \/ \E s \in Servers : UiServerStarts(s)
  \/ \E said \in {"PASS", "FAIL", "REPLAN"}, guided, infra \in BOOLEAN :
       ModelJudges(said, guided, infra)

Begin == \E packet \in Packets, prof \in {"worker", "hotfix"} : BeginExecution(packet, prof)

InWorker == WorkerStep /\ UNCHANGED retryVars

Idle == phase = "idle" /\ execs = MaxExecs /\ UNCHANGED vars

Next == Begin \/ ExecutionStep \/ InWorker \/ Idle

Spec == Init /\ [][Next]_vars

\* The run's thread goes on; no fairness makes a session begin an execution, or
\* a server die.
Fairness ==
  /\ WF_vars(ExecutionStep)
  /\ WF_vars(InWorker /\ ~(\E s \in Servers : ServerDies(s)))

FairSpec == Spec /\ Fairness

(***************************************************************************)
(* Properties.                                                              *)
(***************************************************************************)
\* The variables have their types: those of a call's loop, of the workspace and
\* its servers, and of the retries.
LoopTypeOK ==
  /\ phase \in {"idle", "attempt", "turn", "batch", "returned", "raised", "ui", "checks",
                "contract", "review", "judged", "over"}
  /\ result \in [status : Statuses, asks : BOOLEAN]
  /\ budget \in {0, WorkerBudget, HotfixBudget}
  /\ count \in Nat /\ nonJson \in 0 .. NonJsonMax - 1 /\ left \in Nat
  /\ breaker \in BOOLEAN
  /\ fails \in [Sigs -> Nat] /\ consec \in Nat

WorkspaceTypeOK ==
  /\ discovered \in BOOLEAN /\ active \subseteq Discoverable
  /\ modified \subseteq Files /\ disk \subseteq Files /\ pol \in Policy
  /\ pool \subseteq Servers /\ alive \subseteq Servers /\ started \subseteq Servers
  /\ adrift \subseteq Servers

RetryTypeOK ==
  /\ targets \in Packets \cup {{}}
  /\ profile \in {"worker", "hotfix"} /\ attempt \in 0 .. MaxRetries
  /\ prevSig \in FailSigs \cup {NoSig} /\ outcome \in Outcomes \cup {"none"}
  /\ verdict \in [kind : {"PASS", "FAIL", "REPLAN"}, guided : BOOLEAN,
                  sig : FailSigs \cup {NoSig}]
  /\ ran \in BOOLEAN /\ base \subseteq Tests /\ execs \in 0 .. MaxExecs

TypeOK == LoopTypeOK /\ WorkspaceTypeOK /\ RetryTypeOK

\* A call never counts more tool calls than its budget and one batch: refused
\* calls are counted without the budget being looked at again.
CallsBounded == phase \in {"turn", "batch"} => count < budget + BatchCap

\* Once a failure has reached its limit, in whichever attempt its earlier ones
\* were, the model is not asked for another turn of that milestone.
NoTurnAfterBreaker ==
  phase = "turn" => consec < ConsecFail /\ \A sig \in Sigs : fails[sig] < SameFail

\* Every running server is in the table.  When it is the validator's turn, the
\* fix verifier's or the next attempt's, a server that is still in the table is
\* one whose start raised (process_manager.py:192-196): every other one the call
\* started was stopped, whatever ended it.  The end of the run stops even those.
NoServerOutlivesItsCall ==
  /\ alive \subseteq pool
  /\ phase \in {"attempt", "returned", "ui", "contract", "review", "judged"}
       => pool \subseteq adrift
  /\ phase = "idle" => pool = {}

\* A milestone that passed left all of its target files on disk, whatever the
\* shell scripts of its attempts deleted.
PassDelivers == outcome = "PASS" => targets \subseteq disk

\* What a tool writes during a milestone that is no test milestone is never a
\* test that existed before the milestone began.
ExistingTestsAreSafe ==
  [][phase = "batch" /\ ~IsTest => modified' \cap base \subseteq modified]_vars

\* The retry loop implements the promise made to the mission.
Promise == INSTANCE MilestonePromise WITH tries <- attempt
PromiseKept == Promise!Spec

\* Answers that use up no tool call: a refused complete, an object that is
\* neither status nor call, a call that is skipped.
Uncounted ==
  \/ SaysComplete /\ phase' = "turn"
  \/ Malformed
  \/ SkipCall

\* A milestone that was begun comes to an end, with its retries, if the model
\* does not go on forever with answers that nothing counts.
ExecutionEnds ==
  <>[][~Uncounted]_vars => (outcome = "none" ~> outcome # "none")
==============================================================================
