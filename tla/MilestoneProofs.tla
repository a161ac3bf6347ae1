--------------------------- MODULE MilestoneProofs ---------------------------
(***************************************************************************)
(* Theorems about the execution of milestones: every variable keeps its     *)
(* type, a call of the worker stays within its tool budget and one batch,   *)
(* and a milestone whose failures have reached a limit is given no further  *)
(* turn.  They hold for any files, tools, servers and budgets.              *)
(***************************************************************************)
EXTENDS MilestoneExecution, TLAPS

\* No failure has reached its limit.
Below == consec < ConsecFail /\ \A sig \in Sigs : fails[sig] < SameFail

\* What the calls of a batch that are still to be handled may add to the count,
\* and where the failures must be below their limits for the next turn to be:
\* everywhere but in a batch the breaker has ended, and on the way out of it.
Limits ==
  /\ left <= BatchCap
  /\ phase = "batch" => count + left < budget + BatchCap
  /\ phase = "turn" => count < budget + BatchCap
  /\ breaker => phase = "batch" /\ left = 0
  /\ phase = "batch" /\ ~breaker => Below
  /\ phase = "returned" /\ result.status = "complete" => Below
  /\ phase \notin {"batch", "returned", "raised"} => Below
  /\ phase \notin {"idle", "attempt", "over"} => attempt < MaxRetries

IInv == TypeOK /\ Limits

-----------------------------------------------------------------------------
(* What the parts of the actions do                                        *)

\* The numbers the code compares are natural numbers.
LEMMA Numbers ==
  ASSUME LoopTypeOK
  PROVE  /\ budget \in Nat /\ BatchCap \in Nat /\ SameFail \in Nat /\ ConsecFail \in Nat
         /\ MaxRetries \in Nat /\ 1 <= BatchCap /\ 1 <= SameFail /\ 1 <= ConsecFail
         /\ 0 \in 0 .. NonJsonMax - 1 /\ NonJsonMax \in Nat
BY WorkerAssumption, ExecutionAssumption DEF LoopTypeOK

LEMMA NoResultTyped == NoResult \in [status : Statuses, asks : BOOLEAN]
BY DEF NoResult, Statuses

\* Failed: while the breaker is not set, the failures stay below the limits.
LEMMA FailedCounts ==
  ASSUME LoopTypeOK, NEW sig \in Sigs, Failed(sig)
  PROVE  /\ fails' \in [Sigs -> Nat] /\ consec' \in Nat /\ breaker' \in BOOLEAN
         /\ Below /\ ~breaker' => Below'
<1>1. fails \in [Sigs -> Nat] /\ consec \in Nat
  BY DEF LoopTypeOK
<1>2. fails' \in [Sigs -> Nat] /\ consec' \in Nat
  BY <1>1 DEF Failed
<1>3. breaker' \in BOOLEAN
  BY DEF Failed
<1>4. ASSUME Below, ~breaker' PROVE Below'
  <2>1. fails[sig] + 1 < SameFail /\ consec + 1 < ConsecFail
    <3>1. ~(fails[sig] + 1 >= SameFail \/ consec + 1 >= ConsecFail)
      BY <1>4, Zenon DEF Failed
    <3> QED BY <1>1, <3>1, Numbers
  <2>2. consec' < ConsecFail
    BY <2>1 DEF Failed
  <2>3. ASSUME NEW s \in Sigs PROVE fails'[s] < SameFail
    BY <1>1, <1>4, <2>1 DEF Failed, Below
  <2> QED BY <2>2, <2>3 DEF Below
<1> QED BY <1>2, <1>3, <1>4

\* Succeeded or FailedCall, with the rest of a tool call whatever it is.
LEMMA CallIsCounted ==
  ASSUME IInv, Call, Succeeded \/ FailedCall, UNCHANGED attempt
  PROVE  LoopTypeOK' /\ Limits'
<1> USE DEF Call, InBatch, CallFinished
<1>1. LoopTypeOK /\ Limits
  BY DEF IInv, TypeOK
<1>2. /\ count \in Nat /\ left \in Nat /\ count' = count + 1
      /\ phase = "batch" /\ phase' = "batch" /\ left > 0
      /\ UNCHANGED <<budget, result, nonJson>>
  BY <1>1 DEF LoopTypeOK, Succeeded, FailedCall
<1>3. ~breaker /\ Below
  BY <1>1, <1>2 DEF Limits
<1>4. /\ fails' \in [Sigs -> Nat] /\ consec' \in Nat /\ breaker' \in BOOLEAN
      /\ ~breaker' => Below'
  <2>1. CASE Succeeded
    BY <1>1, <1>3, <2>1, Numbers DEF Succeeded, LoopTypeOK, Below
  <2>2. CASE FailedCall
    <3>1. PICK sig \in Sigs : Failed(sig)
      BY <2>2 DEF FailedCall
    <3> QED BY <1>1, <1>3, <3>1, FailedCounts
  <2> QED BY <2>1, <2>2
<1>5. left' \in Nat /\ left' <= left - 1 /\ (breaker' => left' = 0)
  BY <1>2, <1>4 DEF Succeeded, FailedCall
<1>6. LoopTypeOK'
  BY <1>1, <1>2, <1>4, <1>5 DEF LoopTypeOK
<1>7. Limits'
  <2>1. left' <= BatchCap /\ count' + left' < budget' + BatchCap
    BY <1>1, <1>2, <1>5, Numbers DEF Limits
  <2>2. attempt' < MaxRetries
    BY <1>1, <1>2 DEF Limits
  <2> QED BY <1>2, <1>4, <1>5, <2>1, <2>2 DEF Limits
<1> QED BY <1>6, <1>7

\* Finish: run_worker returns.
LEMMA CallReturns ==
  ASSUME IInv, phase \in {"turn", "batch"}, NEW status \in Statuses, NEW asks \in BOOLEAN,
         status = "complete" => phase = "turn", Finish(status, asks),
         UNCHANGED <<fails, consec, attempt>>
  PROVE  LoopTypeOK' /\ Limits'
<1>1. LoopTypeOK /\ Limits
  BY DEF IInv, TypeOK
<1>2. LoopTypeOK'
  BY <1>1, Numbers DEF LoopTypeOK, Finish, ClearLocals, Statuses
<1>3. /\ phase' = "returned" /\ result'.status = status /\ left' = 0 /\ breaker' = FALSE
  BY DEF Finish, ClearLocals
<1>4. attempt' < MaxRetries
  BY <1>1 DEF Limits
<1>5. status = "complete" => Below'
  BY <1>1 DEF Limits, Below
<1>6. 0 <= BatchCap
  BY <1>1, Numbers
<1> QED BY <1>2, <1>3, <1>4, <1>5, <1>6 DEF Limits

\* A verdict is reached in an attempt whose failures are below the limits.
LEMMA VerdictIsReached ==
  ASSUME IInv, phase # "batch", Below, attempt < MaxRetries,
         NEW kind \in {"PASS", "FAIL", "REPLAN"}, NEW guided \in BOOLEAN,
         NEW sig \in FailSigs \cup {NoSig}, Judged(kind, guided, sig),
         ran' \in BOOLEAN,
         pool' \subseteq Servers, alive' \subseteq Servers, started' \subseteq Servers,
         adrift' \subseteq Servers
  PROVE  IInv'
<1> USE DEF Judged
<1>1. LoopTypeOK /\ WorkspaceTypeOK /\ RetryTypeOK /\ Limits
  BY DEF IInv, TypeOK
<1>2. LoopTypeOK'
  BY <1>1 DEF LoopTypeOK, localVars, keptVars
<1>3. WorkspaceTypeOK'
  BY <1>1 DEF WorkspaceTypeOK, localVars, keptVars, fileVars, serverVars
<1>4. RetryTypeOK'
  BY <1>1 DEF RetryTypeOK
<1>5. Limits'
  <2>1. Below'
    BY DEF Below, keptVars
  <2>2. ~breaker
    BY <1>1 DEF Limits
  <2> QED BY <1>1, <2>1, <2>2 DEF Limits, localVars
<1> QED BY <1>2, <1>3, <1>4, <1>5 DEF IInv, TypeOK

-----------------------------------------------------------------------------
(* The invariant is inductive                                              *)

\* The steps of the worker.
LEMMA WorkerKeepsIInv == IInv /\ InWorker => IInv'
<1> SUFFICES ASSUME IInv, InWorker PROVE IInv'
  OBVIOUS
<1>0. UNCHANGED <<targets, retryVars>> /\ RetryTypeOK'
  BY DEF InWorker, WorkerStep, retryVars, IInv, TypeOK, RetryTypeOK
<1> SUFFICES LoopTypeOK' /\ WorkspaceTypeOK' /\ Limits'
  BY <1>0 DEF IInv, TypeOK
<1> USE <1>0 DEF IInv, TypeOK
<1>1. CASE Cancelled
  <2>1. Finish("cancelled", FALSE)
    BY <1>1 DEF Cancelled
  <2>2. LoopTypeOK' /\ Limits'
    BY <1>1, <2>1, CallReturns DEF Cancelled, TakingTurns, Statuses, keptVars, retryVars
  <2>3. WorkspaceTypeOK'
    BY <1>1, <2>1 DEF Cancelled, Finish, Drift, ClearLocals, WorkspaceTypeOK, keptVars, fileVars
  <2> QED BY <2>2, <2>3
<1>2. CASE ModelRaises
  <2>1. LoopTypeOK'
    BY <1>2, Numbers DEF ModelRaises, ClearLocals, TakingTurns, LoopTypeOK, Statuses,
         loopVars, localVars, keptVars, fileVars, serverVars
  <2>2. WorkspaceTypeOK'
    BY <1>2 DEF ModelRaises, ClearLocals, TakingTurns, WorkspaceTypeOK, loopVars, localVars,
         keptVars, fileVars, serverVars
  <2>3. Limits'
    BY <1>2, Numbers DEF ModelRaises, ClearLocals, TakingTurns, Limits, Below, LoopTypeOK,
         loopVars, localVars, keptVars, fileVars, serverVars, retryVars
  <2> QED BY <2>1, <2>2, <2>3
<1>3. CASE NonJson
  <2>1. WorkspaceTypeOK'
    BY <1>3 DEF NonJson, Finish, Drift, ClearLocals, AnotherTurn, WorkspaceTypeOK, keptVars,
         fileVars, serverVars
  <2>2. CASE nonJson + 1 >= NonJsonMax
    <3>1. Finish("blocked", FALSE)
      BY <1>3, <2>2 DEF NonJson
    <3>2. LoopTypeOK' /\ Limits'
      BY <1>3, <3>1, CallReturns DEF NonJson, TakingTurns, Statuses, keptVars, retryVars
    <3> QED BY <2>1, <3>2
  <2>3. CASE ~(nonJson + 1 >= NonJsonMax)
    <3>1. AnotherTurn /\ UNCHANGED keptVars /\ nonJson' = nonJson + 1
      BY <1>3, <2>3 DEF NonJson
    <3>2. LoopTypeOK'
      BY <2>3, <3>1, Numbers DEF AnotherTurn, LoopTypeOK, keptVars
    <3>3. Limits'
      BY <3>1 DEF AnotherTurn, Limits, Below, keptVars, retryVars
    <3> QED BY <2>1, <3>2, <3>3
  <2> QED BY <2>2, <2>3
<1>4. CASE AsksScope
  <2>1. PICK asks \in BOOLEAN : Finish("request_scope", asks)
    BY <1>4 DEF AsksScope
  <2>2. LoopTypeOK' /\ Limits'
    BY <1>4, <2>1, CallReturns DEF AsksScope, TakingTurns, Statuses, keptVars, retryVars
  <2>3. WorkspaceTypeOK'
    BY <1>4, <2>1 DEF AsksScope, Finish, Drift, ClearLocals, WorkspaceTypeOK, keptVars, fileVars
  <2> QED BY <2>2, <2>3
<1>5. CASE SaysBlocked
  <2>1. PICK asks \in BOOLEAN : Finish("blocked", asks)
    BY <1>5 DEF SaysBlocked
  <2>2. LoopTypeOK' /\ Limits'
    BY <1>5, <2>1, CallReturns DEF SaysBlocked, TakingTurns, Statuses, keptVars, retryVars
  <2>3. WorkspaceTypeOK'
    BY <1>5, <2>1 DEF SaysBlocked, Finish, Drift, ClearLocals, WorkspaceTypeOK, keptVars, fileVars
  <2> QED BY <2>2, <2>3
<1>6. CASE SaysComplete
  <2>1. WorkspaceTypeOK'
    BY <1>6 DEF SaysComplete, Finish, Drift, ClearLocals, AnotherTurn, WorkspaceTypeOK, keptVars,
         fileVars, serverVars
  <2>2. CASE Finish("complete", FALSE)
    BY <1>6, <2>1, <2>2, CallReturns DEF SaysComplete, TakingTurns, Statuses, keptVars,
         retryVars
  <2>3. CASE AnotherTurn /\ nonJson' = 0
    <3>1. UNCHANGED keptVars
      BY <1>6 DEF SaysComplete
    <3>2. LoopTypeOK'
      BY <2>3, <3>1, Numbers DEF AnotherTurn, LoopTypeOK, keptVars
    <3>3. Limits'
      BY <2>3, <3>1 DEF AnotherTurn, Limits, Below, keptVars, retryVars
    <3> QED BY <2>1, <3>2, <3>3
  <2> QED BY <1>6, <2>2, <2>3 DEF SaysComplete
<1>7. CASE Malformed
  <2>1. LoopTypeOK'
    BY <1>7, Numbers DEF Malformed, TakingTurns, LoopTypeOK, Statuses, loopVars, localVars,
         keptVars, fileVars, serverVars
  <2>2. WorkspaceTypeOK'
    BY <1>7 DEF Malformed, TakingTurns, WorkspaceTypeOK, loopVars, localVars, keptVars,
         fileVars, serverVars
  <2>3. Limits'
    BY <1>7, Numbers DEF Malformed, TakingTurns, Limits, Below, LoopTypeOK, loopVars,
         localVars, keptVars, fileVars, serverVars, retryVars
  <2> QED BY <2>1, <2>2, <2>3
<1>8. CASE TakeBatch
  <2>1. LoopTypeOK'
    BY <1>8, Numbers DEF TakeBatch, TakingTurns, LoopTypeOK, Statuses, loopVars, localVars,
         keptVars, fileVars, serverVars
  <2>2. WorkspaceTypeOK'
    BY <1>8 DEF TakeBatch, TakingTurns, WorkspaceTypeOK, loopVars, localVars, keptVars,
         fileVars, serverVars
  <2>3. Limits'
    BY <1>8, Numbers DEF TakeBatch, TakingTurns, Limits, Below, LoopTypeOK, loopVars,
         localVars, keptVars, fileVars, serverVars, retryVars
  <2> QED BY <2>1, <2>2, <2>3
<1>9. CASE BudgetSpent
  <2>1. PICK status \in {"complete", "blocked"} : Finish(status, FALSE)
    BY <1>9 DEF BudgetSpent
  <2>2. LoopTypeOK' /\ Limits'
    BY <1>9, <2>1, CallReturns DEF BudgetSpent, Statuses, keptVars, retryVars
  <2>3. WorkspaceTypeOK'
    BY <1>9, <2>1 DEF BudgetSpent, Finish, Drift, ClearLocals, WorkspaceTypeOK, keptVars, fileVars
  <2> QED BY <2>2, <2>3
<1>10. CASE SkipCall
  <2>1. LoopTypeOK'
    BY <1>10, Numbers DEF SkipCall, InBatch, LoopTypeOK, Statuses, loopVars, localVars,
         keptVars, fileVars, serverVars
  <2>2. WorkspaceTypeOK'
    BY <1>10 DEF SkipCall, InBatch, WorkspaceTypeOK, loopVars, localVars, keptVars, fileVars,
         serverVars
  <2>3. Limits'
    BY <1>10, Numbers DEF SkipCall, InBatch, Limits, Below, LoopTypeOK, loopVars, localVars,
         keptVars, fileVars, serverVars, retryVars
  <2> QED BY <2>1, <2>2, <2>3
<1>11. CASE RefuseCall
  <2> USE <1>11 DEF RefuseCall, InBatch
  <2>1. PICK sig \in Sigs : Failed(sig)
    OBVIOUS
  <2>2. ~breaker /\ Below
    BY DEF Limits, LoopTypeOK
  <2>3. /\ fails' \in [Sigs -> Nat] /\ consec' \in Nat /\ breaker' \in BOOLEAN
        /\ ~breaker' => Below'
    BY <2>1, <2>2, FailedCounts
  <2>4. left' \in Nat /\ left' <= left - 1 /\ (breaker' => left' = 0)
    BY <2>3 DEF LoopTypeOK
  <2>5. LoopTypeOK'
    BY <2>3, <2>4 DEF LoopTypeOK
  <2>6. WorkspaceTypeOK'
    BY DEF WorkspaceTypeOK, fileVars, serverVars
  <2>7. left' <= BatchCap /\ count' + left' < budget' + BatchCap
    BY <2>4, Numbers DEF Limits, LoopTypeOK
  <2>8. attempt' < MaxRetries
    BY DEF Limits, retryVars
  <2>9. Limits'
    BY <2>3, <2>4, <2>7, <2>8 DEF Limits
  <2> QED BY <2>5, <2>6, <2>9
<1>12. CASE SearchTools
  <2>1. Call /\ (Succeeded \/ FailedCall)
    BY <1>12 DEF SearchTools
  <2>2. LoopTypeOK' /\ Limits'
    BY <2>1, CallIsCounted DEF retryVars
  <2>3. WorkspaceTypeOK'
    BY <1>12, FilesAssumption DEF SearchTools, Call, Succeeded, FailedCall, CallFinished,
         WorkspaceTypeOK, fileVars, serverVars
  <2> QED BY <2>2, <2>3
<1>13. CASE OtherTool
  <2>1. Call /\ (Succeeded \/ FailedCall)
    BY <1>13 DEF OtherTool
  <2>2. LoopTypeOK' /\ Limits'
    BY <2>1, CallIsCounted DEF retryVars
  <2>3. WorkspaceTypeOK'
    BY <1>13, FilesAssumption DEF OtherTool, WorkspaceTypeOK, fileVars, serverVars
  <2> QED BY <2>2, <2>3
<1>14. CASE BatchEnds
  <2>1. WorkspaceTypeOK'
    BY <1>14 DEF BatchEnds, Finish, Drift, ClearLocals, WorkspaceTypeOK, keptVars, fileVars,
         serverVars
  <2>2. CASE breaker
    <3>1. Finish("blocked", FALSE) /\ UNCHANGED keptVars /\ phase = "batch"
      BY <1>14, <2>2 DEF BatchEnds
    <3>2. LoopTypeOK' /\ Limits'
      BY <3>1, CallReturns DEF Statuses, keptVars, retryVars
    <3> QED BY <2>1, <3>2
  <2>3. CASE ~breaker
    <3>1. /\ phase = "batch" /\ phase' = "turn" /\ left = 0
          /\ UNCHANGED <<budget, result, count, nonJson, left, breaker, fails, consec, attempt>>
      BY <1>14, <2>3 DEF BatchEnds, keptVars, retryVars
    <3>2. LoopTypeOK'
      BY <3>1 DEF LoopTypeOK
    <3>3. Limits'
      BY <2>3, <3>1, Numbers DEF Limits, Below, LoopTypeOK
    <3> QED BY <2>1, <3>2, <3>3
  <2> QED BY <2>2, <2>3
<1>15. CASE ServeList
  <2>1. Call /\ (Succeeded \/ FailedCall)
    BY <1>15 DEF ServeList, CanServe
  <2>2. LoopTypeOK' /\ Limits'
    BY <2>1, CallIsCounted DEF retryVars
  <2>3. WorkspaceTypeOK'
    BY <1>15, FilesAssumption DEF ServeList, Drift, CanServe, WorkspaceTypeOK, fileVars, serverVars
  <2> QED BY <2>2, <2>3
<1>16. ASSUME NEW f \in Files, ReadFile(f)
      PROVE  LoopTypeOK' /\ WorkspaceTypeOK' /\ Limits'
  <2>1. Call /\ (Succeeded \/ FailedCall)
    BY <1>16 DEF ReadFile
  <2>2. LoopTypeOK' /\ Limits'
    BY <2>1, CallIsCounted DEF retryVars
  <2>3. WorkspaceTypeOK'
    BY <1>16, FilesAssumption DEF ReadFile, AfterReadFile, Policy, WorkspaceTypeOK, fileVars,
         serverVars
  <2> QED BY <2>2, <2>3
<1>17. ASSUME NEW f \in Files, NEW b \in BOOLEAN, WriteFile(f, b)
      PROVE  LoopTypeOK' /\ WorkspaceTypeOK' /\ Limits'
  <2>1. Call /\ (Succeeded \/ FailedCall)
    BY <1>17 DEF WriteFile
  <2>2. LoopTypeOK' /\ Limits'
    BY <2>1, CallIsCounted DEF retryVars
  <2>3. WorkspaceTypeOK'
    BY <1>17, FilesAssumption DEF WriteFile, AfterWriteFile, Policy, WorkspaceTypeOK,
         fileVars, serverVars
  <2> QED BY <2>2, <2>3
<1>18. ASSUME NEW f \in Files, NEW b \in BOOLEAN, PatchFile(f, b)
      PROVE  LoopTypeOK' /\ WorkspaceTypeOK' /\ Limits'
  <2>1. Call /\ (Succeeded \/ FailedCall)
    BY <1>18 DEF PatchFile
  <2>2. LoopTypeOK' /\ Limits'
    BY <2>1, CallIsCounted DEF retryVars
  <2>3. WorkspaceTypeOK'
    BY <1>18, FilesAssumption DEF PatchFile, WorkspaceTypeOK, fileVars, serverVars
  <2> QED BY <2>2, <2>3
<1>19. ASSUME NEW f \in Files, NEW b \in BOOLEAN, RunShell(f, b)
      PROVE  LoopTypeOK' /\ WorkspaceTypeOK' /\ Limits'
  <2>1. Call /\ (Succeeded \/ FailedCall)
    BY <1>19 DEF RunShell
  <2>2. LoopTypeOK' /\ Limits'
    BY <2>1, CallIsCounted DEF retryVars
  <2>3. WorkspaceTypeOK'
    BY <1>19, FilesAssumption DEF RunShell, WorkspaceTypeOK, fileVars, serverVars
  <2> QED BY <2>2, <2>3
<1>20. ASSUME NEW s \in Servers, ServeStart(s)
      PROVE  LoopTypeOK' /\ WorkspaceTypeOK' /\ Limits'
  <2>1. Call /\ (Succeeded \/ FailedCall)
    BY <1>20 DEF ServeStart, CanServe
  <2>2. LoopTypeOK' /\ Limits'
    BY <2>1, CallIsCounted DEF retryVars
  <2>3. WorkspaceTypeOK'
    BY <1>20, FilesAssumption DEF ServeStart, Drift, CanServe, WorkspaceTypeOK, fileVars,
         serverVars
  <2> QED BY <2>2, <2>3
<1>21. ASSUME NEW s \in Servers, ServeStop(s)
      PROVE  LoopTypeOK' /\ WorkspaceTypeOK' /\ Limits'
  <2>1. Call /\ (Succeeded \/ FailedCall)
    BY <1>21 DEF ServeStop, CanServe
  <2>2. LoopTypeOK' /\ Limits'
    BY <2>1, CallIsCounted DEF retryVars
  <2>3. WorkspaceTypeOK'
    BY <1>21, FilesAssumption DEF ServeStop, Drift, CanServe, WorkspaceTypeOK, fileVars,
         serverVars
  <2> QED BY <2>2, <2>3
<1>22. ASSUME NEW s \in Servers, InspectUi(s)
      PROVE  LoopTypeOK' /\ WorkspaceTypeOK' /\ Limits'
  <2>1. Call /\ (Succeeded \/ FailedCall)
    BY <1>22 DEF InspectUi
  <2>2. LoopTypeOK' /\ Limits'
    BY <2>1, CallIsCounted DEF retryVars
  <2>3. WorkspaceTypeOK'
    BY <1>22, FilesAssumption DEF InspectUi, WorkspaceTypeOK, fileVars, serverVars
  <2> QED BY <2>2, <2>3
<1>23. ASSUME NEW s \in Servers, ServerDies(s)
      PROVE  LoopTypeOK' /\ WorkspaceTypeOK' /\ Limits'
  <2>1. LoopTypeOK'
    BY <1>23, Numbers DEF ServerDies, LoopTypeOK, Statuses, loopVars, localVars, keptVars,
         fileVars, serverVars
  <2>2. WorkspaceTypeOK'
    BY <1>23 DEF ServerDies, WorkspaceTypeOK, loopVars, localVars, keptVars, fileVars,
         serverVars
  <2>3. Limits'
    BY <1>23, Numbers DEF ServerDies, Limits, Below, LoopTypeOK, loopVars, localVars,
         keptVars, fileVars, serverVars, retryVars
  <2> QED BY <2>1, <2>2, <2>3
<1>24. CASE ServeFails
  <2>1. Call /\ (Succeeded \/ FailedCall)
    BY <1>24 DEF ServeFails, CanServe
  <2>2. LoopTypeOK' /\ Limits'
    BY <2>1, CallIsCounted DEF retryVars
  <2>3. WorkspaceTypeOK'
    BY <1>24, FilesAssumption DEF ServeFails, Drift, CanServe, WorkspaceTypeOK, fileVars
  <2> QED BY <2>2, <2>3
<1> QED
  BY <1>1, <1>2, <1>3, <1>4, <1>5, <1>6, <1>7, <1>8, <1>9, <1>10, <1>11, <1>12, <1>13, <1>14,
       <1>15, <1>16, <1>17, <1>18, <1>19, <1>20, <1>21, <1>22, <1>23, <1>24
  DEF InWorker, WorkerStep

\* The steps of the retry loop and of the validator.
LEMMA ExecutionKeepsIInv == IInv /\ ExecutionStep => IInv'
<1> SUFFICES ASSUME IInv, ExecutionStep PROVE IInv'
  OBVIOUS
<1> USE DEF IInv, TypeOK
<1>1. CASE StartAttempt
  <2>1. PICK b \in {WorkerBudget, HotfixBudget} : StartCall(b)
    BY <1>1 DEF StartAttempt
  <2>2. LoopTypeOK'
    <3>1. result' \in [status : Statuses, asks : BOOLEAN]
      BY <2>1, NoResultTyped DEF StartCall
    <3>2. phase' = "turn" /\ budget' \in {0, WorkerBudget, HotfixBudget}
      BY <2>1 DEF StartCall
    <3>3. count' = 0 /\ nonJson' = 0 /\ left' = 0 /\ breaker' \in BOOLEAN
      BY <2>1 DEF StartCall
    <3>4. fails' \in [Sigs -> Nat] /\ consec' \in Nat
      BY <1>1 DEF StartAttempt, LoopTypeOK, keptVars
    <3>5. nonJson' \in 0 .. NonJsonMax - 1
      BY <3>3, Numbers
    <3> QED BY <3>1, <3>2, <3>3, <3>4, <3>5 DEF LoopTypeOK
  <2>3. WorkspaceTypeOK'
    BY <1>1, <2>1 DEF StartAttempt, StartCall, WorkspaceTypeOK, keptVars
  <2>4. RetryTypeOK'
    BY <1>1 DEF StartAttempt, RetryTypeOK, retryVars
  <2>5. Limits'
    <3>1. budget' \in Nat
      BY <2>1, ExecutionAssumption DEF StartCall
    <3>2. Below' /\ attempt' < MaxRetries
      BY <1>1 DEF StartAttempt, Limits, Below, keptVars, retryVars
    <3> QED BY <2>1, <3>1, <3>2, Numbers DEF StartCall, Limits
  <2> QED BY <2>2, <2>3, <2>4, <2>5
<1>2. CASE CancelledBetween
  <2>1. LoopTypeOK'
    BY <1>2, Numbers DEF CancelledBetween, Over, LoopTypeOK, Statuses, NoResult, loopVars,
         localVars, keptVars, fileVars, serverVars
  <2>2. WorkspaceTypeOK'
    BY <1>2 DEF CancelledBetween, Over, WorkspaceTypeOK, loopVars, localVars, keptVars,
         fileVars, serverVars
  <2>3. RetryTypeOK'
    BY <1>2, Numbers DEF CancelledBetween, Over, RetryTypeOK, Outcomes, NoVerdict, loopVars,
         localVars, keptVars, fileVars, serverVars, retryVars
  <2>4. Limits'
    BY <1>2, Numbers DEF CancelledBetween, Over, Limits, Below, LoopTypeOK, RetryTypeOK,
         loopVars, localVars, keptVars, fileVars, serverVars, retryVars
  <2> QED BY <2>1, <2>2, <2>3, <2>4
<1>3. CASE Exhausted
  <2>1. LoopTypeOK'
    BY <1>3, Numbers DEF Exhausted, Over, LoopTypeOK, Statuses, NoResult, loopVars,
         localVars, keptVars, fileVars, serverVars
  <2>2. WorkspaceTypeOK'
    BY <1>3 DEF Exhausted, Over, WorkspaceTypeOK, loopVars, localVars, keptVars, fileVars,
         serverVars
  <2>3. RetryTypeOK'
    BY <1>3, Numbers DEF Exhausted, Over, RetryTypeOK, Outcomes, NoVerdict, loopVars,
         localVars, keptVars, fileVars, serverVars, retryVars
  <2>4. Limits'
    BY <1>3, Numbers DEF Exhausted, Over, Limits, Below, LoopTypeOK, RetryTypeOK, loopVars,
         localVars, keptVars, fileVars, serverVars, retryVars
  <2> QED BY <2>1, <2>2, <2>3, <2>4
<1>4. CASE NotComplete
  <2>1. LoopTypeOK'
    BY <1>4, Numbers DEF NotComplete, Over, LoopTypeOK, Statuses, NoResult, loopVars,
         localVars, keptVars, fileVars, serverVars
  <2>2. WorkspaceTypeOK'
    BY <1>4 DEF NotComplete, Over, WorkspaceTypeOK, loopVars, localVars, keptVars, fileVars,
         serverVars
  <2>3. RetryTypeOK'
    BY <1>4, Numbers DEF NotComplete, Over, RetryTypeOK, Outcomes, NoVerdict, loopVars,
         localVars, keptVars, fileVars, serverVars, retryVars
  <2>4. Limits'
    BY <1>4, Numbers DEF NotComplete, Over, Limits, Below, LoopTypeOK, RetryTypeOK, loopVars,
         localVars, keptVars, fileVars, serverVars, retryVars
  <2> QED BY <2>1, <2>2, <2>3, <2>4
<1>5. CASE Raised
  <2>1. LoopTypeOK'
    BY <1>5, Numbers DEF Raised, Over, LoopTypeOK, Statuses, NoResult, loopVars, localVars,
         keptVars, fileVars, serverVars
  <2>2. WorkspaceTypeOK'
    BY <1>5 DEF Raised, Over, WorkspaceTypeOK, loopVars, localVars, keptVars, fileVars,
         serverVars
  <2>3. RetryTypeOK'
    BY <1>5, Numbers DEF Raised, Over, RetryTypeOK, Outcomes, NoVerdict, loopVars, localVars,
         keptVars, fileVars, serverVars, retryVars
  <2>4. Limits'
    BY <1>5, Numbers DEF Raised, Over, Limits, Below, LoopTypeOK, RetryTypeOK, loopVars,
         localVars, keptVars, fileVars, serverVars, retryVars
  <2> QED BY <2>1, <2>2, <2>3, <2>4
<1>6. CASE RunEnds
  <2>1. LoopTypeOK'
    BY <1>6, Numbers DEF RunEnds, OpenPolicy, BeginPolicy, Policy, LoopTypeOK, Statuses,
         NoResult, loopVars, localVars, keptVars, fileVars, serverVars
  <2>2. WorkspaceTypeOK'
    BY <1>6 DEF RunEnds, OpenPolicy, BeginPolicy, Policy, WorkspaceTypeOK, loopVars,
         localVars, keptVars, fileVars, serverVars
  <2>3. RetryTypeOK'
    BY <1>6, Numbers DEF RunEnds, OpenPolicy, BeginPolicy, Policy, RetryTypeOK, Outcomes,
         NoVerdict, loopVars, localVars, keptVars, fileVars, serverVars, retryVars
  <2>4. Limits'
    BY <1>6, Numbers DEF RunEnds, OpenPolicy, BeginPolicy, Policy, Limits, Below, LoopTypeOK,
         RetryTypeOK, loopVars, localVars, keptVars, fileVars, serverVars, retryVars
  <2> QED BY <2>1, <2>2, <2>3, <2>4
<1>7. CASE VerifyFix
  <2>1. phase # "batch" /\ Below /\ attempt < MaxRetries
    BY <1>7 DEF VerifyFix, WorkComplete, Limits
  <2>2. /\ ran' \in BOOLEAN
        /\ pool' \subseteq Servers /\ alive' \subseteq Servers /\ started' \subseteq Servers
        /\ adrift' \subseteq Servers
    BY <1>7 DEF VerifyFix, serverVars, WorkspaceTypeOK, RetryTypeOK
  <2>3. PICK kind \in {"PASS", "FAIL", "REPLAN"}, guided \in BOOLEAN,
             sig \in FailSigs \cup {NoSig} :
          Judged(kind, guided, sig)
    BY <1>7 DEF VerifyFix, Passes, Fails, Replans
  <2> QED BY <2>1, <2>2, <2>3, VerdictIsReached
<1>8. CASE Uncompilable
  <2>1. phase # "batch" /\ Below /\ attempt < MaxRetries
    BY <1>8 DEF Uncompilable, WorkComplete, Limits
  <2>2. /\ ran' \in BOOLEAN
        /\ pool' \subseteq Servers /\ alive' \subseteq Servers /\ started' \subseteq Servers
        /\ adrift' \subseteq Servers
    BY <1>8 DEF Uncompilable, serverVars, WorkspaceTypeOK, RetryTypeOK
  <2>3. PICK kind \in {"PASS", "FAIL", "REPLAN"}, guided \in BOOLEAN,
             sig \in FailSigs \cup {NoSig} :
          Judged(kind, guided, sig)
    BY <1>8 DEF Uncompilable, Passes, Fails, Replans
  <2> QED BY <2>1, <2>2, <2>3, VerdictIsReached
<1>9. CASE AuditFails
  <2>1. phase # "batch" /\ Below /\ attempt < MaxRetries
    BY <1>9 DEF AuditFails, WorkComplete, Limits
  <2>2. /\ ran' \in BOOLEAN
        /\ pool' \subseteq Servers /\ alive' \subseteq Servers /\ started' \subseteq Servers
        /\ adrift' \subseteq Servers
    BY <1>9 DEF AuditFails, serverVars, WorkspaceTypeOK, RetryTypeOK
  <2>3. PICK kind \in {"PASS", "FAIL", "REPLAN"}, guided \in BOOLEAN,
             sig \in FailSigs \cup {NoSig} :
          Judged(kind, guided, sig)
    BY <1>9 DEF AuditFails, Passes, Fails, Replans
  <2> QED BY <2>1, <2>2, <2>3, VerdictIsReached
<1>10. CASE UiServerFails
  <2>1. phase # "batch" /\ Below /\ attempt < MaxRetries
    BY <1>10 DEF UiServerFails, Limits
  <2>2. /\ ran' \in BOOLEAN
        /\ pool' \subseteq Servers /\ alive' \subseteq Servers /\ started' \subseteq Servers
        /\ adrift' \subseteq Servers
    BY <1>10 DEF UiServerFails, Drift, serverVars, WorkspaceTypeOK, RetryTypeOK
  <2>3. PICK kind \in {"PASS", "FAIL", "REPLAN"}, guided \in BOOLEAN,
             sig \in FailSigs \cup {NoSig} :
          Judged(kind, guided, sig)
    BY <1>10 DEF UiServerFails, Passes, Fails, Replans
  <2> QED BY <2>1, <2>2, <2>3, VerdictIsReached
<1>11. CASE UiChecked
  <2>1. phase # "batch" /\ Below /\ attempt < MaxRetries
    BY <1>11 DEF UiChecked, Limits
  <2>2. /\ ran' \in BOOLEAN
        /\ pool' \subseteq Servers /\ alive' \subseteq Servers /\ started' \subseteq Servers
        /\ adrift' \subseteq Servers
    BY <1>11 DEF UiChecked, StopUiServer, Drift, serverVars, WorkspaceTypeOK, RetryTypeOK
  <2>3. PICK kind \in {"PASS", "FAIL", "REPLAN"}, guided \in BOOLEAN,
             sig \in FailSigs \cup {NoSig} :
          Judged(kind, guided, sig)
    BY <1>11 DEF UiChecked, Passes, Fails, Replans
  <2> QED BY <2>1, <2>2, <2>3, VerdictIsReached
<1>12. CASE PolicyDenied
  <2>1. phase # "batch" /\ Below /\ attempt < MaxRetries
    BY <1>12 DEF PolicyDenied, Limits
  <2>2. /\ ran' \in BOOLEAN
        /\ pool' \subseteq Servers /\ alive' \subseteq Servers /\ started' \subseteq Servers
        /\ adrift' \subseteq Servers
    BY <1>12 DEF PolicyDenied, serverVars, WorkspaceTypeOK, RetryTypeOK
  <2>3. PICK kind \in {"PASS", "FAIL", "REPLAN"}, guided \in BOOLEAN,
             sig \in FailSigs \cup {NoSig} :
          Judged(kind, guided, sig)
    BY <1>12 DEF PolicyDenied, Passes, Fails, Replans
  <2> QED BY <2>1, <2>2, <2>3, VerdictIsReached
<1>13. CASE NothingCollected
  <2>1. phase # "batch" /\ Below /\ attempt < MaxRetries
    BY <1>13 DEF NothingCollected, Limits
  <2>2. /\ ran' \in BOOLEAN
        /\ pool' \subseteq Servers /\ alive' \subseteq Servers /\ started' \subseteq Servers
        /\ adrift' \subseteq Servers
    BY <1>13 DEF NothingCollected, serverVars, WorkspaceTypeOK, RetryTypeOK
  <2>3. PICK kind \in {"PASS", "FAIL", "REPLAN"}, guided \in BOOLEAN,
             sig \in FailSigs \cup {NoSig} :
          Judged(kind, guided, sig)
    BY <1>13 DEF NothingCollected, Passes, Fails, Replans
  <2> QED BY <2>1, <2>2, <2>3, VerdictIsReached
<1>14. CASE RedPhase
  <2>1. phase # "batch" /\ Below /\ attempt < MaxRetries
    BY <1>14 DEF RedPhase, Limits
  <2>2. /\ ran' \in BOOLEAN
        /\ pool' \subseteq Servers /\ alive' \subseteq Servers /\ started' \subseteq Servers
        /\ adrift' \subseteq Servers
    BY <1>14 DEF RedPhase, serverVars, WorkspaceTypeOK, RetryTypeOK
  <2>3. PICK kind \in {"PASS", "FAIL", "REPLAN"}, guided \in BOOLEAN,
             sig \in FailSigs \cup {NoSig} :
          Judged(kind, guided, sig)
    BY <1>14 DEF RedPhase, Passes, Fails, Replans
  <2> QED BY <2>1, <2>2, <2>3, VerdictIsReached
<1>15. CASE AllSkipped
  <2>1. phase # "batch" /\ Below /\ attempt < MaxRetries
    BY <1>15 DEF AllSkipped, Limits
  <2>2. /\ ran' \in BOOLEAN
        /\ pool' \subseteq Servers /\ alive' \subseteq Servers /\ started' \subseteq Servers
        /\ adrift' \subseteq Servers
    BY <1>15 DEF AllSkipped, serverVars, WorkspaceTypeOK, RetryTypeOK
  <2>3. PICK kind \in {"PASS", "FAIL", "REPLAN"}, guided \in BOOLEAN,
             sig \in FailSigs \cup {NoSig} :
          Judged(kind, guided, sig)
    BY <1>15 DEF AllSkipped, Passes, Fails, Replans
  <2> QED BY <2>1, <2>2, <2>3, VerdictIsReached
<1>16. CASE ExitsZero
  <2>1. phase # "batch" /\ Below /\ attempt < MaxRetries
    BY <1>16 DEF ExitsZero, Limits
  <2>2. /\ ran' \in BOOLEAN
        /\ pool' \subseteq Servers /\ alive' \subseteq Servers /\ started' \subseteq Servers
        /\ adrift' \subseteq Servers
    BY <1>16 DEF ExitsZero, serverVars, WorkspaceTypeOK, RetryTypeOK
  <2>3. PICK kind \in {"PASS", "FAIL", "REPLAN"}, guided \in BOOLEAN,
             sig \in FailSigs \cup {NoSig} :
          Judged(kind, guided, sig)
    BY <1>16 DEF ExitsZero, Passes, Fails, Replans
  <2> QED BY <2>1, <2>2, <2>3, VerdictIsReached
<1>17. CASE ExitsNonzero
  <2>1. LoopTypeOK'
    BY <1>17, Numbers DEF ExitsNonzero, LoopTypeOK, Statuses, NoResult, loopVars, localVars,
         keptVars, fileVars, serverVars
  <2>2. WorkspaceTypeOK'
    BY <1>17 DEF ExitsNonzero, WorkspaceTypeOK, loopVars, localVars, keptVars, fileVars,
         serverVars
  <2>3. RetryTypeOK'
    BY <1>17, Numbers DEF ExitsNonzero, RetryTypeOK, Outcomes, NoVerdict, loopVars,
         localVars, keptVars, fileVars, serverVars, retryVars
  <2>4. Limits'
    BY <1>17, Numbers DEF ExitsNonzero, Limits, Below, LoopTypeOK, RetryTypeOK, loopVars,
         localVars, keptVars, fileVars, serverVars, retryVars
  <2> QED BY <2>1, <2>2, <2>3, <2>4
<1>18. CASE Unparsable
  <2>1. phase # "batch" /\ Below /\ attempt < MaxRetries
    BY <1>18 DEF Unparsable, Limits
  <2>2. /\ ran' \in BOOLEAN
        /\ pool' \subseteq Servers /\ alive' \subseteq Servers /\ started' \subseteq Servers
        /\ adrift' \subseteq Servers
    BY <1>18 DEF Unparsable, serverVars, WorkspaceTypeOK, RetryTypeOK
  <2>3. PICK kind \in {"PASS", "FAIL", "REPLAN"}, guided \in BOOLEAN,
             sig \in FailSigs \cup {NoSig} :
          Judged(kind, guided, sig)
    BY <1>18 DEF Unparsable, Passes, Fails, Replans
  <2> QED BY <2>1, <2>2, <2>3, VerdictIsReached
<1>19. CASE JudgeRaises \/ UiServerRaises \/ UiChecksRaise
  <2>1. PICK here \in {"review", "ui", "checks"} : RaisesFrom(here)
    BY <1>19 DEF JudgeRaises, UiServerRaises, UiChecksRaise
  <2>2. /\ pool' \subseteq Servers /\ alive' \subseteq Servers /\ started' \subseteq Servers
        /\ adrift' \subseteq Servers
    BY <1>19 DEF JudgeRaises, UiServerRaises, UiChecksRaise, StopUiServer, Drift,
                 WorkspaceTypeOK, serverVars
  <2> USE <2>1 DEF RaisesFrom, loopVars, localVars, keptVars, fileVars, retryVars
  <2>3. LoopTypeOK'
    BY DEF LoopTypeOK
  <2>4. WorkspaceTypeOK'
    BY <2>2 DEF WorkspaceTypeOK
  <2>5. RetryTypeOK'
    BY DEF RetryTypeOK
  <2>6. Limits'
    BY DEF Limits, Below
  <2> QED BY <2>3, <2>4, <2>5, <2>6
<1>20. CASE Pass
  <2>1. LoopTypeOK'
    BY <1>20, Numbers DEF Pass, Over, LoopTypeOK, Statuses, NoResult, loopVars, localVars,
         keptVars, fileVars, serverVars
  <2>2. WorkspaceTypeOK'
    BY <1>20 DEF Pass, Over, WorkspaceTypeOK, loopVars, localVars, keptVars, fileVars,
         serverVars
  <2>3. RetryTypeOK'
    BY <1>20, Numbers DEF Pass, Over, RetryTypeOK, Outcomes, NoVerdict, loopVars, localVars,
         keptVars, fileVars, serverVars, retryVars
  <2>4. Limits'
    BY <1>20, Numbers DEF Pass, Over, Limits, Below, LoopTypeOK, RetryTypeOK, loopVars,
         localVars, keptVars, fileVars, serverVars, retryVars
  <2> QED BY <2>1, <2>2, <2>3, <2>4
<1>21. CASE Replan
  <2>1. LoopTypeOK'
    BY <1>21, Numbers DEF Replan, Over, LoopTypeOK, Statuses, NoResult, loopVars, localVars,
         keptVars, fileVars, serverVars
  <2>2. WorkspaceTypeOK'
    BY <1>21 DEF Replan, Over, WorkspaceTypeOK, loopVars, localVars, keptVars, fileVars,
         serverVars
  <2>3. RetryTypeOK'
    BY <1>21, Numbers DEF Replan, Over, RetryTypeOK, Outcomes, NoVerdict, loopVars,
         localVars, keptVars, fileVars, serverVars, retryVars
  <2>4. Limits'
    BY <1>21, Numbers DEF Replan, Over, Limits, Below, LoopTypeOK, RetryTypeOK, loopVars,
         localVars, keptVars, fileVars, serverVars, retryVars
  <2> QED BY <2>1, <2>2, <2>3, <2>4
<1>22. CASE ReplanRejected
  <2>1. LoopTypeOK'
    BY <1>22, Numbers DEF ReplanRejected, NextAttempt, LoopTypeOK, Statuses, NoResult,
         loopVars, localVars, keptVars, fileVars, serverVars
  <2>2. WorkspaceTypeOK'
    BY <1>22 DEF ReplanRejected, NextAttempt, WorkspaceTypeOK, loopVars, localVars, keptVars,
         fileVars, serverVars
  <2>3. RetryTypeOK'
    <3>1. attempt + 1 \in 0 .. MaxRetries
      BY <1>22, Numbers DEF ReplanRejected, Limits, RetryTypeOK
    <3>2. verdict.sig \in FailSigs \cup {NoSig}
      BY DEF RetryTypeOK
    <3> QED
      BY <1>22, <3>1, <3>2 
         DEF ReplanRejected, NextAttempt, RetryTypeOK, NoVerdict, loopVars, localVars,
              keptVars, fileVars, serverVars, retryVars
  <2>4. Limits'
    BY <1>22, Numbers DEF ReplanRejected, NextAttempt, Limits, Below, LoopTypeOK,
         RetryTypeOK, loopVars, localVars, keptVars, fileVars, serverVars, retryVars
  <2> QED BY <2>1, <2>2, <2>3, <2>4
<1>23. CASE FailAgain
  <2>1. LoopTypeOK'
    BY <1>23, Numbers DEF FailAgain, Over, LoopTypeOK, Statuses, NoResult, loopVars,
         localVars, keptVars, fileVars, serverVars
  <2>2. WorkspaceTypeOK'
    BY <1>23 DEF FailAgain, Over, WorkspaceTypeOK, loopVars, localVars, keptVars, fileVars,
         serverVars
  <2>3. RetryTypeOK'
    BY <1>23, Numbers DEF FailAgain, Over, RetryTypeOK, Outcomes, NoVerdict, loopVars,
         localVars, keptVars, fileVars, serverVars, retryVars
  <2>4. Limits'
    BY <1>23, Numbers DEF FailAgain, Over, Limits, Below, LoopTypeOK, RetryTypeOK, loopVars,
         localVars, keptVars, fileVars, serverVars, retryVars
  <2> QED BY <2>1, <2>2, <2>3, <2>4
<1>24. CASE FailRetry
  <2>1. LoopTypeOK'
    BY <1>24, Numbers DEF FailRetry, NextAttempt, LoopTypeOK, Statuses, NoResult, loopVars,
         localVars, keptVars, fileVars, serverVars
  <2>2. WorkspaceTypeOK'
    BY <1>24 DEF FailRetry, NextAttempt, WorkspaceTypeOK, loopVars, localVars, keptVars,
         fileVars, serverVars
  <2>3. RetryTypeOK'
    <3>1. attempt + 1 \in 0 .. MaxRetries
      BY <1>24, Numbers DEF FailRetry, Limits, RetryTypeOK
    <3>2. verdict.sig \in FailSigs \cup {NoSig}
      BY DEF RetryTypeOK
    <3> QED
      BY <1>24, <3>1, <3>2 
         DEF FailRetry, NextAttempt, RetryTypeOK, NoVerdict, loopVars, localVars, keptVars,
              fileVars, serverVars, retryVars
  <2>4. Limits'
    BY <1>24, Numbers DEF FailRetry, NextAttempt, Limits, Below, LoopTypeOK, RetryTypeOK,
         loopVars, localVars, keptVars, fileVars, serverVars, retryVars
  <2> QED BY <2>1, <2>2, <2>3, <2>4
<1>25. ASSUME NEW c \in {"ui_smoke", "structural", "command"}, StartChecks(c)
      PROVE  IInv'
  <2>1. LoopTypeOK'
    BY <1>25, Numbers DEF StartChecks, WorkComplete, LoopTypeOK, Statuses, NoResult,
         loopVars, localVars, keptVars, fileVars, serverVars
  <2>2. WorkspaceTypeOK'
    BY <1>25 DEF StartChecks, WorkComplete, WorkspaceTypeOK, loopVars, localVars, keptVars,
         fileVars, serverVars
  <2>3. RetryTypeOK'
    BY <1>25, Numbers DEF StartChecks, WorkComplete, RetryTypeOK, Outcomes, NoVerdict,
         loopVars, localVars, keptVars, fileVars, serverVars, retryVars
  <2>4. Limits'
    BY <1>25, Numbers DEF StartChecks, WorkComplete, Limits, Below, LoopTypeOK, RetryTypeOK,
         loopVars, localVars, keptVars, fileVars, serverVars, retryVars
  <2> QED BY <2>1, <2>2, <2>3, <2>4
<1>26. ASSUME NEW s \in Servers, UiServerStarts(s)
      PROVE  IInv'
  <2>1. LoopTypeOK'
    BY <1>26, Numbers DEF UiServerStarts, LoopTypeOK, Statuses, NoResult, loopVars,
         localVars, keptVars, fileVars, serverVars
  <2>2. WorkspaceTypeOK'
    BY <1>26 DEF UiServerStarts, Drift, WorkspaceTypeOK, loopVars, localVars, keptVars, fileVars,
         serverVars
  <2>3. RetryTypeOK'
    BY <1>26, Numbers DEF UiServerStarts, RetryTypeOK, Outcomes, NoVerdict, loopVars,
         localVars, keptVars, fileVars, serverVars, retryVars
  <2>4. Limits'
    BY <1>26, Numbers DEF UiServerStarts, Limits, Below, LoopTypeOK, RetryTypeOK, loopVars,
         localVars, keptVars, fileVars, serverVars, retryVars
  <2> QED BY <2>1, <2>2, <2>3, <2>4
<1>27. ASSUME NEW said \in {"PASS", "FAIL", "REPLAN"}, NEW guided \in BOOLEAN,
     NEW infra \in BOOLEAN, ModelJudges(said, guided, infra)
      PROVE  IInv'
  <2>1. phase # "batch" /\ Below /\ attempt < MaxRetries
    BY <1>27 DEF ModelJudges, Limits
  <2>2. /\ ran' \in BOOLEAN
        /\ pool' \subseteq Servers /\ alive' \subseteq Servers /\ started' \subseteq Servers
        /\ adrift' \subseteq Servers
    BY <1>27 DEF ModelJudges, serverVars, WorkspaceTypeOK, RetryTypeOK
  <2>3. PICK k \in {"PASS", "FAIL", "REPLAN"}, g \in BOOLEAN,
             sig \in FailSigs \cup {NoSig} :
          Judged(k, g, sig)
    BY <1>27 DEF ModelJudges, NormalizeVerdict, BlockInfrastructure
  <2> QED BY <2>1, <2>2, <2>3, VerdictIsReached
<1> QED
  BY <1>1, <1>2, <1>3, <1>4, <1>5, <1>6, <1>7, <1>8, <1>9, <1>10, <1>11, <1>12, <1>13, <1>14,
       <1>15, <1>16, <1>17, <1>18, <1>19, <1>20, <1>21, <1>22, <1>23, <1>24, <1>25, <1>26,
       <1>27
  DEF ExecutionStep

\* A new execution.
LEMMA BeginKeepsIInv == IInv /\ Begin => IInv'
<1> SUFFICES ASSUME IInv, NEW packet \in Packets, NEW prof \in {"worker", "hotfix"},
                    BeginExecution(packet, prof)
             PROVE  IInv'
  BY DEF Begin
<1> USE DEF IInv, TypeOK, BeginExecution, localVars, serverVars
<1>1. LoopTypeOK'
  BY DEF LoopTypeOK
<1>2. WorkspaceTypeOK'
  <2>1. pol' \in Policy
    BY ExecutionAssumption DEF WorkspaceTypeOK, BeginPolicy, Policy
  <2> QED BY <2>1 DEF WorkspaceTypeOK
<1>3. RetryTypeOK'
  BY ExecutionAssumption DEF RetryTypeOK
<1>4. Limits'
  BY DEF Limits, Below
<1> QED BY <1>1, <1>2, <1>3, <1>4

LEMMA IInvInit == Init => IInv
<1> SUFFICES ASSUME Init PROVE IInv
  OBVIOUS
<1>1. LoopTypeOK
  <2>1. 0 \in 0 .. NonJsonMax - 1
    BY WorkerAssumption
  <2>2. fails \in [Sigs -> Nat]
    BY DEF Init
  <2>3. result \in [status : Statuses, asks : BOOLEAN]
    BY DEF Init, NoResult, Statuses
  <2> QED BY <2>1, <2>2, <2>3 DEF Init, LoopTypeOK
<1>2. WorkspaceTypeOK
  BY DEF Init, WorkspaceTypeOK, OpenPolicy, BeginPolicy, Policy
<1>3. RetryTypeOK
  <2>1. 0 \in 0 .. MaxRetries /\ 0 \in 0 .. MaxExecs
    BY ExecutionAssumption
  <2>2. verdict \in [kind : {"PASS", "FAIL", "REPLAN"}, guided : BOOLEAN,
                     sig : FailSigs \cup {NoSig}]
    BY DEF Init, NoVerdict
  <2> QED BY <2>1, <2>2 DEF Init, RetryTypeOK, Outcomes
<1>4. Limits
  BY WorkerAssumption DEF Init, Limits, Below
<1> QED BY <1>1, <1>2, <1>3, <1>4 DEF IInv, TypeOK

LEMMA IInvStep == IInv /\ [Next]_vars => IInv'
<1>1. IInv /\ UNCHANGED vars => IInv'
  <2> SUFFICES ASSUME IInv, UNCHANGED vars PROVE IInv'
    OBVIOUS
  <2> USE DEF vars, workerVars, retryVars, loopVars, localVars, keptVars, fileVars, serverVars
  <2>1. LoopTypeOK' /\ WorkspaceTypeOK' /\ RetryTypeOK'
    BY DEF IInv, TypeOK, LoopTypeOK, WorkspaceTypeOK, RetryTypeOK
  <2>2. Limits'
    BY DEF IInv, Limits, Below
  <2> QED BY <2>1, <2>2 DEF IInv, TypeOK
<1> QED
  BY <1>1, BeginKeepsIInv, WorkerKeepsIInv, ExecutionKeepsIInv DEF Next, Idle

LEMMA IInvAlways == Spec => []IInv
<1> QED BY IInvInit, IInvStep, PTL DEF Spec

-----------------------------------------------------------------------------
(* What follows from it                                                    *)

\* Every variable of an execution keeps its type; retries, unparsable answers
\* and executions stay within their bounds, whatever the agents answer.
THEOREM TypeCorrect == Spec => []TypeOK
<1>1. IInv => TypeOK
  BY DEF IInv
<1> QED BY <1>1, IInvAlways, PTL

\* A worker counts fewer calls than its tool budget and one batch more
\* (worker.py:502: a refused call does not look at the budget again).
THEOREM CallsStayBounded == Spec => []CallsBounded
<1>1. IInv => CallsBounded
  <2> SUFFICES ASSUME IInv, phase = "batch" PROVE count < budget + BatchCap
    BY DEF IInv, Limits, CallsBounded
  <2>1. count \in Nat /\ left \in Nat /\ budget \in Nat /\ BatchCap \in Nat
    BY Numbers DEF IInv, TypeOK, LoopTypeOK
  <2> QED BY <2>1 DEF IInv, Limits
<1> QED BY <1>1, IInvAlways, PTL

\* Once the failures of a milestone have reached a limit, over all its attempts,
\* the model is not asked for a turn of it again (worker.py:488-623, main.py's
\* retry loop, which keeps the counts).
THEOREM TheBreakerHolds == Spec => []NoTurnAfterBreaker
<1>1. IInv => NoTurnAfterBreaker
  BY DEF IInv, Limits, Below, NoTurnAfterBreaker
<1> QED BY <1>1, IInvAlways, PTL

-----------------------------------------------------------------------------
(* Servers                                                                 *)

\* Where the servers of a call may be: those adrift anywhere in the run; the others
\* in the worker's loop and in the UI test, as its own.  An exception leaves them
\* until the run ends, and no execution begins after one.
Slots ==
  /\ alive \subseteq pool
  /\ phase \in {"turn", "batch", "checks"} => pool \subseteq started \cup adrift
  /\ phase \in {"attempt", "returned", "ui", "contract", "review", "judged"}
       => pool \subseteq adrift
  /\ phase = "idle" => pool = {}
  /\ phase = "over" /\ outcome \in {"PASS", "REPLAN"} => pool \subseteq adrift

LEMMA SlotsStep == TypeOK /\ Slots /\ [Next]_vars => Slots'
<1> SUFFICES ASSUME TypeOK, Slots, [Next]_vars PROVE Slots'
  OBVIOUS
<1> USE DEF Slots, loopVars, localVars, keptVars, fileVars, serverVars, Drift
<1>1. CASE InWorker
  <2> USE DEF InWorker, retryVars, TakingTurns, Finish, AnotherTurn
  <2>1. CASE Cancelled \/ ModelRaises \/ NonJson \/ AsksScope \/ SaysBlocked
    BY <2>1 DEF Cancelled, ModelRaises, NonJson, AsksScope, SaysBlocked
  <2>2. CASE SaysComplete \/ BudgetSpent \/ BatchEnds
    BY <2>2 DEF SaysComplete, BudgetSpent, BatchEnds
  <2>3. CASE Malformed \/ TakeBatch \/ SkipCall \/ RefuseCall
    BY <2>3 DEF Malformed, TakeBatch, SkipCall, RefuseCall, InBatch
  <2>4. ASSUME Call, Succeeded \/ FailedCall PROVE phase = "batch" /\ phase' = "batch"
    BY <2>4 DEF Call, InBatch, Succeeded, FailedCall, CallFinished
  <2>5. CASE SearchTools \/ OtherTool \/ ServeList \/ ServeFails
    BY <2>4, <2>5 DEF SearchTools, OtherTool, ServeList, ServeFails, CanServe
  <2>6. ASSUME NEW f \in Files, NEW b \in BOOLEAN,
               ReadFile(f) \/ WriteFile(f, b) \/ PatchFile(f, b) \/ RunShell(f, b)
        PROVE  Slots'
    BY <2>4, <2>6 DEF ReadFile, WriteFile, PatchFile, RunShell
  <2>7. ASSUME NEW s \in Servers, ServeStart(s) PROVE Slots'
    BY <2>4, <2>7 DEF ServeStart, CanServe
  <2>8. ASSUME NEW s \in Servers, ServeStop(s) PROVE Slots'
    BY <2>4, <2>8 DEF ServeStop, CanServe
  <2>9. ASSUME NEW s \in Servers, InspectUi(s) PROVE Slots'
    BY <2>4, <2>9 DEF InspectUi
  <2>10. ASSUME NEW s \in Servers, ServerDies(s) PROVE Slots'
    BY <1>1, <2>10 DEF ServerDies
  <2> QED
    BY <1>1, <2>1, <2>2, <2>3, <2>5, <2>6, <2>7, <2>8, <2>9, <2>10 DEF WorkerStep
<1>2. CASE ExecutionStep
  <2> USE DEF retryVars, Over, NextAttempt, Judged
  <2>1. CASE StartAttempt
    BY <2>1 DEF StartAttempt, StartCall
  <2>2. CASE CancelledBetween \/ Exhausted \/ NotComplete \/ Raised \/ RunEnds
    BY <2>2 DEF CancelledBetween, Exhausted, NotComplete, Raised, RunEnds
  <2>3. CASE VerifyFix \/ Uncompilable \/ AuditFails
    BY <2>3 DEF VerifyFix, Uncompilable, AuditFails, WorkComplete, Passes, Fails, Replans
  <2>4. CASE UiServerFails \/ UiServerRaises \/ UiChecked \/ UiChecksRaise
    BY <2>4 DEF UiServerFails, UiServerRaises, UiChecked, UiChecksRaise, RaisesFrom,
                StopUiServer, Passes, Fails
  <2>5. CASE PolicyDenied \/ NothingCollected \/ RedPhase \/ AllSkipped \/ ExitsZero
    BY <2>5 DEF PolicyDenied, NothingCollected, RedPhase, AllSkipped, ExitsZero,
                Passes, Fails, Replans
  <2>6. CASE ExitsNonzero \/ Unparsable \/ JudgeRaises
    BY <2>6 DEF ExitsNonzero, Unparsable, JudgeRaises, RaisesFrom, Fails
  <2>7. CASE Pass \/ Replan \/ ReplanRejected \/ FailAgain \/ FailRetry
    BY <2>7 DEF Pass, Replan, ReplanRejected, FailAgain, FailRetry
  <2>8. ASSUME NEW c \in {"ui_smoke", "structural", "command"}, StartChecks(c) PROVE Slots'
    BY <2>8 DEF StartChecks, WorkComplete
  <2>9. ASSUME NEW s \in Servers, UiServerStarts(s) PROVE Slots'
    BY <2>9 DEF UiServerStarts
  <2>10. ASSUME NEW said \in {"PASS", "FAIL", "REPLAN"}, NEW guided \in BOOLEAN,
                NEW infra \in BOOLEAN, ModelJudges(said, guided, infra)
         PROVE  Slots'
    BY <2>10 DEF ModelJudges
  <2> QED
    BY <1>2, <2>1, <2>2, <2>3, <2>4, <2>5, <2>6, <2>7, <2>8, <2>9, <2>10 DEF ExecutionStep
<1>3. CASE Begin
  BY <1>3 DEF Begin, BeginExecution
<1>4. CASE UNCHANGED vars
  BY <1>4 DEF vars, workerVars, retryVars
<1> QED BY <1>1, <1>2, <1>3, <1>4 DEF Next, Idle

\* Every running server is in the table, and when the validator or another attempt
\* begins only those are left whose start raised (process_manager.py:192-196): the
\* finish of the call has stopped all the others (worker.py:235-242), and the end
\* of the run stops all.
THEOREM ServersAreStopped == Spec => []NoServerOutlivesItsCall
<1>1. Init => Slots
  BY DEF Init, Slots
<1>2. Slots => NoServerOutlivesItsCall
  BY DEF Slots, NoServerOutlivesItsCall
<1> QED BY <1>1, <1>2, TypeCorrect, SlotsStep, PTL DEF Spec

-----------------------------------------------------------------------------
(* The files of the milestone                                              *)

\* From the answer "complete" on nothing is deleted until the verdict.
FilesKept ==
  /\ phase = "returned" /\ result.status = "complete" => Delivered
  /\ phase \in {"ui", "checks", "contract", "review", "judged"} => Delivered
  /\ outcome = "PASS" => Delivered /\ phase \in {"over", "idle"}

\* The policy of a milestone that is no test milestone protects the tests that
\* existed when it began.
Guarded ==
  phase # "idle" => (pol.tests => IsTest) /\ pol.fresh \cap base = {}

LEMMA FilesKeptStep == FilesKept /\ [Next]_vars => FilesKept'
<1> SUFFICES ASSUME FilesKept, [Next]_vars PROVE FilesKept'
  OBVIOUS
<1> USE DEF FilesKept, Delivered, loopVars, localVars, keptVars, fileVars
<1>1. CASE InWorker
  <2> USE DEF InWorker, WorkerStep, retryVars, TakingTurns, Finish, AnotherTurn
  <2>1. CASE Cancelled \/ ModelRaises \/ NonJson \/ AsksScope \/ SaysBlocked
    BY <1>1, <2>1 DEF Cancelled, ModelRaises, NonJson, AsksScope, SaysBlocked
  <2>2. CASE SaysComplete \/ BudgetSpent
    BY <1>1, <2>2 DEF SaysComplete, BudgetSpent
  <2>3. ASSUME phase \in {"turn", "batch"}, phase' \in {"turn", "batch"} PROVE FilesKept'
    BY <1>1, <2>3
  <2>4. CASE BatchEnds
    BY <1>1, <2>4 DEF BatchEnds
  <2>5. CASE Malformed \/ TakeBatch \/ SkipCall \/ RefuseCall
    BY <2>3, <2>5 DEF Malformed, TakeBatch, SkipCall, RefuseCall, InBatch
  <2>6. ASSUME Call, Succeeded \/ FailedCall PROVE FilesKept'
    BY <2>3, <2>6 DEF Call, InBatch, Succeeded, FailedCall, CallFinished
  <2>7. CASE SearchTools \/ OtherTool \/ ServeList \/ ServeFails
    BY <2>6, <2>7 DEF SearchTools, OtherTool, ServeList, ServeFails, CanServe
  <2>8. ASSUME NEW f \in Files, NEW b \in BOOLEAN,
               ReadFile(f) \/ WriteFile(f, b) \/ PatchFile(f, b) \/ RunShell(f, b)
        PROVE  FilesKept'
    BY <2>6, <2>8 DEF ReadFile, WriteFile, PatchFile, RunShell
  <2>9. ASSUME NEW s \in Servers, ServeStart(s) \/ ServeStop(s) \/ InspectUi(s)
        PROVE  FilesKept'
    BY <2>6, <2>9 DEF ServeStart, ServeStop, InspectUi, CanServe
  <2>10. ASSUME NEW s \in Servers, ServerDies(s) PROVE FilesKept'
    BY <1>1, <2>10 DEF ServerDies
  <2> QED
    BY <1>1, <2>1, <2>2, <2>4, <2>5, <2>7, <2>8, <2>9, <2>10
<1>2. CASE ExecutionStep
  <2> USE DEF retryVars, Over, NextAttempt, Judged
  <2>1. CASE StartAttempt
    BY <2>1 DEF StartAttempt, StartCall
  <2>2. CASE CancelledBetween \/ Exhausted \/ NotComplete \/ Raised \/ RunEnds
    BY <2>2 DEF CancelledBetween, Exhausted, NotComplete, Raised, RunEnds
  <2>3. CASE VerifyFix \/ Uncompilable \/ AuditFails
    BY <2>3 DEF VerifyFix, Uncompilable, AuditFails, WorkComplete, Passes, Fails, Replans
  <2>4. CASE UiServerFails \/ UiServerRaises \/ UiChecked \/ UiChecksRaise
    BY <2>4 DEF UiServerFails, UiServerRaises, UiChecked, UiChecksRaise, RaisesFrom,
                Passes, Fails
  <2>5. CASE PolicyDenied \/ NothingCollected \/ RedPhase \/ AllSkipped \/ ExitsZero
    BY <2>5 DEF PolicyDenied, NothingCollected, RedPhase, AllSkipped, ExitsZero,
                Passes, Fails, Replans
  <2>6. CASE ExitsNonzero \/ Unparsable \/ JudgeRaises
    BY <2>6 DEF ExitsNonzero, Unparsable, JudgeRaises, RaisesFrom, Fails
  <2>7. CASE Pass \/ Replan \/ ReplanRejected \/ FailAgain \/ FailRetry
    BY <2>7 DEF Pass, Replan, ReplanRejected, FailAgain, FailRetry
  <2>8. ASSUME NEW c \in {"ui_smoke", "structural", "command"}, StartChecks(c) PROVE FilesKept'
    BY <2>8 DEF StartChecks, WorkComplete
  <2>9. ASSUME NEW s \in Servers, UiServerStarts(s) PROVE FilesKept'
    BY <2>9 DEF UiServerStarts
  <2>10. ASSUME NEW said \in {"PASS", "FAIL", "REPLAN"}, NEW guided \in BOOLEAN,
                NEW infra \in BOOLEAN, ModelJudges(said, guided, infra)
         PROVE  FilesKept'
    BY <2>10 DEF ModelJudges
  <2> QED
    BY <1>2, <2>1, <2>2, <2>3, <2>4, <2>5, <2>6, <2>7, <2>8, <2>9, <2>10 DEF ExecutionStep
<1>3. CASE Begin
  BY <1>3 DEF Begin, BeginExecution
<1>4. CASE UNCHANGED vars
  BY <1>4 DEF vars, workerVars, retryVars
<1> QED BY <1>1, <1>2, <1>3, <1>4 DEF Next, Idle

\* A milestone that passed left its target files on disk: what a script of the
\* worker deletes is seen before "complete" is accepted (worker.py:340-366), and
\* the validator's steps delete nothing.
THEOREM PassLeavesItsFiles == Spec => []PassDelivers
<1>1. Init => FilesKept
  BY DEF Init, FilesKept
<1>2. FilesKept => PassDelivers
  BY DEF FilesKept, PassDelivers, Delivered
<1> QED BY <1>1, <1>2, FilesKeptStep, PTL DEF Spec

\* A step of the worker leaves the policy's protection as it is, and modifies
\* no test under it.
LEMMA WorkerIsGuarded ==
  ASSUME TypeOK, Guarded, InWorker, phase # "idle"
  PROVE  Guarded' /\ (~IsTest => modified' \cap base \subseteq modified \/ phase = "turn")
<1> USE DEF InWorker, retryVars
<1>1. base \subseteq Tests /\ pol \in Policy
  BY DEF TypeOK, RetryTypeOK, WorkspaceTypeOK
<1>2. UNCHANGED targets
  BY DEF WorkerStep
<1>3. ASSUME UNCHANGED pol, modified' \subseteq modified \/ phase = "turn"
      PROVE  Guarded' /\ (~IsTest => modified' \cap base \subseteq modified \/ phase = "turn")
  BY <1>2, <1>3 DEF Guarded, IsTest
<1>4. CASE UNCHANGED fileVars
  BY <1>3, <1>4 DEF fileVars
<1>5. CASE SaysComplete
  BY <1>3, <1>5 DEF SaysComplete, TakingTurns
<1>6. ASSUME NEW f \in Files, ReadFile(f)
      PROVE  Guarded' /\ (~IsTest => modified' \cap base \subseteq modified \/ phase = "turn")
  <2>1. UNCHANGED modified /\ pol'.tests = pol.tests /\ pol'.fresh = pol.fresh
    BY <1>1, <1>6 DEF ReadFile, AfterReadFile, Policy
  <2> QED BY <1>2, <2>1 DEF Guarded, IsTest
<1>7. ASSUME NEW f \in Files, NEW b \in BOOLEAN, WriteFile(f, b)
      PROVE  Guarded' /\ (~IsTest => modified' \cap base \subseteq modified \/ phase = "turn")
  <2>1. CASE MayWriteFile(pol, disk, f, b)
    <3>1. modified' = modified \cup {f} /\ pol'.tests = pol.tests /\ pol'.fresh = pol.fresh
      BY <1>1, <1>7, <2>1 DEF WriteFile, AfterWriteFile, Policy
    <3>2. ~IsTest => f \notin base
      BY <1>1, <2>1 DEF MayWriteFile, Writable, Protected, Guarded
    <3> QED BY <1>2, <3>1, <3>2 DEF Guarded, IsTest
  <2>2. CASE ~MayWriteFile(pol, disk, f, b)
    BY <1>4, <1>7, <2>2 DEF WriteFile
  <2> QED BY <2>1, <2>2
<1>8. ASSUME NEW f \in Files, NEW b \in BOOLEAN, PatchFile(f, b)
      PROVE  Guarded' /\ (~IsTest => modified' \cap base \subseteq modified \/ phase = "turn")
  <2>1. CASE MayPatchFile(pol, disk, f) /\ b
    <3>1. modified' = modified \cup {f} /\ UNCHANGED pol
      BY <1>8, <2>1 DEF PatchFile
    <3>2. ~IsTest => f \notin base
      BY <1>1, <2>1 DEF MayPatchFile, Writable, Protected, Guarded
    <3> QED BY <1>2, <3>1, <3>2 DEF Guarded, IsTest
  <2>2. CASE ~(MayPatchFile(pol, disk, f) /\ b)
    BY <1>3, <1>8, <2>2 DEF PatchFile
  <2> QED BY <2>1, <2>2
<1>9. ASSUME NEW f \in Files, NEW b \in BOOLEAN, RunShell(f, b)
      PROVE  Guarded' /\ (~IsTest => modified' \cap base \subseteq modified \/ phase = "turn")
  BY <1>3, <1>9 DEF RunShell
<1>10. CASE Cancelled \/ ModelRaises \/ NonJson \/ AsksScope \/ SaysBlocked
  BY <1>4, <1>10 DEF Cancelled, ModelRaises, NonJson, AsksScope, SaysBlocked
<1>11. CASE Malformed \/ TakeBatch \/ BudgetSpent \/ SkipCall \/ RefuseCall
  BY <1>4, <1>11 DEF Malformed, TakeBatch, BudgetSpent, SkipCall, RefuseCall
<1>12. CASE SearchTools \/ OtherTool \/ BatchEnds \/ ServeList \/ ServeFails
  BY <1>4, <1>12 DEF SearchTools, OtherTool, BatchEnds, ServeList, ServeFails
<1>13. ASSUME NEW s \in Servers,
              ServeStart(s) \/ ServeStop(s) \/ InspectUi(s) \/ ServerDies(s)
       PROVE  UNCHANGED fileVars
  BY <1>13 DEF ServeStart, ServeStop, InspectUi, ServerDies
<1> QED
  BY <1>4, <1>5, <1>6, <1>7, <1>8, <1>9, <1>10, <1>11, <1>12, <1>13 DEF WorkerStep

\* The other steps leave the policy alone, but for the end of the run.
LEMMA OthersAreGuarded ==
  ASSUME TypeOK, Guarded, Begin \/ ExecutionStep
  PROVE  Guarded' /\ phase # "batch"
<1>1. CASE Begin
  <2>1. PICK packet \in Packets, prof \in {"worker", "hotfix"} : BeginExecution(packet, prof)
    BY <1>1 DEF Begin
  <2>2. /\ targets' = packet /\ base' = disk \cap Tests /\ phase # "batch"
        /\ pol' = BeginPolicy(packet, packet # {} /\ packet \subseteq Tests, FALSE, disk)
    BY <2>1 DEF BeginExecution
  <2>3. pol'.fresh \cap base' = {}
    BY <2>2 DEF BeginPolicy
  <2>4. pol'.tests => IsTest'
    BY <2>2 DEF BeginPolicy, IsTest
  <2> QED BY <2>2, <2>3, <2>4 DEF Guarded
<1>2. CASE RunEnds
  BY <1>2 DEF RunEnds, Guarded
<1>3. ASSUME UNCHANGED <<targets, pol>>, phase \notin {"batch", "idle"},
     base' = base \/ base' = {}
      PROVE  Guarded' /\ phase # "batch"
  BY <1>3 DEF Guarded, IsTest
<1>4. CASE ExecutionStep /\ ~RunEnds
  <2> USE DEF loopVars, fileVars, retryVars, Over, NextAttempt, Judged
  <2>1. CASE StartAttempt
    BY <1>3, <2>1 DEF StartAttempt
  <2>2. CASE CancelledBetween \/ Exhausted \/ NotComplete \/ Raised
    BY <1>3, <2>2 DEF CancelledBetween, Exhausted, NotComplete, Raised
  <2>3. CASE VerifyFix \/ Uncompilable \/ AuditFails
    BY <1>3, <2>3 DEF VerifyFix, Uncompilable, AuditFails, WorkComplete, Passes, Fails,
         Replans
  <2>4. CASE UiServerFails \/ UiServerRaises \/ UiChecked \/ UiChecksRaise
    BY <1>3, <2>4 DEF UiServerFails, UiServerRaises, UiChecked, UiChecksRaise, RaisesFrom,
                      Passes, Fails
  <2>5. CASE PolicyDenied \/ NothingCollected \/ RedPhase \/ AllSkipped \/ ExitsZero
    BY <1>3, <2>5 DEF PolicyDenied, NothingCollected, RedPhase, AllSkipped, ExitsZero,
                Passes, Fails, Replans
  <2>6. CASE ExitsNonzero \/ Unparsable \/ JudgeRaises
    BY <1>3, <2>6 DEF ExitsNonzero, Unparsable, JudgeRaises, RaisesFrom, Fails
  <2>7. CASE Pass \/ Replan \/ ReplanRejected \/ FailAgain \/ FailRetry
    BY <1>3, <2>7 DEF Pass, Replan, ReplanRejected, FailAgain, FailRetry
  <2>8. ASSUME NEW c \in {"ui_smoke", "structural", "command"}, StartChecks(c)
        PROVE  Guarded' /\ phase # "batch"
    BY <1>3, <2>8 DEF StartChecks, WorkComplete
  <2>9. ASSUME NEW s \in Servers, UiServerStarts(s) PROVE Guarded' /\ phase # "batch"
    BY <1>3, <2>9 DEF UiServerStarts
  <2>10. ASSUME NEW said \in {"PASS", "FAIL", "REPLAN"}, NEW guided \in BOOLEAN,
                NEW infra \in BOOLEAN, ModelJudges(said, guided, infra)
         PROVE  Guarded' /\ phase # "batch"
    BY <1>3, <2>10 DEF ModelJudges
  <2> QED
    BY <1>4, <2>1, <2>2, <2>3, <2>4, <2>5, <2>6, <2>7, <2>8, <2>9, <2>10 DEF ExecutionStep
<1> QED BY <1>1, <1>2, <1>4

\* Outside an execution only a server that was left behind has steps.
LEMMA IdleWorkerDoesNothing ==
  ASSUME InWorker, phase = "idle"
  PROVE  UNCHANGED <<phase, targets, fileVars>>
BY DEF InWorker, WorkerStep, Cancelled, ModelRaises, NonJson, AsksScope, SaysBlocked,
       SaysComplete, Malformed, TakeBatch, BudgetSpent, SkipCall, RefuseCall, SearchTools,
       OtherTool, BatchEnds, ServeList, ServeFails, ReadFile, WriteFile, PatchFile, RunShell,
       ServeStart, ServeStop, InspectUi, ServerDies, TakingTurns, InBatch, Call, CanServe,
       loopVars

\* No tool modifies a test that existed before a milestone that is no test
\* milestone began (file_ops.py:99-137): the policy is that of the milestone as
\* long as it is in work.
THEOREM ExistingTestsStay == Spec => ExistingTestsAreSafe
<1>1. Init => Guarded
  BY DEF Init, Guarded
<1>2. TypeOK /\ Guarded /\ [Next]_vars
        => /\ Guarded'
           /\ [phase = "batch" /\ ~IsTest => modified' \cap base \subseteq modified]_vars
  <2> SUFFICES ASSUME TypeOK, Guarded, [Next]_vars
               PROVE  /\ Guarded'
                      /\ phase = "batch" /\ ~IsTest => modified' \cap base \subseteq modified
    OBVIOUS
  <2>1. CASE InWorker
    <3>1. CASE phase = "idle"
      BY <2>1, <3>1, IdleWorkerDoesNothing DEF Guarded
    <3>2. CASE phase # "idle"
      BY <2>1, <3>2, WorkerIsGuarded
    <3> QED BY <3>1, <3>2
  <2>2. CASE Begin \/ ExecutionStep
    BY <2>2, OthersAreGuarded
  <2>3. CASE UNCHANGED vars
    BY <2>3 DEF vars, workerVars, retryVars, loopVars, fileVars, Guarded, IsTest
  <2> QED BY <2>1, <2>2, <2>3 DEF Next, Idle
<1> QED BY <1>1, <1>2, TypeCorrect, PTL DEF Spec, ExistingTestsAreSafe

-----------------------------------------------------------------------------
(* The promise made to the mission                                         *)

\* An execution is under way exactly while it has no outcome, and its first
\* attempt knows no earlier failure.
Trying ==
  /\ (outcome = "none") = (phase \notin {"idle", "over"})
  /\ phase \in {"idle", "over"} \/ attempt = 0 => prevSig = NoSig

\* What a step does to the number of attempts and the outcome is a step of the
\* promise, or nothing.
Promised == Promise!Next \/ UNCHANGED <<attempt, outcome>>

\* The steps in which neither changes.
LEMMA QuietSteps ==
  ASSUME Trying, UNCHANGED <<attempt, outcome, prevSig>>,
         phase \notin {"idle", "over"}, phase' \notin {"idle", "over"}
  PROVE  Trying' /\ Promised
BY DEF Trying, Promised

LEMMA WorkerIsPromised == ASSUME Trying, InWorker PROVE Trying' /\ Promised
<1>1. UNCHANGED <<attempt, outcome, prevSig>>
  BY DEF InWorker, retryVars
<1>2. \/ UNCHANGED phase
      \/ phase \in {"turn", "batch"} /\ phase' \in {"turn", "batch", "returned", "raised"}
  <2> USE DEF loopVars, TakingTurns, Finish, AnotherTurn, InBatch
  <2>1. CASE Cancelled \/ ModelRaises \/ NonJson \/ AsksScope \/ SaysBlocked
    BY <2>1 DEF Cancelled, ModelRaises, NonJson, AsksScope, SaysBlocked
  <2>2. CASE SaysComplete \/ Malformed \/ TakeBatch \/ BudgetSpent
    BY <2>2 DEF SaysComplete, Malformed, TakeBatch, BudgetSpent
  <2>3. CASE SkipCall \/ RefuseCall \/ BatchEnds
    BY <2>3 DEF SkipCall, RefuseCall, BatchEnds
  <2>4. ASSUME Call, Succeeded \/ FailedCall PROVE phase = "batch" /\ phase' = "batch"
    BY <2>4 DEF Call, Succeeded, FailedCall, CallFinished
  <2>5. CASE SearchTools \/ OtherTool \/ ServeList \/ ServeFails
    BY <2>4, <2>5 DEF SearchTools, OtherTool, ServeList, ServeFails, CanServe
  <2>6. ASSUME NEW f \in Files, NEW b \in BOOLEAN,
               ReadFile(f) \/ WriteFile(f, b) \/ PatchFile(f, b) \/ RunShell(f, b)
        PROVE  phase = "batch" /\ phase' = "batch"
    BY <2>4, <2>6 DEF ReadFile, WriteFile, PatchFile, RunShell
  <2>7. ASSUME NEW s \in Servers, ServeStart(s) \/ ServeStop(s) \/ InspectUi(s)
        PROVE  phase = "batch" /\ phase' = "batch"
    BY <2>4, <2>7 DEF ServeStart, ServeStop, InspectUi, CanServe
  <2>8. ASSUME NEW s \in Servers, ServerDies(s)
        PROVE  UNCHANGED phase
    BY <2>8 DEF ServerDies
  <2> QED BY <2>1, <2>2, <2>3, <2>5, <2>6, <2>7, <2>8 DEF InWorker, WorkerStep
<1>3. CASE UNCHANGED phase
  BY <1>1, <1>3 DEF Trying, Promised
<1> QED BY <1>1, <1>2, <1>3, QuietSteps

LEMMA ExecutionIsPromised == ASSUME IInv, Trying, ExecutionStep PROVE Trying' /\ Promised
<1>1. attempt \in Nat /\ MaxRetries \in Nat /\ MaxRetries >= 2
  BY ExecutionAssumption DEF IInv, TypeOK, RetryTypeOK
<1>2. phase \notin {"idle", "attempt", "over"} => attempt < MaxRetries
  BY DEF IInv, Limits
<1>3. ASSUME NEW out \in Outcomes, Over(out), phase \notin {"idle", "over"},
             IF out = "FAIL" THEN attempt >= 1 ELSE attempt < MaxRetries
      PROVE  Trying' /\ Promised
  <2>1. outcome = "none" /\ outcome' = out /\ attempt' = attempt
    BY <1>3 DEF Over, Trying
  <2>2. Promise!Ends
    BY <1>3, <2>1 DEF Promise!Ends, Promise!Running
  <2>3. Trying'
    BY <1>3, <2>1 DEF Over, Trying, Outcomes
  <2> QED BY <2>2, <2>3 DEF Promised, Promise!Next
<1>4. ASSUME NextAttempt, phase = "judged" PROVE Trying' /\ Promised
  <2>1. outcome = "none" /\ outcome' = outcome /\ attempt' = attempt + 1 /\ phase' = "attempt"
    BY <1>4 DEF NextAttempt, Trying
  <2>2. Promise!TriesAgain
    BY <1>2, <1>4, <2>1 DEF Promise!TriesAgain, Promise!Running
  <2>3. Trying'
    BY <1>1, <2>1 DEF Trying
  <2> QED BY <2>2, <2>3 DEF Promised, Promise!Next
<1> USE DEF loopVars, retryVars
<1>5. ASSUME NEW kind, NEW guided, NEW sig, Judged(kind, guided, sig),
             phase \notin {"idle", "over"}
      PROVE  Trying' /\ Promised
  BY <1>5, QuietSteps DEF Judged
<1>6. CASE StartAttempt
  BY <1>6, QuietSteps DEF StartAttempt, StartCall
<1>7. CASE CancelledBetween
  BY <1>3, <1>7 DEF CancelledBetween, Outcomes
<1>8. CASE Exhausted
  BY <1>1, <1>3, <1>8 DEF Exhausted, Outcomes
<1>9. CASE NotComplete
  <2>1. PICK out \in {"CANCELLED", "REPLAN", "BLOCKED"} : Over(out)
    BY <1>9 DEF NotComplete
  <2> QED BY <1>2, <1>3, <1>9, <2>1 DEF NotComplete, Outcomes
<1>10. CASE Raised
  BY <1>2, <1>3, <1>10 DEF Raised, Outcomes
<1>11. CASE RunEnds
  BY <1>11 DEF RunEnds, Trying, Promised
<1>12. CASE VerifyFix \/ Uncompilable \/ AuditFails
  BY <1>5, <1>12 DEF VerifyFix, Uncompilable, AuditFails, WorkComplete, Passes, Fails, Replans
<1>13. CASE UiServerFails \/ UiChecked
  BY <1>5, <1>13 DEF UiServerFails, UiChecked, Passes, Fails
<1>14. CASE PolicyDenied \/ NothingCollected \/ RedPhase \/ AllSkipped \/ ExitsZero
  BY <1>5, <1>14 DEF PolicyDenied, NothingCollected, RedPhase, AllSkipped, ExitsZero,
                     Passes, Fails, Replans
<1>15. CASE Unparsable
  BY <1>5, <1>15 DEF Unparsable, Fails
<1>16. CASE ExitsNonzero \/ JudgeRaises \/ UiServerRaises \/ UiChecksRaise
  BY <1>16, QuietSteps DEF ExitsNonzero, JudgeRaises, UiServerRaises, UiChecksRaise, RaisesFrom
<1>17. CASE Pass
  BY <1>2, <1>3, <1>17 DEF Pass, Outcomes
<1>18. CASE Replan
  BY <1>2, <1>3, <1>18 DEF Replan, Outcomes
<1>19. CASE FailAgain
  <2>1. prevSig # NoSig
    BY <1>19 DEF FailAgain, Stuck
  <2>2. attempt >= 1
    BY <1>1, <2>1 DEF Trying
  <2> QED BY <1>3, <1>19, <2>2 DEF FailAgain, Outcomes
<1>20. CASE ReplanRejected \/ FailRetry
  BY <1>4, <1>20 DEF ReplanRejected, FailRetry
<1>21. ASSUME NEW c \in {"ui_smoke", "structural", "command"}, StartChecks(c)
       PROVE  Trying' /\ Promised
  BY <1>21, QuietSteps DEF StartChecks, WorkComplete
<1>22. ASSUME NEW s \in Servers, UiServerStarts(s) PROVE Trying' /\ Promised
  BY <1>22, QuietSteps DEF UiServerStarts
<1>23. ASSUME NEW said \in {"PASS", "FAIL", "REPLAN"}, NEW guided \in BOOLEAN,
              NEW infra \in BOOLEAN, ModelJudges(said, guided, infra)
       PROVE  Trying' /\ Promised
  BY <1>5, <1>23 DEF ModelJudges
<1> QED
  BY <1>6, <1>7, <1>8, <1>9, <1>10, <1>11, <1>12, <1>13, <1>14, <1>15, <1>16, <1>17, <1>18,
     <1>19, <1>20, <1>21, <1>22, <1>23 DEF ExecutionStep

\* The retry loop implements the promise of MilestonePromise: at most MaxRetries
\* attempts, one outcome, and never FAIL in the first attempt (main.py's
\* _execute_milestone).
THEOREM RetriesImplementThePromise == Spec => PromiseKept
<1>1. Init => Trying /\ Promise!Init
  BY DEF Init, Trying, Promise!Init, Outcomes
<1>2. IInv /\ Trying /\ [Next]_vars => Trying' /\ [Promise!Next]_(Promise!promiseVars)
  <2> SUFFICES ASSUME IInv, Trying, [Next]_vars PROVE Trying' /\ Promised
    BY DEF Promised, Promise!promiseVars
  <2>1. CASE Begin
    BY <2>1 DEF Begin, BeginExecution, Trying, Promised, Promise!Next, Promise!Begins,
                Promise!Running
  <2>2. CASE UNCHANGED vars
    BY <2>2 DEF vars, workerVars, loopVars, retryVars, Trying, Promised
  <2> QED BY <2>1, <2>2, WorkerIsPromised, ExecutionIsPromised DEF Next, Idle
<1> QED
  BY <1>1, <1>2, IInvAlways, PTL DEF Spec, PromiseKept, Promise!Spec
=============================================================================
