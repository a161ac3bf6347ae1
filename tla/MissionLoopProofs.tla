------------------------- MODULE MissionLoopProofs -------------------------
(***************************************************************************)
(* Proofs about MissionLoop, for any milestones, budgets, requests and     *)
(* numbers of runs and crashes.                                            *)
(*                                                                         *)
(* Shape is inductive whatever clients do; type correctness and what a     *)
(* replan keeps follow from it.  Places adds where the loop stands in its  *)
(* plan, and is inductive if plans are made with unique ids.  IInv adds    *)
(* what the worker thread knows of plan.json and of the validator, and is  *)
(* inductive under QuietSpec, where no decision is answered during a run.  *)
(***************************************************************************)
EXTENDS MissionLoop, PlanPatchProofs, FiniteSetTheorems, FunctionTheorems

-----------------------------------------------------------------------------
(* Plan files.                                                             *)

\* A plan file changes by its approval state or its milestones.
LEMMA Files ==
    ASSUME NEW p \in PlanFile
    PROVE  /\ p.pid \in 0..MaxPlans /\ p.app \in Approval /\ p.ms \in Seq(Milestone)
           /\ \A a \in Approval : /\ [p EXCEPT !.app = a] \in PlanFile
                                  /\ [p EXCEPT !.app = a].pid = p.pid
                                  /\ [p EXCEPT !.app = a].ms = p.ms
           /\ \A ms \in Seq(Milestone) : /\ [p EXCEPT !.ms = ms] \in PlanFile
                                         /\ [p EXCEPT !.ms = ms].pid = p.pid
                                         /\ [p EXCEPT !.ms = ms].ms = ms
  BY DEF PlanFile

\* No plan is one.
LEMMA NoFile == NoPlan \in PlanFile /\ NoPlan.pid = 0 /\ NoPlan.ms = <<>> /\ DoneIds(<<>>) = {}
  BY BoundsAssumption DEF NoPlan, PlanFile, Approval, DoneIds

\* There are finitely many completed milestones before a position: no more than
\* completed entries, and none before the first.
LEMMA CountBefore ==
    ASSUME NEW ms \in Seq(Milestone), NEW i
    PROVE  /\ IsFiniteSet(DoneBefore(ms, i)) /\ Cardinality(DoneBefore(ms, i)) \in Nat
           /\ DoneBefore(ms, i) \subseteq DoneIds(ms)
           /\ DoneBefore(ms, 1) = {}
           /\ Cardinality(DoneBefore(ms, i))
                <= Cardinality({j \in DOMAIN ms : j < i /\ ms[j].done})
<1> DEFINE S == {j \in DOMAIN ms : j < i /\ ms[j].done}
           T == DoneBefore(ms, i)
           f == [j \in S |-> ms[j].id]
<1>1. IsFiniteSet(S)
  <2>1. IsFiniteSet(1..Len(ms)) /\ S \in SUBSET (1..Len(ms))
    BY FS_Interval
  <2> QED
    BY <2>1, FS_Subset
<1>2. f \in Surjection(S, T)
  <2>1. T = {ms[j].id : j \in S}
    BY DEF DoneBefore
  <2> QED
    BY <2>1 DEF Surjection
<1>3. IsFiniteSet(T) /\ Cardinality(T) <= Cardinality(S)
  <2> HIDE DEF S, T, f
  <2> QED
    BY <1>1, <1>2, FS_Surjection
<1>4. Cardinality(T) \in Nat
  BY <1>3, FS_CardinalityType
<1>5. T \subseteq DoneIds(ms) /\ DoneBefore(ms, 1) = {}
  BY DEF DoneBefore, DoneIds
<1> QED
  BY <1>3, <1>4, <1>5

\* Completing the milestone at a position and going past it adds that milestone.
LEMMA MarkedBefore ==
    ASSUME NEW ms \in Seq(Milestone), NEW i \in DOMAIN ms, UniqueIds(ms)
    PROVE  /\ ms[i].id \notin DoneBefore(ms, i)
           /\ DoneBefore([ms EXCEPT ![i].done = TRUE], i + 1) = DoneBefore(ms, i) \cup {ms[i].id}
<1> DEFINE r == [ms EXCEPT ![i].done = TRUE]
<1>1. /\ DOMAIN r = DOMAIN ms /\ r[i].id = ms[i].id /\ r[i].done
      /\ \A j \in DOMAIN ms : j # i => r[j] = ms[j]
  BY Marking
<1> HIDE DEF r
<1>2. ms[i].id \notin DoneBefore(ms, i)
  BY DEF DoneBefore, UniqueIds
<1>3. \A j \in DOMAIN ms : j < i + 1 <=> j < i \/ j = i
  OBVIOUS
<1>4. DoneBefore(r, i + 1) = DoneBefore(ms, i) \cup {ms[i].id}
  BY <1>1, <1>3 DEF DoneBefore
<1> QED
  BY <1>2, <1>4 DEF r

\* What a patch does not move back stays behind the place where the loop goes on.
LEMMA StaysBehind ==
    ASSUME plan.ms \in Seq(Milestone), UniqueIds(plan.ms), idx \in DOMAIN plan.ms,
           NEW ms \in Seq(Milestone), UniqueIds(ms), DoneIds(ms) = DoneIds(plan.ms)
    PROVE  Behind \subseteq DoneBefore(ms, ReAnchor(ms)) \cup MovedBack(ms)
<1> SUFFICES ASSUME NEW y \in Behind, y \notin MovedBack(ms)
             PROVE  y \in DoneBefore(ms, ReAnchor(ms))
  OBVIOUS
<1>1. PICK k \in DOMAIN plan.ms : k < idx /\ plan.ms[k].id = y
  BY DEF Behind, DoneBefore
<1>2. y # Here
  BY <1>1 DEF UniqueIds, Here
<1>3. y \in DoneIds(ms)
  BY CountBefore DEF Behind
<1>4. PICK j \in DOMAIN ms : ms[j].done /\ ms[j].id = y
  BY <1>3 DEF DoneIds
<1>5. j = FirstAt(ms, y)
  <2>1. y \in IdsOf(ms)
    BY <1>4 DEF IdsOf
  <2>2. FirstAt(ms, y) \in DOMAIN ms /\ ms[FirstAt(ms, y)].id = y
    BY <2>1, Positions
  <2> QED
    BY <1>4, <2>2 DEF UniqueIds
<1>6. j < ReAnchor(ms)
  <2>1. CASE Here \in IdsOf(ms)
    <3>1. FirstAt(ms, Here) \in DOMAIN ms /\ ms[FirstAt(ms, Here)].id = Here
      BY <2>1, Positions
    <3>2. FirstAt(ms, Here) # j
      BY <1>2, <1>4, <3>1
    <3>3. ~(FirstAt(ms, Here) < j)
      BY <1>5, <2>1 DEF MovedBack
    <3>4. ReAnchor(ms) = FirstAt(ms, Here)
      BY <2>1 DEF ReAnchor, Here
    <3> QED
      BY <3>1, <3>2, <3>3, <3>4
  <2>2. CASE Here \notin IdsOf(ms)
    <3>1. ~(idx <= j)
      BY <1>5, <2>2 DEF MovedBack
    <3>2. ReAnchor(ms) = idx
      BY <2>2 DEF ReAnchor, Here
    <3> QED
      BY <3>1, <3>2
  <2> QED
    BY <2>1, <2>2
<1> QED
  BY <1>4, <1>6 DEF DoneBefore

\* The milestone the loop is at, and the plan with it completed.
LEMMA MarkingHere ==
    ASSUME plan \in PlanFile, idx \in DOMAIN plan.ms
    PROVE  /\ Here \in Ids /\ Here \in IdsOf(plan.ms)
           /\ MarkHere \in PlanFile /\ MarkHere.pid = plan.pid
           /\ IdsOf(MarkHere.ms) = IdsOf(plan.ms)
           /\ DoneIds(MarkHere.ms) = DoneIds(plan.ms) \cup {Here}
           /\ UniqueIds(plan.ms) =>
                 /\ UniqueIds(MarkHere.ms) /\ Here \notin Behind
                 /\ DoneBefore(MarkHere.ms, idx + 1) = Behind \cup {Here}
<1> DEFINE r == [plan.ms EXCEPT ![idx].done = TRUE]
<1>1. plan.ms \in Seq(Milestone)
  BY Files
<1>2. plan.ms[idx] \in Milestone
  BY <1>1
<1>3. Here \in Ids /\ Here \in IdsOf(plan.ms)
  BY <1>2 DEF Here, IdsOf, Milestone
<1>4. /\ r \in Seq(Milestone) /\ IdsOf(r) = IdsOf(plan.ms)
      /\ DoneIds(r) = DoneIds(plan.ms) \cup {Here}
      /\ UniqueIds(plan.ms) => UniqueIds(r)
  BY <1>1, Marking DEF Here
<1>5. MarkHere = [plan EXCEPT !.ms = r]
  BY DEF MarkHere, PlanFile
<1>6. UniqueIds(plan.ms) => Here \notin Behind /\ DoneBefore(r, idx + 1) = Behind \cup {Here}
  BY <1>1, MarkedBefore DEF Behind, Here
<1> HIDE DEF r
<1> QED
  BY <1>3, <1>4, <1>5, <1>6, Files

-----------------------------------------------------------------------------
(* Shape holds whatever clients do.                                        *)

\* An idle session has the shape.
LEMMA ShapeInit == Init => Shape
<1> SUFFICES ASSUME Init PROVE Shape
  OBVIOUS
<1>1. TypeOK
  BY NoFile, BoundsAssumption, BudgetAssumption, NoSigAssumption
  DEF Init, TypeOK, NoRequest, Zero, Empty, Keys, Pids, WorkerPC
<1> QED
  BY <1>1, NoFile DEF Init, Shape, Planned, Executing, AtMilestone, Patching

\* Every step of the worker, of a handler and of the process preserves Shape.
LEMMA ShapeStep == Shape /\ [Next]_vars => Shape'
<1> SUFFICES ASSUME Shape, [Next]_vars PROVE Shape'
  OBVIOUS
<1> USE BoundsAssumption, BudgetAssumption, NoSigAssumption, RequestsAssumption, NoFile
<1> USE DEF stored, counters, loop, cycle, handler,
            WorkerPC, Planned, Executing, AtMilestone, Patching,
            ResetLoop, ResetCycle, NoRequest, Zero, Empty
<1>0. /\ {disk, plan, held, hheld} \subseteq PlanFile /\ result \in Approval
      /\ \A p \in {disk, plan, held, hheld} : p.pid \in 0..MaxPlans /\ p.ms \in Seq(Milestone)
  BY Files DEF Shape, TypeOK, Approval
<1>1. ASSUME NEW r \in Requests, Ask(r) PROVE Shape'
  BY <1>1 DEF Shape, TypeOK, Ask, Begin
<1>2. CASE BeginApproved
  BY <1>2 DEF Shape, TypeOK, BeginApproved, Begin
<1>3. CASE ResolveKind
  BY <1>3 DEF Shape, TypeOK, ResolveKind
<1>4. CASE Load
  BY <1>4 DEF Shape, TypeOK, Load
<1>5. CASE PlanApproved
  <2>1. /\ [plan EXCEPT !.app = "approved"] \in PlanFile
        /\ [plan EXCEPT !.app = "approved"].pid = plan.pid
        /\ [plan EXCEPT !.app = "approved"].ms = plan.ms
    BY <1>0, Files DEF Approval
  <2>2. disk' \in PlanFile /\ disk'.pid <= pids /\ (disk'.pid = 0 => disk'.ms = <<>>)
    BY <1>5, <1>0, <2>1 DEF Shape, PlanApproved
  <2>3. req' \in [mode : {"ask", "plan", "build"}, kind : {"auto", "new", "resume", "repair"},
                   phrase : BOOLEAN, skip : BOOLEAN]
    BY <1>5 DEF Shape, TypeOK, PlanApproved
  <2> QED
    BY <1>5, <2>2, <2>3 DEF Shape, TypeOK, PlanApproved
<1>6. CASE Reload
  BY <1>6 DEF Shape, TypeOK, Reload
<1>7. CASE PlanAdjust
  <2>1. plan.pid # 0
    BY <1>7, <1>0, Files DEF Shape, PlanAdjust, Awaiting, Pending
  <2> QED
    BY <1>7, <2>1 DEF Shape, TypeOK, PlanAdjust
<1>8. CASE PlanDraft
  BY <1>8 DEF Shape, TypeOK, PlanDraft
<1>9. CASE Build
  BY <1>9 DEF Shape, TypeOK, Build
<1>10. CASE SkipOrchestration
  <2>1. /\ [plan EXCEPT !.app = "executing"] \in PlanFile
        /\ [plan EXCEPT !.app = "executing"].pid = plan.pid
        /\ [plan EXCEPT !.app = "executing"].ms = plan.ms
    BY <1>0, Files DEF Approval
  <2>2. disk' \in PlanFile /\ disk'.pid <= pids /\ (disk'.pid = 0 => disk'.ms = <<>>)
        /\ plan' \in PlanFile /\ plan'.pid <= pids /\ (plan'.pid = 0 => plan'.ms = <<>>)
    BY <1>10, <1>0, <2>1 DEF Shape, SkipOrchestration
  <2> QED
    BY <1>10, <2>2 DEF Shape, TypeOK, SkipOrchestration
<1>11. CASE Reply
  BY <1>11 DEF Shape, TypeOK, Reply, ResetWorker
<1>12. CASE FocusedSave
  <2>1. /\ [held EXCEPT !.app = result] \in PlanFile
        /\ [held EXCEPT !.app = result].pid = held.pid
        /\ [held EXCEPT !.app = result].ms = held.ms
    BY <1>0, Files
  <2>2. disk' \in PlanFile /\ disk'.pid <= pids /\ (disk'.pid = 0 => disk'.ms = <<>>)
    BY <1>12, <1>0, <2>1 DEF Shape, FocusedSave
  <2> QED
    BY <1>12, <2>2 DEF Shape, TypeOK, FocusedSave, ResetWorker
<1>13. CASE FocusedPause
  BY <1>13 DEF Shape, TypeOK, FocusedPause, ResetWorker
<1>14. ASSUME NEW status \in {"completed", "partial", "failed"}, FocusedLoad(status)
       PROVE  Shape'
  BY <1>14 DEF Shape, TypeOK, FocusedLoad
<1>15. CASE Resume
  BY <1>15 DEF Shape, TypeOK, Resume, Resumable, Pending
<1>16. CASE ResumeSave
  BY <1>16 DEF Shape, TypeOK, ResumeSave
<1>17. CASE PlanningFails
  BY <1>17 DEF Shape, TypeOK, PlanningFails, ResetWorker
<1>18. ASSUME NEW ids \in FirstPlans, Plan(ids) PROVE Shape'
  <2> DEFINE ms == [i \in DOMAIN ids |-> Todo(ids[i])]
  <2>1. ms \in Seq(Milestone)
    <3>1. ids \in [1..Len(ids) -> Ids] /\ Len(ids) \in Nat
      BY FirstPlansAssumption
    <3>2. \A i \in 1..Len(ids) : Todo(ids[i]) \in Milestone
      BY <3>1 DEF Todo, Milestone
    <3>3. ms \in [1..Len(ids) -> Milestone]
      BY <3>1, <3>2
    <3> QED
      BY <3>1, <3>3
  <2>2. NewPid \in 1..MaxPlans /\ NewPid = pids'
    BY <1>18 DEF Shape, TypeOK, Plan, NewPid
  <2>3. plan' = [pid |-> NewPid, app |-> "none", ms |-> ms]
    BY <1>18 DEF Plan
  <2> HIDE DEF ms
  <2>4. plan' \in PlanFile /\ plan'.pid = NewPid
    BY <2>1, <2>2, <2>3 DEF PlanFile, Approval
  <2> QED
    BY <1>18, <1>0, <2>2, <2>4 DEF Shape, TypeOK, Plan
<1>19. CASE Lint
  BY <1>19 DEF Shape, TypeOK, Lint
<1>20. CASE Accept
  <2>1. PICK a \in Approval : plan' = [plan EXCEPT !.app = a] /\ disk' = plan'
    BY <1>20 DEF Accept, Approval
  <2>2. plan' \in PlanFile /\ plan'.pid = plan.pid /\ plan'.ms = plan.ms
    BY <1>0, <2>1, Files
  <2> QED
    BY <1>20, <2>1, <2>2 DEF Shape, TypeOK, Accept
<1>21. CASE Pause
  <2>1. plan.pid \in 0..MaxPlans
    BY <1>0
  <2> QED
    BY <1>21, <2>1 DEF Shape, TypeOK, Pause, ResetWorker
<1>22. CASE PatchOp
  <2>1. held.ms \in Seq(Milestone) /\ held.pid = plan.pid /\ plan.pid # 0
    BY <1>22, <1>0, Files DEF Shape, PatchOp, Patching, Planned, Executing
  <2>2. PICK ms \in Seq(Milestone) :
            DoneIds(ms) = DoneIds(held.ms) /\ held' = [held EXCEPT !.ms = ms]
    <3>1. ASSUME NEW after \in Ids, NEW new \in Ids, CanInsert(held.ms, after, new),
                 held' = [held EXCEPT !.ms = InsertMilestone(@, after, new)]
          PROVE  \E ms \in Seq(Milestone) :
                     DoneIds(ms) = DoneIds(held.ms) /\ held' = [held EXCEPT !.ms = ms]
      BY <2>1, <3>1, Inserting
    <3>2. ASSUME NEW x \in Ids, Editable(held.ms, x),
                 held' = [held EXCEPT !.ms = RemoveMilestone(@, x)]
          PROVE  \E ms \in Seq(Milestone) :
                     DoneIds(ms) = DoneIds(held.ms) /\ held' = [held EXCEPT !.ms = ms]
      BY <2>1, <3>2, Removing
    <3> QED
      BY <1>22, <3>1, <3>2 DEF PatchOp
  <2>3. held' \in PlanFile /\ held'.pid = held.pid /\ held'.ms = ms
    BY <1>0, <2>2, Files
  <2>4. UNCHANGED <<disk, stored, result, counters, pc, req, kind, plan, loop, cycle, handler,
                    earned>>
    BY <1>22 DEF PatchOp
  <2> QED
    BY SMTT(30), <2>1, <2>2, <2>3, <2>4 DEF Shape, TypeOK
<1>23. CASE PatchDone
  <2>1. plan' \in PlanFile /\ plan'.pid = held.pid /\ held.pid = plan.pid
    BY <1>23, <1>0, Files DEF Shape, PatchDone, Approval
  <2>2. idx' \in Nat \ {0}
    <3>1. CASE pc = "replan" /\ plan.ms[idx].id \in IdsOf(held.ms)
      <4>1. FirstAt(held.ms, plan.ms[idx].id) \in DOMAIN held.ms
        BY <1>0, <3>1, Positions
      <4> QED
        BY <1>23, <1>0, <3>1, <4>1 DEF PatchDone, ReAnchor
    <3> QED
      BY <1>23, <3>1 DEF Shape, TypeOK, PatchDone, ReAnchor
  <2>3. plan.pid # 0
    BY <1>23 DEF Shape, PatchDone, Patching, Planned, Executing
  <2>4. moved' \subseteq Ids
    <3>1. Behind \subseteq Ids
      BY <1>0, IdsOfMilestones DEF Behind, DoneBefore, DoneIds
    <3> QED
      BY <1>23, <3>1 DEF Shape, TypeOK, PatchDone, MovedBack
  <2> QED
    BY <1>23, <2>1, <2>2, <2>3, <2>4 DEF Shape, TypeOK, PatchDone
<1>24. CASE PatchRejected
  BY <1>24 DEF Shape, TypeOK, PatchRejected
<1>25. CASE AdjustmentFails
  BY <1>25 DEF Shape, TypeOK, AdjustmentFails, ResetWorker
<1>26. CASE SkipCompleted
  <2>1. idx \in DOMAIN plan.ms
    <3>1. plan.ms \in Seq(Milestone) /\ idx \in Nat \ {0} /\ idx <= Len(plan.ms)
      BY <1>26, <1>0 DEF Shape, TypeOK, SkipCompleted, More
    <3> QED
      BY <3>1
  <2>2. plan' \in PlanFile /\ plan'.pid = plan.pid /\ plan.pid # 0
    BY <1>26, <1>0, <2>1, MarkingHere DEF Shape, SkipCompleted, Planned, Executing
  <2> QED
    BY <1>26, <2>2 DEF Shape, TypeOK, SkipCompleted
<1>27. CASE StartMilestone
  BY <1>27 DEF Shape, TypeOK, StartMilestone, ResetCycle, More
<1>28. CASE LoopEnds
  BY <1>28 DEF Shape, TypeOK, LoopEnds
<1>29. CASE Cancelled
  BY <1>29 DEF Shape, TypeOK, Cancelled, ResetWorker
<1>30. CASE Raise
  BY <1>30 DEF Shape, TypeOK, Raise, ResetWorker
<1>31. CASE Passes
  <2>1. Key \in Keys /\ plan.pid \in Pids
    <3>1. idx \in DOMAIN plan.ms /\ plan.pid # 0
      BY <1>31 DEF Shape, Passes
    <3>2. Here \in Ids
      BY <1>0, <3>1, MarkingHere
    <3> QED
      BY <1>0, <3>1, <3>2 DEF Key, Keys, Pids
  <2> QED
    BY <1>31, <2>1 DEF Shape, TypeOK, Passes
<1>32. CASE Blocked
  BY <1>32 DEF Shape, TypeOK, Blocked, Halt
<1>33. CASE GuidanceMissing
  BY <1>33 DEF Shape, TypeOK, GuidanceMissing, Retry
<1>34. ASSUME NEW sig \in Sigs \cup {NoSig}, Fails(sig) PROVE Shape'
  BY <1>34 DEF Shape, TypeOK, Fails, Retry, Halt
<1>35. ASSUME NEW sig \in Sigs \cup {NoSig}, AsksReplan(sig) PROVE Shape'
  <2>1. Here \in Ids /\ idx \in DOMAIN plan.ms /\ plan.pid # 0
    BY <1>35, <1>0, MarkingHere DEF Shape, AsksReplan
  <2>2. replans' \in [Ids -> 0..MaxReplans]
    <3>1. replans \in [Ids -> 0..MaxReplans] /\ MaxReplans \in Nat
      BY DEF Shape, TypeOK
    <3>2. CASE Futile(sig)
      BY <1>35, <3>1, <3>2 DEF AsksReplan
    <3>3. CASE ~Futile(sig)
      <4>1. /\ replans' = [replans EXCEPT ![Here] = @ + 1]
            /\ replans[Here] \in 0..MaxReplans /\ ~(replans[Here] >= MaxReplans)
        BY <1>35, <2>1, <3>1, <3>3 DEF AsksReplan, Futile
      <4> HIDE BoundsAssumption, BudgetAssumption, NoSigAssumption, RequestsAssumption, NoFile
      <4>2. replans[Here] + 1 \in 0..MaxReplans
        BY <3>1, <4>1
      <4> QED
        BY <2>1, <3>1, <4>1, <4>2
    <3> QED
      BY <3>2, <3>3
  <2>3. seen' \in [Ids -> SUBSET Sigs]
    <3>1. {sig} \ {NoSig} \subseteq Sigs
      OBVIOUS
    <3>2. CASE Futile(sig)
      BY <1>35, <3>2 DEF Shape, TypeOK, AsksReplan
    <3>3. CASE ~Futile(sig)
      <4>1. /\ seen' = [seen EXCEPT ![Here] = @ \cup ({sig} \ {NoSig})]
            /\ seen \in [Ids -> SUBSET Sigs]
        BY <1>35, <3>3 DEF Shape, TypeOK, AsksReplan
      <4> QED
        BY <2>1, <3>1, <4>1
    <3> QED
      BY <3>2, <3>3
  <2> QED
    BY <1>35, <2>1, <2>2, <2>3 DEF Shape, TypeOK, AsksReplan
<1>36. CASE Mark
  <2>1. held' \in PlanFile /\ (held'.pid = 0 => held'.ms = <<>>) /\ held'.pid <= pids
    <3>1. CASE Here \in IdsOf(disk.ms)
      <4>1. disk.ms \in Seq(Milestone) /\ FirstAt(disk.ms, Here) \in DOMAIN disk.ms
        BY <1>0, <3>1, Files, Positions
      <4>2. MarkFirst(disk.ms, Here) \in Seq(Milestone)
        BY <4>1, Marking DEF MarkFirst
      <4>3. disk.pid # 0
        BY <3>1 DEF Shape, IdsOf
      <4> QED
        <5>1. /\ held' = [disk EXCEPT !.ms = MarkFirst(disk.ms, Here)]
              /\ pids' = pids /\ disk.pid <= pids
          BY <1>36, <3>1 DEF Shape, Mark
        <5> QED
          BY <1>0, <4>2, <4>3, <5>1, Files
    <3> QED
      BY <1>36, <1>0, <3>1 DEF Shape, Mark
  <2> QED
    BY <1>36, <2>1 DEF Shape, TypeOK, Mark
<1>37. CASE MarkSave
  BY <1>37 DEF Shape, TypeOK, MarkSave
<1>38. CASE Log
  <2>1. Key \in Keys
    BY <1>38, <1>0, Files, MarkingHere DEF Shape, Log, Key, Keys, Pids
  <2>2. plan' \in PlanFile /\ plan'.pid = plan.pid
    BY <1>38, <1>0, MarkingHere DEF Shape, Log, AtMilestone
  <2> QED
    BY <1>38, <2>1, <2>2 DEF Shape, TypeOK, Log
<1>39. CASE Audit
  BY <1>39 DEF Shape, TypeOK, Audit, AllPassed
<1>40. CASE Brief
  <2>1. /\ [plan EXCEPT !.app = result] \in PlanFile
        /\ [plan EXCEPT !.app = result].pid = plan.pid
        /\ [plan EXCEPT !.app = result].ms = plan.ms
    BY <1>0, Files
  <2>2. disk' \in PlanFile /\ disk'.pid <= pids /\ (disk'.pid = 0 => disk'.ms = <<>>)
    BY <1>40, <1>0, <2>1 DEF Shape, Brief
  <2> QED
    BY <1>40, <2>2 DEF Shape, TypeOK, Brief, ResetWorker
<1>41. ASSUME NEW answer \in Answers, Resolve(answer) PROVE Shape'
  BY <1>41, AnswersAssumption DEF Shape, TypeOK, Resolve
<1>42. CASE ReadPlan
  BY <1>42 DEF Shape, TypeOK, ReadPlan
<1>43. CASE WritePlan
  <2>1. PICK a \in Approval : disk' = [hheld EXCEPT !.app = a]
    BY <1>43 DEF WritePlan, Approval
  <2>2. disk' \in PlanFile /\ disk'.pid = hheld.pid /\ disk'.ms = hheld.ms
    BY <1>0, <2>1, Files
  <2> QED
    BY <1>43, <2>2 DEF Shape, TypeOK, WritePlan
<1>44. CASE Enqueue
  <2>1. approvals' \in Nat
    BY <1>44 DEF Shape, TypeOK, Enqueue
  <2> QED
    BY <1>44, <2>1 DEF Shape, TypeOK, Enqueue, ResetHandler
<1>45. CASE Crash
  BY <1>45 DEF Shape, TypeOK, Crash, ResetWorker, ResetHandler
<1>46. CASE UNCHANGED vars
  BY <1>46 DEF Shape, TypeOK, vars, Keys, Pids
<1>47. CASE Worker
  BY ONLY <1>3, <1>4, <1>5, <1>6, <1>7, <1>8, <1>9, <1>10, <1>11, <1>12, <1>13, <1>14,
     <1>15, <1>16, <1>17, <1>18, <1>19, <1>20, <1>21, <1>23, <1>24, <1>25, <1>26, <1>27,
     <1>28, <1>29, <1>30, <1>31, <1>32, <1>33, <1>34, <1>35, <1>36, <1>37, <1>38, <1>39,
     <1>40, <1>47 DEF Worker
<1>48. CASE Client
  BY ONLY <1>1, <1>2, <1>41, <1>48 DEF Client
<1>50. CASE Clear
  BY <1>50 DEF Shape, TypeOK, Clear
<1>49. CASE Handler
  BY ONLY <1>42, <1>43, <1>44, <1>49, <1>50 DEF Handler
<1> QED
  BY ONLY <1>22, <1>45, <1>46, <1>47, <1>48, <1>49, [Next]_vars DEF Next

\* So Shape always holds.
LEMMA ShapeAlways == Spec => []Shape
  BY ShapeInit, ShapeStep, PTL DEF Spec

\* Every variable has its type, and no milestone gets more retries or replans
\* than its budget, whatever clients, agents, crashes and answers do.
THEOREM TypeCorrect == Spec => []TypeOK
<1>1. Shape => TypeOK
  BY DEF Shape
<1> QED
  BY <1>1, ShapeAlways, PTL

\* The plan a run executes never loses a completed milestone, whatever patches
\* the orchestrator sends: apply_plan_patch and the loop keep it.
THEOREM CompletedStaysInThePlan == Spec => PlanKeepsDone
<1>1. Shape /\ [Next]_vars =>
        [{pc, pc'} \subseteq Executing => DoneIds(plan.ms) \subseteq DoneIds(plan.ms)']_vars
  <2> SUFFICES ASSUME Shape, Next, {pc, pc'} \subseteq Executing
               PROVE  DoneIds(plan.ms) \subseteq DoneIds(plan'.ms)
    OBVIOUS
  <2> USE DEF Executing, loop, cycle, handler, stored, counters
  <2>1. CASE PatchDone
    BY <2>1, Files DEF Shape, TypeOK, PatchDone, Patching
  <2>2. CASE SkipCompleted \/ Log
    <3>1. idx \in DOMAIN plan.ms /\ plan \in PlanFile /\ plan' = MarkHere
      BY <2>2, Files DEF Shape, TypeOK, SkipCompleted, Log, More, AtMilestone
    <3> QED
      BY <3>1, MarkingHere
  <2>3. CASE UNCHANGED plan
    BY <2>3
  <2>4. CASE Worker /\ ~PatchDone /\ ~SkipCompleted /\ ~Log
    <3>1. UNCHANGED plan
      BY <2>4
      DEF Worker, ResolveKind, Load, PlanApproved, Reload, PlanAdjust, PlanDraft, Build,
          SkipOrchestration, Reply, FocusedSave, FocusedPause, FocusedLoad, Resume, ResumeSave,
          PlanningFails, Plan, Lint, Accept, Pause, PatchRejected, AdjustmentFails,
          StartMilestone, LoopEnds, Cancelled, Raise, Passes, Blocked, GuidanceMissing, Fails,
          AsksReplan, Mark, MarkSave, Audit, Brief, ResetWorker
    <3> QED
      BY <3>1
  <2>5. CASE PatchOp \/ Handler \/ Client \/ Crash
    <3>1. UNCHANGED plan
      BY <2>5 DEF PatchOp, Handler, Clear, ReadPlan, WritePlan, Enqueue, Client, Ask, BeginApproved,
                  Begin, Resolve, Crash, ResetWorker
    <3> QED
      BY <3>1
  <2> QED
    BY <2>1, <2>2, <2>4, <2>5 DEF Next
<1> QED
  BY <1>1, ShapeAlways, PTL DEF Spec, PlanKeepsDone

-----------------------------------------------------------------------------
(* The loop's position and its count, if plans are made with unique ids.   *)

\* The ids of every copy of a plan stay unique.
LEMMA UniqueStep ==
    ASSUME UniquePlans, Shape, [Next]_vars,
           \A p \in {disk, plan, held, hheld} : UniqueIds(p.ms)
    PROVE  \A p \in {disk', plan', held', hheld'} : UniqueIds(p.ms)
<1> DEFINE U == \A p \in {disk', plan', held', hheld'} : UniqueIds(p.ms)
<1>a. /\ {disk, plan, held, hheld} \subseteq PlanFile /\ result \in Approval
      /\ \A p \in {disk, plan, held, hheld} : p.ms \in Seq(Milestone)
  BY Files DEF Shape, TypeOK, Approval
<1>b. UniqueIds(NoPlan.ms)
  BY NoFile DEF UniqueIds
<1> USE DEF loop, cycle, handler, stored, counters
\* The state of a plan changes, or copies are made.
<1>1. CASE PlanApproved \/ SkipOrchestration \/ Accept \/ FocusedSave \/ Brief \/ WritePlan
  <2>1. \A p \in {plan, held, hheld} : \A x \in Approval : [p EXCEPT !.app = x].ms = p.ms
    BY <1>a, Files
  <2>2. CASE PlanApproved \/ SkipOrchestration \/ Accept
    <3>1. CASE PlanApproved
      BY <2>1, <3>1 DEF PlanApproved, Approval
    <3>2. CASE SkipOrchestration
      <4>1. [plan EXCEPT !.app = "executing"].ms = plan.ms
        BY <2>1 DEF Approval
      <4>2. plan'.ms = plan.ms /\ disk'.ms \in {plan.ms, disk.ms} /\ UNCHANGED <<held, hheld>>
        BY <3>2, <4>1 DEF SkipOrchestration
      <4> QED
        BY <4>2
    <3>3. CASE Accept
      <4>1. PICK x \in Approval : plan' = [plan EXCEPT !.app = x] /\ disk' = plan'
        BY <3>3 DEF Accept, Approval
      <4>2. plan'.ms = plan.ms /\ disk'.ms = plan.ms
        BY <2>1, <4>1
      <4> QED
        BY <3>3, <4>2 DEF Accept
    <3> QED
      BY <2>2, <3>1, <3>2, <3>3
  <2>3. CASE FocusedSave \/ Brief
    BY <1>a, <1>b, <2>1, <2>3 DEF FocusedSave, Brief, ResetWorker
  <2>4. CASE WritePlan
    BY <2>1, <2>4 DEF WritePlan, Approval
  <2> QED
    BY <1>1, <2>2, <2>3, <2>4
<1>2. ASSUME NEW ids \in FirstPlans, Plan(ids) PROVE U
  <2>1. plan'.ms = [i \in DOMAIN ids |-> Todo(ids[i])] /\ disk' = plan' /\ UNCHANGED <<held, hheld>>
    BY <1>2 DEF Plan
  <2>2. UniqueIds(plan'.ms)
    BY <2>1 DEF UniqueIds, UniquePlans, Todo
  <2> QED
    BY <2>1, <2>2
<1>3. CASE PatchOp
  <2>1. held.ms \in Seq(Milestone) /\ UniqueIds(held.ms) /\ UNCHANGED <<disk, plan, hheld>>
    BY <1>3, <1>a DEF PatchOp
  <2>2. PICK ms \in Seq(Milestone) : UniqueIds(ms) /\ held' = [held EXCEPT !.ms = ms]
    <3>1. ASSUME NEW after \in Ids, NEW new \in Ids, CanInsert(held.ms, after, new),
                 held' = [held EXCEPT !.ms = InsertMilestone(@, after, new)]
          PROVE  \E ms \in Seq(Milestone) : UniqueIds(ms) /\ held' = [held EXCEPT !.ms = ms]
      BY <2>1, <3>1, Inserting
    <3>2. ASSUME NEW x \in Ids, Editable(held.ms, x),
                 held' = [held EXCEPT !.ms = RemoveMilestone(@, x)]
          PROVE  \E ms \in Seq(Milestone) : UniqueIds(ms) /\ held' = [held EXCEPT !.ms = ms]
      BY <2>1, <3>2, Removing
    <3> QED
      BY <1>3, <3>1, <3>2 DEF PatchOp
  <2>3. held'.ms = ms
    BY <1>a, <2>2, Files
  <2> QED
    BY <2>1, <2>2, <2>3
<1>4. CASE PatchDone
  <2>1. [held EXCEPT !.app = "draft"].ms = held.ms
    BY <1>a, Files DEF Approval
  <2> QED
    BY <1>4, <1>b, <2>1 DEF PatchDone
<1>5. CASE Mark
  <2>1. CASE Here \in IdsOf(disk.ms)
    <3>1. FirstAt(disk.ms, Here) \in DOMAIN disk.ms
      BY <1>a, <2>1, Positions
    <3>2. MarkFirst(disk.ms, Here) \in Seq(Milestone) /\ UniqueIds(MarkFirst(disk.ms, Here))
      BY <1>a, <3>1, Marking DEF MarkFirst
    <3>3. held' = [disk EXCEPT !.ms = MarkFirst(disk.ms, Here)]
      BY <1>5, <2>1 DEF Mark
    <3>4. held'.ms = MarkFirst(disk.ms, Here)
      BY <1>a, <3>2, <3>3, Files
    <3> QED
      BY <1>5, <3>2, <3>4 DEF Mark
  <2>2. CASE Here \notin IdsOf(disk.ms)
    BY <1>5, <2>2 DEF Mark
  <2> QED
    BY <2>1, <2>2
<1>6. CASE SkipCompleted \/ Log
  <2>1. idx \in DOMAIN plan.ms
    BY <1>6, <1>a DEF Shape, TypeOK, SkipCompleted, Log, More, AtMilestone
  <2>2. UniqueIds(MarkHere.ms)
    BY <1>a, <2>1, MarkingHere
  <2> QED
    BY <1>6, <2>2 DEF SkipCompleted, Log
<1>7. ASSUME \A p \in {disk', plan', held', hheld'} : p \in {disk, plan, held, hheld, NoPlan}
      PROVE  U
  BY <1>7, <1>b
<1>8. CASE Worker /\ ~(\/ PlanApproved \/ SkipOrchestration \/ Accept \/ FocusedSave \/ Brief
                       \/ PatchDone \/ Mark \/ SkipCompleted \/ Log
                       \/ (\E ids \in FirstPlans : Plan(ids)))
  <2>1. \A p \in {disk', plan', held', hheld'} : p \in {disk, plan, held, hheld, NoPlan}
    BY <1>8
    DEF Worker, ResolveKind, Load, Reload, PlanAdjust, PlanDraft, Build, Reply, FocusedPause,
        FocusedLoad, Resume, ResumeSave, PlanningFails, Lint, Pause, PatchRejected,
        AdjustmentFails, StartMilestone, LoopEnds, Cancelled, Raise, Passes, Blocked,
        GuidanceMissing, Fails, AsksReplan, MarkSave, Audit, ResetWorker
  <2> QED
    BY <1>7, <2>1
<1>9. CASE (Handler /\ ~WritePlan) \/ Client \/ Crash \/ UNCHANGED vars
  <2>1. \A p \in {disk', plan', held', hheld'} : p \in {disk, plan, held, hheld, NoPlan}
    BY <1>9 DEF Handler, Clear, ReadPlan, Enqueue, Client, Ask, BeginApproved, Begin, Resolve, Crash,
                ResetWorker, ResetHandler, vars
  <2> QED
    BY <1>7, <2>1
<1> QED
  BY <1>1, <1>2, <1>3, <1>4, <1>5, <1>6, <1>8, <1>9 DEF Next

\* Every step preserves the position.
LEMMA PositionStep ==
    ASSUME Shape, Shape', Position, \A p \in {disk, plan, held, hheld} : UniqueIds(p.ms),
           [Next]_vars
    PROVE  Position'
<1>a. /\ {disk, plan, held, hheld} \subseteq PlanFile /\ plan.ms \in Seq(Milestone)
      /\ plan'.ms \in Seq(Milestone)
      /\ pids \in 0..MaxPlans /\ mem \subseteq Keys /\ passed \in Nat /\ idx \in Nat
  BY Files DEF Shape, TypeOK
<1>b. \A k \in mem : k[1] <= pids
  BY DEF Position
<1> USE DEF loop, cycle, handler, stored, counters
\* Outside of an execution there is nothing to count.
<1>1. ASSUME idx' = 1, passed' = 0, moved' = {}, pc' \notin Underway, mem' \subseteq mem,
             pids' >= pids, pids' \in Nat, pc' = "resume" => kind' = "resume"
      PROVE  Position'
  <2>1. Behind' = {}
    BY <1>a, <1>1, CountBefore DEF Behind
  <2>2. Cardinality(Behind') = 0
    BY <2>1, FS_EmptySet
  <2>3. \A k \in mem' : k[1] <= pids'
    <3> SUFFICES ASSUME NEW k \in mem' PROVE k[1] <= pids'
      OBVIOUS
    <3>1. k[1] \in Pids /\ k[1] <= pids
      BY <1>a, <1>b, <1>1 DEF Keys
    <3> QED
      BY <1>a, <1>1, <3>1 DEF Pids
  <2>4. pc' \notin AtMilestone
    BY <1>1 DEF Underway, Executing, AtMilestone
  <2> QED
    BY <1>1, <2>2, <2>3, <2>4 DEF Position, NeverRedone
\* Steps that change neither the plan's milestones nor the place in it.
<1>2. ASSUME UNCHANGED <<idx, passed, moved, kind, mem, pids>>,
             plan'.ms = plan.ms, plan'.pid = plan.pid,
             pc' \notin Executing => pc \notin Executing,
             pc' \in Underway => pc \in Underway \/ kind = "resume",
             pc' = "resume" => pc = "resume",
             pc' \in AtMilestone => pc \in AtMilestone \/ (pc = "loop" /\ More /\ ~Remembered)
      PROVE  Position'
  <2>1. Behind' = Behind /\ Here' = Here /\ Key' = Key
    BY <1>2 DEF Behind, Here, Key
  <2>2. ASSUME pc = "loop", More, ~Remembered, Key \in mem PROVE Here \in moved
    <3>1. idx \in DOMAIN plan.ms
      <4>1. idx \in Nat \ {0} /\ idx <= Len(plan.ms)
        BY <2>2 DEF More, Shape, TypeOK
      <4> QED
        BY <1>a, <4>1
    <3>2. Here \in Ids /\ Here \notin Behind
      BY <1>a, <3>1, MarkingHere
    <3>3. Here \in Behind \cup moved
      BY <2>2, <3>2 DEF Position, Underway, Executing, Remembered, Key
    <3> QED
      BY <3>2, <3>3
  <2>3. NeverRedone'
    BY <1>2, <2>1, <2>2 DEF Position, NeverRedone
  <2> QED
    BY <1>2, <2>1, <2>3 DEF Position
\* The loop goes past a milestone that is completed.
<1>3. ASSUME pc \in {"loop", "log"}, pc' = "loop", plan' = MarkHere, idx \in DOMAIN plan.ms,
             passed' = passed + 1, idx' = idx + 1, UNCHANGED <<moved, kind, pids>>,
             mem' \in {mem, mem \cup {Key}}
      PROVE  Position'
  <2>1. /\ Here \in Ids /\ Here \notin Behind /\ plan'.pid = plan.pid
        /\ DoneIds(plan'.ms) = DoneIds(plan.ms) \cup {Here}
        /\ Behind' = Behind \cup {Here}
    BY <1>a, <1>3, MarkingHere DEF Behind
  <2>2. Cardinality(Behind') = Cardinality(Behind) + 1 /\ Cardinality(Behind) \in Nat
    <3>1. IsFiniteSet(Behind) /\ Cardinality(Behind) \in Nat
      BY <1>a, CountBefore DEF Behind
    <3>2. Cardinality(Behind \cup {Here}) = Cardinality(Behind) + 1
      BY <2>1, <3>1, FS_AddElement
    <3> QED
      BY <2>1, <3>1, <3>2
  <2>3. \A k \in mem' : k[1] <= pids'
    <3>1. Key[1] <= pids
      BY DEF Key, Shape
    <3> QED
      BY <1>3, <1>b, <3>1
  <2>4. pc \in Underway /\ pc' \in Executing /\ pc' \notin AtMilestone /\ pc' # "resume"
    BY <1>3 DEF Underway, Executing, AtMilestone
  <2>5. moved' = {} => passed' <= Cardinality(Behind')
    BY <1>a, <1>3, <2>2 DEF Position
  <2>6. kind' # "resume" =>
          /\ \A x \in Ids : <<plan'.pid, x>> \in mem' => x \in DoneIds(plan'.ms)
          /\ DoneIds(plan'.ms) \subseteq Behind' \cup moved'
    BY <1>3, <2>1, <2>4 DEF Position, Key
  <2> QED
    BY <2>3, <2>4, <2>5, <2>6 DEF Position, NeverRedone
\* The milestones are patched.
<1>4. CASE PatchDone
  <2>1. /\ plan'.ms = held.ms /\ plan'.pid = plan.pid /\ DoneIds(held.ms) = DoneIds(plan.ms)
        /\ held.ms \in Seq(Milestone)
    BY <1>4, <1>a, Files DEF PatchDone, Shape, Approval
  <2>2. CASE pc = "replan"
    <3>1. /\ pc' = "loop" /\ idx' = ReAnchor(held.ms) /\ moved' = moved \cup MovedBack(held.ms)
          /\ UNCHANGED <<passed, kind, mem, pids>> /\ idx \in DOMAIN plan.ms
      BY <1>4, <2>2 DEF PatchDone, Shape, AtMilestone
    <3>2. Behind \subseteq Behind' \cup MovedBack(held.ms)
      BY <1>a, <2>1, <3>1, StaysBehind DEF Behind
    <3>3. moved' = {} => passed' <= Cardinality(Behind')
      <4> SUFFICES ASSUME moved' = {} PROVE passed' <= Cardinality(Behind')
        OBVIOUS
      <4>1. moved = {} /\ Behind \subseteq Behind'
        BY <3>1, <3>2
      <4>2. IsFiniteSet(Behind') /\ Cardinality(Behind') \in Nat /\ Cardinality(Behind) \in Nat
        BY <1>a, CountBefore DEF Behind
      <4>3. Cardinality(Behind) <= Cardinality(Behind')
        BY <4>1, <4>2, FS_Subset
      <4> QED
        BY <1>a, <3>1, <4>1, <4>2, <4>3 DEF Position
    <3>4. pc \in Underway /\ pc' \in Executing /\ pc' \notin AtMilestone /\ pc' # "resume"
      BY <2>2, <3>1 DEF Underway, Executing, AtMilestone
    <3>5. kind' # "resume" =>
            /\ \A x \in Ids : <<plan'.pid, x>> \in mem' => x \in DoneIds(plan'.ms)
            /\ DoneIds(plan'.ms) \subseteq Behind' \cup moved'
      BY <2>1, <3>1, <3>2, <3>4 DEF Position
    <3> QED
      BY <1>b, <3>1, <3>3, <3>4, <3>5 DEF Position, NeverRedone
  <2>3. CASE pc \in {"repair", "adjust"}
    <3>1. /\ pc' = (IF pc = "repair" THEN "accept" ELSE "pause")
          /\ UNCHANGED <<idx, passed, moved, kind, mem, pids>>
      BY <1>4, <2>3 DEF PatchDone
    <3>2. idx = 1 /\ passed = 0 /\ moved = {}
      BY <2>3 DEF Position, Executing
    <3>3. Behind = {} /\ Behind' = {} /\ Cardinality(Behind') = 0
      BY <1>a, <3>1, <3>2, CountBefore, FS_EmptySet DEF Behind
    <3>4. pc' \in {"accept", "pause"} /\ pc' \notin Executing /\ pc' \notin AtMilestone /\ pc' # "resume"
      BY <3>1 DEF Executing, AtMilestone
    <3>5. pc' \in Underway => pc \in Underway
      BY <2>3, <3>1 DEF Underway, Executing
    <3> QED
      BY <1>b, <2>1, <3>1, <3>2, <3>3, <3>4, <3>5 DEF Position, NeverRedone
  <2> QED
    BY <1>4, <2>2, <2>3 DEF PatchDone, Patching
\* The memory knows nothing of a plan that is made now.
<1>5. ASSUME NEW ids \in FirstPlans, Plan(ids) PROVE Position'
  <2>1. /\ plan'.ms = [i \in DOMAIN ids |-> Todo(ids[i])] /\ plan'.pid = pids + 1
        /\ pids' = pids + 1 /\ pc' = "lint" /\ UNCHANGED <<idx, passed, moved, kind, mem>>
        /\ pc = "orchestrate"
    BY <1>5 DEF Plan, NewPid
  <2>2. DoneIds(plan'.ms) = {}
    BY <2>1 DEF DoneIds, Todo
  <2>3. idx = 1 /\ passed = 0 /\ moved = {}
    BY <2>1 DEF Position, Executing
  <2>4. Behind' = {} /\ Cardinality(Behind') = 0
    BY <1>a, <2>1, <2>3, CountBefore, FS_EmptySet DEF Behind
  <2>5. \A k \in mem : k[1] <= pids' /\ k[1] # plan'.pid
    <3> SUFFICES ASSUME NEW k \in mem PROVE k[1] <= pids' /\ k[1] # plan'.pid
      OBVIOUS
    <3>1. k[1] \in Pids /\ k[1] <= pids
      BY <1>a, <1>b DEF Keys
    <3> QED
      BY <1>a, <2>1, <3>1 DEF Pids
  <2>6. \A x \in Ids : <<plan'.pid, x>> \notin mem'
    BY <2>1, <2>5
  <2>7. pc' \notin Executing /\ pc' \notin AtMilestone /\ pc' # "resume"
    BY <2>1 DEF Executing, AtMilestone
  <2> QED
    BY <2>1, <2>2, <2>3, <2>4, <2>5, <2>6, <2>7 DEF Position, NeverRedone
<1>6. CASE SkipCompleted \/ Log
  <2>1. idx \in DOMAIN plan.ms
    BY SMTT(30), <1>6, <1>a DEF Shape, TypeOK, SkipCompleted, Log, More, AtMilestone
  <2>2. CASE SkipCompleted
    BY <1>3, <2>1, <2>2 DEF SkipCompleted
  <2>3. CASE Log
    BY <1>3, <2>1, <2>3 DEF Log
  <2> QED
    BY <1>6, <2>2, <2>3
<1>7. CASE \/ Reply \/ FocusedSave \/ FocusedPause \/ PlanningFails \/ Pause \/ AdjustmentFails
           \/ Cancelled \/ Raise \/ Brief \/ Crash
  <2>1. /\ pc' = "idle" /\ idx' = 1 /\ passed' = 0 /\ moved' = {}
        /\ mem' \subseteq mem /\ pids' = pids
    BY <1>7 DEF Reply, FocusedSave, FocusedPause, PlanningFails, Pause, AdjustmentFails,
                Cancelled, Raise, Brief, Crash, ResetWorker, ResetLoop
  <2>2. pc' \notin Underway /\ pc' # "resume"
    BY <2>1 DEF Underway, Executing
  <2> QED
    BY <1>1, <1>a, <2>1, <2>2
<1>8. CASE \/ ResolveKind \/ Load \/ PlanApproved \/ Reload \/ PlanAdjust \/ PlanDraft \/ Build
           \/ SkipOrchestration \/ Resume
           \/ (\E status \in {"completed", "partial", "failed"} : FocusedLoad(status))
           \/ (\E r \in Requests : Ask(r)) \/ BeginApproved
  <2>1. /\ pc \notin Executing /\ pc' \notin Underway /\ UNCHANGED <<idx, passed, moved, mem, pids>>
        /\ pc' = "resume" => kind' = "resume"
    BY <1>8 DEF ResolveKind, Load, PlanApproved, Reload, PlanAdjust, PlanDraft, Build,
                SkipOrchestration, Resume, Resumable, FocusedLoad, Ask, BeginApproved, Begin,
                Underway, Executing
  <2>2. idx = 1 /\ passed = 0 /\ moved = {}
    BY <2>1 DEF Position
  <2> QED
    BY <1>1, <1>a, <2>1, <2>2
<1>9. CASE Accept
  <2>1. plan'.ms = plan.ms /\ plan'.pid = plan.pid
    <3>1. PICK x \in Approval : plan' = [plan EXCEPT !.app = x]
      BY <1>9 DEF Accept, Approval
    <3> QED
      BY <1>a, <3>1, Files
  <2>2. CASE req.mode = "build"
    BY <1>2, <1>9, <2>1, <2>2 DEF Accept, Underway, Executing, AtMilestone
  <2>3. CASE req.mode # "build"
    <3>1. pc' = "pause" /\ pc = "accept" /\ UNCHANGED <<idx, passed, moved, mem, pids>>
      BY <1>9, <2>3 DEF Accept
    <3>2. idx = 1 /\ passed = 0 /\ moved = {} /\ pc' \notin Underway /\ pc' # "resume"
      BY <3>1 DEF Position, Underway, Executing
    <3> QED
      BY <1>1, <1>a, <3>1, <3>2
  <2> QED
    BY <2>2, <2>3
<1>10. CASE \/ ResumeSave \/ Lint \/ PatchRejected \/ StartMilestone \/ LoopEnds \/ Passes
            \/ Blocked \/ GuidanceMissing \/ Mark \/ MarkSave \/ Audit
            \/ (\E sig \in Sigs \cup {NoSig} : Fails(sig) \/ AsksReplan(sig))
  <2>1. UNCHANGED <<idx, passed, moved, kind, mem, pids, plan>>
    BY <1>10 DEF ResumeSave, Lint, PatchRejected, StartMilestone, LoopEnds, Passes, Blocked,
                 GuidanceMissing, Mark, MarkSave, Audit, Fails, AsksReplan
  <2>2. /\ pc' \in Underway /\ (pc \in Underway \/ pc = "resume") /\ pc' # "resume"
        /\ pc' \notin Executing => pc \notin Executing
        /\ pc' \in AtMilestone => pc \in AtMilestone \/ (pc = "loop" /\ More /\ ~Remembered)
    BY <1>10 DEF ResumeSave, Lint, PatchRejected, StartMilestone, LoopEnds, Passes, Blocked,
                 Halt, Retry, GuidanceMissing, Mark, MarkSave, Audit, Fails, AsksReplan,
                 Underway, Executing, AtMilestone
  <2>3. pc = "resume" => kind = "resume"
    BY DEF Position
  <2> QED
    BY <1>2, <2>1, <2>2, <2>3
<1>11. CASE PatchOp \/ Handler \/ (\E answer \in Answers : Resolve(answer)) \/ UNCHANGED vars
  <2>1. UNCHANGED <<idx, passed, moved, kind, mem, pids, plan, pc>>
    BY <1>11 DEF PatchOp, Handler, Clear, ReadPlan, WritePlan, Enqueue, Resolve, vars
  <2> QED
    BY <1>2, <2>1
<1>12. CASE Worker
  BY ONLY <1>4, <1>5, <1>6, <1>7, <1>8, <1>9, <1>10, <1>12 DEF Worker
<1>13. CASE Client
  BY ONLY <1>8, <1>11, <1>13 DEF Client
<1> QED
  BY ONLY <1>7, <1>11, <1>12, <1>13, [Next]_vars DEF Next

\* So Places always holds, whatever clients do.
LEMMA PlacesAlways == UniquePlans => (Spec => []Places)
<1> SUFFICES ASSUME UniquePlans PROVE Spec => []Places
  OBVIOUS
<1>1. Init => Places
  <2> SUFFICES ASSUME Init PROVE Places
    OBVIOUS
  <2>1. Shape
    BY ShapeInit
  <2>2. Behind = {} /\ Cardinality(Behind) = 0
    <3>1. plan.ms = <<>> /\ idx = 1
      BY NoFile DEF Init
    <3>2. Behind = {}
      BY <3>1 DEF Behind, DoneBefore
    <3> QED
      BY <3>2, FS_EmptySet
  <2> QED
    BY <2>1, <2>2, NoFile
    DEF Init, Places, Position, UniqueIds, Underway, Executing, AtMilestone, NeverRedone
<1>2. Places /\ [Next]_vars => Places'
  <2> SUFFICES ASSUME Places, [Next]_vars PROVE Places'
    OBVIOUS
  <2>1. Shape /\ Position /\ \A p \in {disk, plan, held, hheld} : UniqueIds(p.ms)
    BY DEF Places
  <2>2. Shape'
    BY <2>1, ShapeStep
  <2>3. \A p \in {disk', plan', held', hheld'} : UniqueIds(p.ms)
    BY <2>1, UniqueStep
  <2>4. Position'
    BY <2>1, <2>2, PositionStep
  <2> QED
    BY <2>2, <2>3, <2>4 DEF Places
<1> QED
  BY <1>1, <1>2, PTL DEF Spec

\* If plans are made with unique ids, milestones_passed never exceeds the
\* milestones completed behind the loop, until a replan moves one of them in front
\* of it (main.py:868-1000): whatever clients, agents, crashes and patches do.
THEOREM PassedStaysHonest == UniquePlans => (Spec => []PassedIsHonest)
<1>1. Places => PassedIsHonest
  <2> SUFFICES ASSUME Places, moved = {}
               PROVE  passed <= Cardinality({i \in DOMAIN plan.ms : i < idx /\ plan.ms[i].done})
    BY DEF PassedIsHonest
  <2> DEFINE S == {i \in DOMAIN plan.ms : i < idx /\ plan.ms[i].done}
  <2>1. plan.ms \in Seq(Milestone) /\ passed \in Nat /\ passed <= Cardinality(Behind)
    BY Files DEF Places, Position, Shape, TypeOK
  <2>2. Cardinality(Behind) \in Nat /\ Cardinality(Behind) <= Cardinality(S)
    BY <2>1, CountBefore DEF Behind
  <2>3. Cardinality(S) \in Nat
    <3>1. IsFiniteSet(1..Len(plan.ms)) /\ S \in SUBSET (1..Len(plan.ms))
      BY <2>1, FS_Interval
    <3> QED
      BY <3>1, FS_Subset, FS_CardinalityType
  <2> HIDE DEF S
  <2>4. passed <= Cardinality(S)
    BY <2>1, <2>2, <2>3
  <2> QED
    BY <2>4 DEF S
<1> QED
  BY <1>1, PlacesAlways, PTL

\* If plans are made with unique ids, a milestone the memory store calls completed
\* for this plan is executed again only if a replan has moved it in front of the
\* loop, whatever the kind of the run (main.py:880-900, plan_id of a new plan).
THEOREM CompletedIsNotRedone == UniquePlans => (Spec => []NeverRedone)
<1>1. Places => NeverRedone
  BY DEF Places, Position
<1> QED
  BY <1>1, PlacesAlways, PTL

-----------------------------------------------------------------------------
(* Under QuietSpec, plan.json is what the worker knows.                    *)

\* IInv holds of an idle session.
LEMMA IInvInit == Init => IInv
<1> SUFFICES ASSUME Init PROVE IInv
  OBVIOUS
<1>1. Shape
  BY ShapeInit
<1> QED
  BY <1>1, NoFile DEF Init, IInv, InStep, Quiet, DoneIsEarned, Earned, Executing

\* Every step preserves IInv, if no decision is answered during a run.
LEMMA IInvStep == IInv /\ [Next /\ Quiet']_vars => IInv'
<1> SUFFICES ASSUME IInv, [Next /\ Quiet']_vars PROVE IInv'
  OBVIOUS
<1>0. Shape /\ Shape'
  BY ShapeStep DEF IInv
<1>q. Quiet /\ Quiet'
  BY DEF IInv, InStep, Quiet, vars
<1> DEFINE E == /\ Earned(disk) /\ Earned(plan) /\ Earned(held) /\ Earned(hheld)
                /\ mem \subseteq earned
                /\ pc \in {"mark", "mark_save", "log"} => Key \in earned
<1>a. InStep /\ E
  BY DEF IInv, DoneIsEarned
<1> SUFFICES InStep' /\ E'
  BY <1>0 DEF IInv, DoneIsEarned
<1>b. {disk, plan, held, hheld} \subseteq PlanFile
  BY <1>0 DEF Shape, TypeOK
<1> USE NoFile
<1> USE DEF stored, counters, loop, cycle, handler, Executing, ResetWorker, ResetLoop,
            ResetCycle, Earned, Quiet
<1>1. ASSUME NEW r \in Requests, Ask(r) PROVE InStep' /\ E'
  BY <1>1, <1>a, <1>q DEF InStep, Ask, Begin
<1>2. CASE BeginApproved
  BY <1>2, <1>a, <1>q DEF InStep, BeginApproved, Begin
<1>3. CASE ResolveKind
  BY <1>3, <1>a, <1>q DEF InStep, ResolveKind
<1>4. CASE Load
  BY <1>4, <1>a, <1>q DEF InStep, Load
<1>5. CASE PlanApproved
  BY <1>5, <1>a, <1>q, <1>b, Files DEF InStep, PlanApproved
<1>6. CASE Reload
  BY <1>6, <1>a, <1>q DEF InStep, Reload
<1>7. CASE PlanAdjust
  BY <1>7, <1>a, <1>q DEF InStep, PlanAdjust
<1>8. CASE PlanDraft
  BY <1>8, <1>a, <1>q DEF InStep, PlanDraft
<1>9. CASE Build
  BY <1>9, <1>a, <1>q DEF InStep, Build
<1>10. CASE SkipOrchestration
  <2>1. /\ [plan EXCEPT !.app = "executing"].pid = plan.pid
        /\ [plan EXCEPT !.app = "executing"].ms = plan.ms
    BY <1>b, Files DEF Approval
  <2>2. plan'.pid = plan.pid /\ plan'.ms = plan.ms /\ disk' = plan'
    BY <1>10, <1>a, <1>q, <2>1 DEF InStep, SkipOrchestration
  <2> QED
    BY <1>10, <1>a, <1>q, <2>2 DEF InStep, SkipOrchestration
<1>11. CASE Reply
  BY <1>11, <1>a, <1>q DEF InStep, Reply
<1>12. CASE FocusedSave
  BY <1>12, <1>a, <1>q, <1>b, Files DEF InStep, FocusedSave
<1>13. CASE FocusedPause
  BY <1>13, <1>a, <1>q DEF InStep, FocusedPause
<1>14. ASSUME NEW status \in {"completed", "partial", "failed"}, FocusedLoad(status)
       PROVE  InStep' /\ E'
  BY <1>14, <1>a, <1>q DEF InStep, FocusedLoad
<1>15. CASE Resume
  BY <1>15, <1>a, <1>q DEF InStep, Resume
<1>16. CASE ResumeSave
  BY <1>16, <1>a, <1>q DEF InStep, ResumeSave
<1>17. CASE PlanningFails
  BY <1>17, <1>a, <1>q DEF InStep, PlanningFails
<1>18. ASSUME NEW ids \in FirstPlans, Plan(ids) PROVE InStep' /\ E'
  <2>1. plan'.ms = [i \in DOMAIN ids |-> Todo(ids[i])] /\ disk' = plan'
    BY <1>18 DEF Plan
  <2>2. DoneIds(plan'.ms) = {}
    BY <2>1 DEF DoneIds, Todo
  <2> QED
    BY <1>18, <1>a, <1>q, <2>1, <2>2 DEF InStep, Plan
<1>19. CASE Lint
  BY <1>19, <1>a, <1>q DEF InStep, Lint
<1>20. CASE Accept
  BY <1>20, <1>a, <1>q, <1>b, Files DEF InStep, Accept, Agree
<1>21. CASE Pause
  BY <1>21, <1>a, <1>q DEF InStep, Pause
<1>22. CASE PatchOp
  <2>1. held'.pid = held.pid /\ DoneIds(held'.ms) = DoneIds(held.ms)
    <3>1. held.pid = plan.pid /\ DoneIds(held.ms) = DoneIds(plan.ms)
      BY <1>22, <1>0 DEF Shape, PatchOp
    <3>2. held'.pid = plan'.pid /\ DoneIds(held'.ms) = DoneIds(plan'.ms) /\ plan' = plan
      BY <1>22, <1>0 DEF Shape, PatchOp
    <3> QED
      BY <3>1, <3>2
  <2> QED
    BY <1>22, <1>a, <1>q, <2>1 DEF InStep, PatchOp, Patching, Agree
<1>23. CASE PatchDone
  <2>1. plan'.pid = held.pid /\ plan'.ms = held.ms /\ disk' = plan' /\ held' = NoPlan
    BY <1>23, <1>b, Files DEF PatchDone, Approval
  <2> QED
    BY <1>23, <1>a, <1>q, <2>1 DEF InStep, PatchDone, Patching, Agree
<1>24. CASE PatchRejected
  BY <1>24, <1>a, <1>q DEF InStep, PatchRejected, Agree
<1>25. CASE AdjustmentFails
  BY <1>25, <1>a, <1>q DEF InStep, AdjustmentFails
<1>26. CASE SkipCompleted
  <2>1. idx \in DOMAIN plan.ms
    BY <1>26, <1>0, <1>b, Files DEF Shape, TypeOK, SkipCompleted, More
  <2>2. plan'.pid = plan.pid /\ DoneIds(plan'.ms) = DoneIds(plan.ms) \cup {Here}
    BY <1>26, <1>b, <2>1, MarkingHere DEF SkipCompleted
  <2>3. Key \in earned
    BY <1>26, <1>a, <1>q DEF SkipCompleted, Remembered
  <2> QED
    BY <1>26, <1>a, <1>q, <2>2, <2>3 DEF InStep, SkipCompleted, Key, Agree
<1>27. CASE StartMilestone
  BY <1>27, <1>a, <1>q DEF InStep, StartMilestone, Agree
<1>28. CASE LoopEnds
  BY <1>28, <1>a, <1>q DEF InStep, LoopEnds, Agree
<1>29. CASE Cancelled
  BY <1>29, <1>a, <1>q DEF InStep, Cancelled
<1>30. CASE Raise
  BY <1>30, <1>a, <1>q DEF InStep, Raise
<1>31. CASE Passes
  BY <1>31, <1>a, <1>q DEF InStep, Passes, Key, Here, Agree
<1>32. CASE Blocked
  BY <1>32, <1>a, <1>q DEF InStep, Blocked, Halt, Agree
<1>33. CASE GuidanceMissing
  BY <1>33, <1>a, <1>q DEF InStep, GuidanceMissing, Retry, Agree
<1>34. ASSUME NEW sig \in Sigs \cup {NoSig}, Fails(sig) PROVE InStep' /\ E'
  BY <1>34, <1>a, <1>q DEF InStep, Fails, Retry, Halt, Agree
<1>35. ASSUME NEW sig \in Sigs \cup {NoSig}, AsksReplan(sig) PROVE InStep' /\ E'
  BY <1>35, <1>a, <1>q DEF InStep, AsksReplan, Agree
<1>36. CASE Mark
  <2>1. Here \in IdsOf(disk.ms) /\ disk.pid = plan.pid /\ disk.ms \in Seq(Milestone)
    BY <1>36, <1>0, <1>a, <1>q, <1>b, Files, MarkingHere DEF InStep, Mark, Agree, Shape, AtMilestone
  <2>2. held' = [disk EXCEPT !.ms = MarkFirst(disk.ms, Here)]
    BY <1>36, <2>1 DEF Mark
  <2>3. /\ MarkFirst(disk.ms, Here) \in Seq(Milestone)
        /\ IdsOf(MarkFirst(disk.ms, Here)) = IdsOf(disk.ms)
        /\ DoneIds(MarkFirst(disk.ms, Here)) = DoneIds(disk.ms) \cup {Here}
    BY <2>1, Positions, Marking DEF MarkFirst
  <2>4. AgreeBut(held', disk, Here)
    BY <1>b, <2>2, <2>3, Files DEF AgreeBut
  <2> QED
    BY <1>36, <1>a, <1>q, <2>1, <2>4 DEF InStep, Mark, Key, Here, Agree, AgreeBut
<1>37. CASE MarkSave
  BY <1>37, <1>a, <1>q DEF InStep, MarkSave, Key, Here, Agree, AgreeBut
<1>38. CASE Log
  <2>1. idx \in DOMAIN plan.ms
    BY <1>38, <1>0 DEF Shape, Log, AtMilestone
  <2>2. /\ plan'.pid = plan.pid /\ IdsOf(plan'.ms) = IdsOf(plan.ms)
        /\ DoneIds(plan'.ms) = DoneIds(plan.ms) \cup {Here}
    BY <1>38, <1>b, <2>1, MarkingHere DEF Log
  <2> QED
    BY <1>38, <1>a, <1>q, <2>2 DEF InStep, Log, Key, Agree, AgreeBut
<1>39. CASE Audit
  BY <1>39, <1>a, <1>q DEF InStep, Audit, Agree
<1>40. CASE Brief
  BY <1>40, <1>a, <1>q, <1>b, Files DEF InStep, Brief
<1>41. CASE Handler
  <2>1. CASE ReadPlan
    BY <1>a, <1>q, <2>1 DEF InStep, ReadPlan
  <2>2. CASE WritePlan
    <3>1. PICK a \in Approval : disk' = [hheld EXCEPT !.app = a]
      BY <2>2 DEF WritePlan, Approval
    <3>2. disk'.pid = hheld.pid /\ disk'.ms = hheld.ms
      BY <1>b, <3>1, Files
    <3> QED
      BY <1>a, <1>q, <2>2, <3>2 DEF InStep, WritePlan
  <2>3. CASE Enqueue
    BY <1>a, <1>q, <2>3 DEF InStep, Enqueue, ResetHandler
  <2>4. CASE Clear
    BY <1>a, <1>q, <2>4 DEF InStep, Clear
  <2> QED
    BY <1>41, <2>1, <2>2, <2>3, <2>4 DEF Handler
<1>42. CASE Crash
  BY <1>42, <1>a, <1>q DEF InStep, Crash, ResetHandler
<1>43. CASE UNCHANGED vars
  BY <1>43, <1>a, <1>q DEF InStep, vars, Agree, AgreeBut, Key, Here
<1>44. CASE Worker
  BY ONLY <1>3, <1>4, <1>5, <1>6, <1>7, <1>8, <1>9, <1>10, <1>11, <1>12, <1>13, <1>14,
     <1>15, <1>16, <1>17, <1>18, <1>19, <1>20, <1>21, <1>23, <1>24, <1>25, <1>26, <1>27,
     <1>28, <1>29, <1>30, <1>31, <1>32, <1>33, <1>34, <1>35, <1>36, <1>37, <1>38, <1>39,
     <1>40, <1>44 DEF Worker
<1>46. ASSUME NEW answer \in Answers, Resolve(answer) PROVE InStep' /\ E'
  BY <1>46, <1>a, <1>q DEF InStep, Resolve, Agree, AgreeBut, Key, Here
<1>45. CASE Client
  BY ONLY <1>1, <1>2, <1>45, <1>46 DEF Client
<1> QED
  BY ONLY <1>22, <1>41, <1>42, <1>43, <1>44, <1>45, [Next /\ Quiet']_vars DEF Next

\* So IInv always holds under QuietSpec.
LEMMA IInvAlways == QuietSpec => []IInv
  BY IInvInit, IInvStep, PTL DEF QuietSpec

\* A milestone is called completed, in plan.json, in a copy of it or in the
\* memory store, only if the validator passed it for that plan.
THEOREM CompletedMilestonesAreEarned == QuietSpec => []DoneIsEarned
<1>1. IInv => DoneIsEarned
  BY DEF IInv
<1> QED
  BY <1>1, IInvAlways, PTL

\* A mission is reported completed only if the validator passed every
\* milestone of its plan, so never because of a crash, a resume or a replan.
THEOREM CompletedMissionsAreEarned == QuietSpec => []CompletedIsEarned
<1>1. IInv => CompletedIsEarned
  <2> SUFFICES ASSUME IInv, pc = "brief", result = "completed", NEW x \in IdsOf(plan.ms)
               PROVE  <<plan.pid, x>> \in earned
    BY DEF CompletedIsEarned
  <2>1. ~Pending(plan.ms)
    BY DEF IInv, Shape
  <2>2. x \in DoneIds(plan.ms)
    BY <2>1 DEF Pending, IdsOf, DoneIds
  <2> QED
    BY <2>2 DEF IInv, DoneIsEarned, Earned
<1> QED
  BY <1>1, IInvAlways, PTL

\* plan.json is at every step of a mission the plan a crash has to leave.
THEOREM PlanFileIsCurrent == QuietSpec => []DiskIsCurrent
<1>1. IInv => DiskIsCurrent
  <2> SUFFICES ASSUME IInv, pc \in Executing
               PROVE  /\ disk.pid = plan.pid /\ IdsOf(disk.ms) = IdsOf(plan.ms)
                      /\ DoneIds(plan.ms) \subseteq DoneIds(disk.ms)
    BY DEF DiskIsCurrent
  <2> QED
    BY DEF IInv, InStep, Agree, AgreeBut
<1> QED
  BY <1>1, IInvAlways, PTL

\* plan.json never loses a completed milestone of the plan it holds.
THEOREM CompletedStaysInTheFile == QuietSpec => DiskKeepsDone
<1>1. IInv /\ [Next /\ Quiet']_vars =>
        [disk'.pid = disk.pid => DoneIds(disk.ms) \subseteq DoneIds(disk.ms)']_vars
  <2> SUFFICES ASSUME IInv, Next, disk'.pid = disk.pid
               PROVE  DoneIds(disk.ms) \subseteq DoneIds(disk'.ms)
    OBVIOUS
  <2>a. {disk, plan, held, hheld} \subseteq PlanFile /\ Shape /\ InStep
    BY DEF IInv, Shape, TypeOK
  <2> USE DEF Executing, loop, cycle, handler, stored, counters
  <2>1. CASE PlanApproved \/ FocusedSave \/ SkipOrchestration \/ Accept
    <3>1. result \in Approval /\ \A a \in Approval :
              [plan EXCEPT !.app = a].ms = plan.ms /\ [held EXCEPT !.app = a].ms = held.ms
      BY <2>a, Files DEF Shape, TypeOK, Approval
    <3>2. CASE PlanApproved
      BY <2>a, <3>1, <3>2 DEF InStep, PlanApproved, Approval
    <3>3. CASE FocusedSave
      BY <2>a, <3>1, <3>3 DEF InStep, FocusedSave
    <3>4. CASE SkipOrchestration
      BY <2>a, <3>1, <3>4 DEF InStep, SkipOrchestration, Approval
    <3>5. CASE Accept
      BY <2>a, <3>1, <3>5 DEF InStep, Accept, Approval
    <3> QED
      BY <2>1, <3>2, <3>3, <3>4, <3>5
  <2>2. CASE ResumeSave \/ Lint
    BY <2>2, <2>a DEF InStep, ResumeSave, Lint
  <2>3. ASSUME NEW ids \in FirstPlans, Plan(ids) PROVE FALSE
    BY <2>3, <2>a, BoundsAssumption DEF Shape, TypeOK, Plan, NewPid
  <2>4. CASE PatchDone
    <3>1. disk'.ms = held.ms
      BY <2>4, <2>a, Files DEF PatchDone, Approval
    <3> QED
      BY <2>4, <2>a, <3>1 DEF Shape, InStep, PatchDone, Patching, Agree
  <2>5. CASE SkipCompleted
    <3>1. idx \in DOMAIN plan.ms
      BY <2>5, <2>a, Files DEF Shape, TypeOK, SkipCompleted, More
    <3> QED
      BY <2>5, <2>a, <3>1, MarkingHere DEF SkipCompleted, InStep, Agree
  <2>6. CASE MarkSave
    BY <2>6, <2>a DEF MarkSave, InStep, AgreeBut
  <2>7. CASE Brief
    <3>1. disk'.ms = disk.ms \/ disk'.ms = plan.ms
      <4>1. result \in Approval
        BY <2>a DEF Shape, TypeOK, Approval
      <4> QED
        BY <2>7, <2>a, <4>1, Files DEF Brief
    <3> QED
      BY <2>7, <2>a, <3>1 DEF Brief, InStep, Agree
  <2>8. CASE Crash
    <3>1. disk' = disk \/ disk.ms = <<>>
      BY <2>8, <2>a, NoFile DEF Crash, Shape
    <3> QED
      BY <3>1, NoFile
  <2>9. CASE Handler
    <3>1. CASE WritePlan
      <4>1. PICK a \in Approval : disk' = [hheld EXCEPT !.app = a]
        BY <3>1 DEF WritePlan, Approval
      <4>2. disk'.ms = hheld.ms /\ hheld = disk
        BY <2>a, <3>1, <4>1, Files DEF InStep, WritePlan
      <4> QED
        BY <4>2
    <3> QED
      BY <2>9, <3>1 DEF Handler, Clear, ReadPlan, Enqueue
  <2>10. CASE PatchOp \/ Client
    <3>1. UNCHANGED disk
      BY <2>10 DEF PatchOp, Client, Ask, BeginApproved, Begin, Resolve
    <3> QED
      BY <3>1
  <2>11. CASE Worker
    <3>1. \/ PlanApproved \/ FocusedSave \/ SkipOrchestration \/ Accept \/ ResumeSave \/ Lint
          \/ PatchDone \/ SkipCompleted \/ MarkSave \/ Brief
          \/ (\E ids \in FirstPlans : Plan(ids))
          \/ UNCHANGED disk
      BY <2>11
      DEF Worker, ResolveKind, Load, Reload, PlanAdjust, PlanDraft, Build, Reply, FocusedPause,
          FocusedLoad, Resume, PlanningFails, Pause, PatchRejected, AdjustmentFails,
          StartMilestone, LoopEnds, Cancelled, Raise, Passes, Blocked, GuidanceMissing, Fails,
          AsksReplan, Mark, Log, Audit
    <3> QED
      BY <2>1, <2>2, <2>3, <2>4, <2>5, <2>6, <2>7, <3>1
  <2> QED
    BY <2>8, <2>9, <2>10, <2>11 DEF Next
<1> QED
  BY <1>1, IInvAlways, PTL DEF QuietSpec, DiskKeepsDone

-----------------------------------------------------------------------------
(* The mission keeps the promises of MissionPromise.                       *)

\* A step of the detailed mission is a step of the abstract one or none;
\* outside of an execution the abstract mission is idle.
LEMMA PromiseStep ==
    IInv /\ IInv' /\ [Next /\ Quiet']_vars => [Promise!Next]_(Promise!vars)
<1> SUFFICES ASSUME IInv, IInv', [Next /\ Quiet']_vars PROVE [Promise!Next]_(Promise!vars)
  OBVIOUS
<1> DEFINE Run == IF pc = "brief" THEN result ELSE Shown("open", "idle")
           Of == Shown(plan.pid, 0)
           Milestones == Shown(IdsOf(plan.ms), {})
           Done == Shown(DoneIds(plan.ms), {})
<1>a. Shape /\ InStep /\ Shape' /\ InStep'
  BY DEF IInv
<1>b. plan \in PlanFile /\ plan' \in PlanFile
  BY <1>a DEF Shape, TypeOK
<1>c. /\ DoneIds(plan.ms) \subseteq IdsOf(plan.ms) /\ IdsOf(plan.ms) \subseteq Ids
      /\ DoneIds(plan'.ms) \subseteq IdsOf(plan'.ms) /\ IdsOf(plan'.ms) \subseteq Ids
  <2>1. plan.ms \in Seq(Milestone) /\ plan'.ms \in Seq(Milestone)
    BY <1>b, Files
  <2> QED
    BY <2>1, IdsOfMilestones
<1> USE DEF Executing, loop, cycle, handler, stored, counters, Shown
\* Steps outside of the execution of a mission.
<1>1. ASSUME pc \notin Executing, pc' \notin Executing, UNCHANGED earned
      PROVE  UNCHANGED Promise!vars
  BY <1>1 DEF Promise!vars
<1>2. ASSUME pc \in Executing, pc' = "idle", UNCHANGED earned PROVE Promise!Stop
  BY <1>2, <1>a DEF Promise!Stop, Promise!Nothing, Shape, TypeOK
\* Steps within it that leave the plan alone.
<1>3. ASSUME pc \in Executing \ {"brief"}, pc' \in Executing \ {"brief"},
             UNCHANGED <<plan, earned>>
      PROVE  UNCHANGED Promise!vars
  BY <1>3 DEF Promise!vars
<1>4. CASE Accept
  <2>1. CASE req.mode = "build"
    <3>1. pc = "accept" /\ pc' = "loop" /\ UNCHANGED earned
      BY <1>4, <2>1 DEF Accept
    <3>2. plan'.pid \in Pids
      BY <1>a, <1>b, <3>1, Files DEF Shape, Planned, Pids
    <3>3. \A x \in DoneIds(plan'.ms) : <<plan'.pid, x>> \in earned
      BY <3>1 DEF IInv, DoneIsEarned, Earned
    <3> QED
      BY <1>c, <3>1, <3>2, <3>3 DEF Promise!Open, Promise!Next
  <2>2. CASE req.mode # "build"
    BY <1>1, <1>4, <2>2 DEF Accept
  <2> QED
    BY <2>1, <2>2
<1>5. CASE PatchDone
  <2>1. CASE pc = "replan"
    <3>1. pc' = "loop" /\ UNCHANGED earned
      BY <1>5, <2>1 DEF PatchDone
    <3>2. plan'.pid = plan.pid /\ DoneIds(plan'.ms) = DoneIds(plan.ms)
      BY <1>5, <1>a, <2>1 DEF PatchDone, Shape, Patching
    <3> QED
      BY <1>c, <2>1, <3>1, <3>2 DEF Promise!Amend, Promise!Next
  <2>2. CASE pc # "replan"
    BY <1>1, <1>5, <2>2 DEF PatchDone, Patching
  <2> QED
    BY <2>1, <2>2
<1>6. CASE SkipCompleted \/ Log
  <2>1. idx \in DOMAIN plan.ms
    BY <1>6, <1>a, <1>b, Files DEF Shape, TypeOK, SkipCompleted, Log, More, AtMilestone
  <2>2. /\ Here \in Ids /\ Here \in IdsOf(plan.ms)
        /\ plan'.pid = plan.pid /\ IdsOf(plan'.ms) = IdsOf(plan.ms)
        /\ DoneIds(plan'.ms) = DoneIds(plan.ms) \cup {Here}
    BY <1>6, <1>b, <2>1, MarkingHere DEF SkipCompleted, Log
  <2>3. <<plan.pid, Here>> \in earned
    BY <1>6 DEF IInv, DoneIsEarned, SkipCompleted, Log, Remembered, Key
  <2>4. pc \in Executing \ {"brief"} /\ pc' \in Executing \ {"brief"} /\ UNCHANGED earned
    BY <1>6 DEF SkipCompleted, Log
  <2>5. Promise!Complete(Here)
    BY <2>2, <2>3, <2>4 DEF Promise!Complete
  <2> QED
    BY <2>2, <2>5 DEF Promise!Next
<1>7. CASE Passes
  <2>1. Here \in Ids /\ Here \in IdsOf(plan.ms)
    BY <1>7, <1>a, <1>b, MarkingHere DEF Shape, Passes, AtMilestone
  <2>2. Promise!Prove(Here)
    BY <1>7, <2>1 DEF Passes, Key, Promise!Prove
  <2> QED
    BY <2>1, <2>2 DEF Promise!Next
<1>8. CASE Audit
  <2>1. /\ pc = "audit" /\ pc' = "brief" /\ UNCHANGED <<plan, earned>>
        /\ result' \in Promise!Ends
    BY <1>8 DEF Audit, Promise!Ends
  <2>2. result' = "completed" => ~Pending(plan.ms)
    BY <1>8 DEF Audit, AllPassed
  <2>3. result' = "completed" => DoneIds(plan.ms) = IdsOf(plan.ms)
    BY <2>2 DEF Pending, DoneIds, IdsOf
  <2>4. Promise!Report(result')
    BY <2>1, <2>3 DEF Promise!Report
  <2> QED
    BY <2>1, <2>4 DEF Promise!Next
<1>9. CASE UNCHANGED vars
  BY <1>9 DEF vars, Promise!vars
<1>10. CASE Client \/ PatchOp \/ Handler
  <2>1. CASE \E r \in Requests : Ask(r)
    BY <1>1, <2>1 DEF Ask, Begin
  <2>2. CASE BeginApproved
    BY <1>1, <2>2 DEF BeginApproved, Begin
  <2>3. CASE PatchOp \/ Handler \/ \E answer \in Answers : Resolve(answer)
    <3>1. UNCHANGED <<pc, plan, result, earned>>
      BY <2>3 DEF PatchOp, Handler, Clear, ReadPlan, WritePlan, Enqueue, Resolve
    <3> QED
      BY <3>1 DEF Promise!vars
  <2> QED
    BY <1>10, <2>1, <2>2, <2>3 DEF Client
<1>11. CASE Worker \/ Crash
  <2>1. \/ Accept \/ PatchDone \/ SkipCompleted \/ Log \/ Passes \/ Audit
        \/ pc' = "idle" /\ UNCHANGED earned
        \/ pc \notin Executing /\ pc' \notin Executing /\ UNCHANGED earned
        \/ /\ pc \in Executing \ {"brief"} /\ pc' \in Executing \ {"brief"}
           /\ UNCHANGED <<plan, earned>>
    BY <1>11
    DEF Worker, ResolveKind, Load, PlanApproved, Reload, PlanAdjust, PlanDraft, Build,
        SkipOrchestration, Reply, FocusedSave, FocusedPause, FocusedLoad, Resume, ResumeSave,
        PlanningFails, Plan, Lint, Pause, PatchRejected, AdjustmentFails, StartMilestone,
        LoopEnds, Cancelled, Raise, Blocked, Halt, Retry, GuidanceMissing, Fails, AsksReplan,
        Mark, MarkSave, Brief, ResetWorker, Crash
  <2> QED
    BY <1>1, <1>2, <1>3, <1>4, <1>5, <1>6, <1>7, <1>8, <2>1 DEF Promise!Next
<1> QED
  BY <1>9, <1>10, <1>11 DEF Next

\* Executing a mission is what MissionPromise
\* describes: milestones are completed after they are proven for that plan,
\* replans keep the completed ones, and "completed" is said of whole plans.
THEOREM MissionsKeepTheirPromise == QuietSpec => KeepsPromise
<1>1. Init => Promise!Init
  BY DEF Init, Promise!Init, Shown, Executing
<1>2. IInv /\ IInv' /\ [Next /\ Quiet']_vars => [Promise!Next]_(Promise!vars)
  BY PromiseStep
<1> QED
  BY <1>1, <1>2, IInvAlways, PTL DEF QuietSpec, Promise!Spec, KeepsPromise
=============================================================================
