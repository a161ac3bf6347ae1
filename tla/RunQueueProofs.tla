--------------------------- MODULE RunQueueProofs ---------------------------
(***************************************************************************)
(* Proofs about RunQueue, for any set of runs and sessions and any number  *)
(* of restarts.  IInv of RunQueue is inductive: it adds to the safety      *)
(* invariants where each run is, which token the worker still has to see,  *)
(* and what was promised to a client.  The serial executor is implemented  *)
(* because IInv holds before and after every step.                         *)
(***************************************************************************)
EXTENDS RunQueue, TLAPS

-----------------------------------------------------------------------------
(* Facts about the queue, a sequence without repetitions.                  *)

\* Appending a new element keeps a sequence free of repetitions.
LEMMA AppendFacts ==
    ASSUME NEW S, NEW q \in Seq(S), NEW e \in S
    PROVE  /\ Append(q, e) \in Seq(S)
           /\ Range(Append(q, e)) = Range(q) \cup {e}
           /\ Distinct(q) /\ e \notin Range(q) => Distinct(Append(q, e))
<1> DEFINE a == Append(q, e)
<1>1. /\ a \in Seq(S) /\ DOMAIN a = 1..(Len(q) + 1) /\ DOMAIN q = 1..Len(q) /\ Len(q) \in Nat
      /\ \A i \in 1..Len(q) : a[i] = q[i]
      /\ a[Len(q) + 1] = e
  OBVIOUS
<1> HIDE DEF a
<1>2. \A i \in DOMAIN a : i \in DOMAIN q \/ i = Len(q) + 1
  BY <1>1
<1>3. Range(a) = Range(q) \cup {e}
  BY <1>1, <1>2 DEF Range
<1>4. Distinct(q) /\ e \notin Range(q) => Distinct(a)
  BY <1>1, <1>2 DEF Range, Distinct
<1> QED
  BY <1>1, <1>3, <1>4 DEF a

\* The head of such a sequence is not in its tail.
LEMMA TailFacts ==
    ASSUME NEW S, NEW q \in Seq(S), q # <<>>
    PROVE  /\ Head(q) \in S /\ Tail(q) \in Seq(S)
           /\ Range(q) = Range(Tail(q)) \cup {Head(q)}
           /\ Distinct(q) => Head(q) \notin Range(Tail(q)) /\ Distinct(Tail(q))
<1> DEFINE t == Tail(q)
<1>1. /\ t \in Seq(S) /\ Head(q) \in S /\ Head(q) = q[1]
      /\ DOMAIN q = 1..Len(q) /\ Len(q) \in Nat \ {0} /\ DOMAIN t = 1..(Len(q) - 1)
      /\ \A i \in 1..(Len(q) - 1) : t[i] = q[i + 1]
  OBVIOUS
<1> HIDE DEF t
<1>2. \A i \in DOMAIN q : i = 1 \/ (i - 1 \in DOMAIN t /\ q[i] = t[i - 1])
  BY <1>1
<1>3. Range(t) \subseteq Range(q) /\ Head(q) \in Range(q)
  BY <1>1 DEF Range
<1>4. Range(q) \subseteq Range(t) \cup {Head(q)}
  BY <1>1, <1>2 DEF Range
<1>5. Distinct(q) => Head(q) \notin Range(t) /\ Distinct(t)
  <2> SUFFICES ASSUME Distinct(q) PROVE Head(q) \notin Range(t) /\ Distinct(t)
    OBVIOUS
  <2>1. \A i \in DOMAIN t : i + 1 \in DOMAIN q /\ t[i] = q[i + 1] /\ i + 1 # 1 /\ 1 \in DOMAIN q
    BY <1>1
  <2>2. Head(q) \notin Range(t)
    BY <1>1, <2>1 DEF Range, Distinct
  <2>3. ASSUME NEW i \in DOMAIN t, NEW j \in DOMAIN t, t[i] = t[j] PROVE i = j
    <3>1. i + 1 = j + 1
      BY <2>1, <2>3 DEF Distinct
    <3> QED
      BY <3>1, <1>1
  <2> QED
    BY <2>2, <2>3 DEF Distinct
<1> QED
  BY <1>1, <1>3, <1>4, <1>5 DEF t

-----------------------------------------------------------------------------
(* The inductive invariant.                                                *)

\* Every step of the two threads and of the process preserves IInv, from
\* which all the safety invariants of the queue follow.
LEMMA IInvStep == IInv /\ [Next]_vars => IInv'
<1> SUFFICES ASSUME IInv, [Next]_vars PROVE IInv'
  OBVIOUS
<1>0. Range(queue) \subseteq Runs
  BY DEF IInv, TypeOK, Range
<1> USE <1>0, NoRunAssumption, SessionOfAssumption, OutcomesAssumption
<1> USE DEF IInv, TypeOK, Safety, ControlInv, QueueInv, RecordInv, PromiseInv,
            NoLostRun, RunningIsExecuting, CancelledStaysBlocked, PersistedOrPending,
            NoOrphanOnDisk, CancelReceiptHolds, Promised,
            Terminal, Live, Status, SessionStatus, Lines, WorkerPC, HandlerPC,
            Idle, Over, Accepted, Revoking, Settling, Deciding, Executing,
            process, registry, worker, handler, Running, Go, At, Step, Return,
            Accepting, Unused, Say, Save
<1>1. ASSUME NEW r \in Runs, PostMessage(r) PROVE IInv'
  BY <1>1 DEF PostMessage
<1>2. CASE SaveMeta
  BY <1>2 DEF SaveMeta
<1>3. ASSUME NEW r \in Runs, PostRun(r) PROVE IInv'
  BY <1>3 DEF PostRun
<1>4. CASE Create
  BY <1>4 DEF Create
<1>5. CASE Put
  BY AppendFacts, <1>5 DEF Put
<1>6. CASE UserLine
  BY <1>6 DEF UserLine
<1>7. ASSUME NEW r \in Runs, Cancel(r) PROVE IInv'
  BY <1>7 DEF Cancel
<1>8. CASE CancelRequest
  BY <1>8 DEF CancelRequest
<1>9. CASE CancelReadQueued
  BY <1>9 DEF CancelReadQueued
<1>10. CASE CancelReadRunning
  BY <1>10 DEF CancelReadRunning
<1>11. CASE CancelReadActive
  BY <1>11 DEF CancelReadActive
<1>12. CASE CancelMark
  BY <1>12 DEF CancelMark
<1>13. CASE CancelSave
  BY <1>13 DEF CancelSave
<1>14. CASE CancelPause
  BY <1>14 DEF CancelPause
<1>15. CASE CancelLine
  <2> USE <1>15 DEF CancelLine
  <2>1. TypeOK' /\ ControlInv' /\ QueueInv' /\ RecordInv'
    OBVIOUS
  <2>2. Safety'
    OBVIOUS
  <2>3. PromiseInv'
    <3>1. \A r \in Runs : Promised(r)' => Promised(r)
      OBVIOUS
    <3>2. \A r \in Runs : "summary" \in chat'[r] => "summary" \in chat[r]
      OBVIOUS
    <3> QED BY <3>1, <3>2
  <2> QED BY <2>1, <2>2, <2>3
<1>16. ASSUME NEW r \in Runs, GetRun(r) PROVE IInv'
  <2> USE <1>16 DEF GetRun, Load
  <2>1. TypeOK' /\ ControlInv' /\ QueueInv'
    OBVIOUS
  <2>2. Safety'
    OBVIOUS
  <2>3. PromiseInv' /\ RecordInv'
    OBVIOUS
  <2> QED BY <2>1, <2>2, <2>3
<1>17. ASSUME NEW s \in Sessions, ListRuns(s) PROVE IInv'
  <2> USE <1>17 DEF ListRuns, Load, OnDisk, Index
  <2>1. TypeOK' /\ ControlInv' /\ QueueInv'
    OBVIOUS
  <2>2. Safety'
    OBVIOUS
  <2>3. PromiseInv' /\ RecordInv'
    OBVIOUS
  <2> QED BY <2>1, <2>2, <2>3
<1>18. CASE LoopTest
  BY <1>18 DEF LoopTest
<1>19. CASE Take
  <2> USE <1>19 DEF Take
  <2>1. CASE queue = <<>>
    BY <2>1
  <2>2. CASE queue # <<>>
    <3> DEFINE h == Head(queue)
    <3>0. /\ wrun' = Head(queue) /\ queue' = Tail(queue)
          /\ wpc' = "check" /\ wres' = "none" /\ wpc = "get"
      BY <2>2
    <3>1. /\ h \in Runs /\ queue' \in Seq(Runs) /\ h \notin Range(queue')
          /\ Range(queue) = Range(queue') \cup {h} /\ Distinct(queue')
      BY <2>2, <3>0, TailFacts
    <3>6. wrun' = h
      BY <3>0
    <3> HIDE DEF h
    <3>2. TypeOK' /\ ControlInv' /\ QueueInv'
       BY <3>0, <3>1, <3>6
    <3>3. Safety'
      BY <3>0, <3>1, <3>6
    <3>4. PromiseInv'
      BY <3>0, <3>1, <3>6
    <3>5. RecordInv'
      BY <3>0, <3>1, <3>6
    <3> QED BY <3>2, <3>3, <3>4, <3>5
  <2> QED BY <2>1, <2>2
<1>20. CASE CheckToken
  BY <1>20 DEF CheckToken
<1>21. CASE Skip
  BY <1>21 DEF Skip
<1>22. CASE Mark
  BY <1>22 DEF Mark
<1>23. CASE WorkerSave
  BY <1>23 DEF WorkerSave
<1>24. CASE SetActive
  BY <1>24 DEF SetActive
<1>25. CASE Begin
  BY <1>25 DEF Begin
<1>26. CASE Body
  BY <1>26 DEF Body, MetaAfter
<1>27. CASE Raise
  BY SMTT(30), <1>27 DEF Raise
<1>28. CASE Settle
  BY <1>28 DEF Settle
<1>29. CASE SettleSet
  BY <1>29 DEF SettleSet
<1>30. CASE WorkerLine
  BY <1>30 DEF WorkerLine
<1>31. CASE ClearActive
  BY <1>31 DEF ClearActive
<1>32. CASE ClearToken
  <2> USE <1>32 DEF ClearToken
  <2>1. TypeOK' /\ ControlInv' /\ QueueInv'
    OBVIOUS
  <2>2. Safety'
    OBVIOUS
  <2>3. PromiseInv'
    OBVIOUS
  <2>4. RecordInv'
    OBVIOUS
  <2> QED BY <2>1, <2>2, <2>3, <2>4
<1>33. CASE Shutdown
  BY <1>33 DEF Shutdown
<1>34. CASE Exit
  <2> USE <1>34 DEF Exit, BeingWritten
  <2>1. Range(queue') = {} /\ Distinct(queue')
    BY DEF Range, Distinct
  <2>2. TypeOK' /\ ControlInv' /\ QueueInv' /\ RecordInv'
    BY <2>1
  <2>3. Safety' /\ PromiseInv'
    BY <2>1
  <2> QED
    BY <2>2, <2>3
<1>35. CASE Start
  BY <1>35, BootsAssumption DEF Start
<1>36. CASE Listen
  BY <1>36 DEF Listen, Stale
<1>37. ASSUME NEW r \in Runs, ReconcileRun(r) PROVE IInv'
  BY <1>37 DEF ReconcileRun, Stale
<1>38. ASSUME NEW s \in Sessions, ReconcileSession(s) PROVE IInv'
  BY <1>38 DEF ReconcileSession
<1>39. CASE ExitBooting
  <2> USE <1>39 DEF ExitBooting
  <2>1. TypeOK' /\ ControlInv'
    OBVIOUS
  <2>2. Safety'
    OBVIOUS
  <2>3. PromiseInv'
    OBVIOUS
  <2>4. RecordInv'
    OBVIOUS
  <2>5. QueueInv'
    OBVIOUS
  <2> QED BY <2>1, <2>2, <2>3, <2>4, <2>5
<1>40. CASE UNCHANGED vars
  BY <1>40 DEF vars
<1> QED
  BY <1>1, <1>2, <1>3, <1>4, <1>5, <1>6, <1>7, <1>8, <1>9,
     <1>10, <1>11, <1>12, <1>13, <1>14, <1>15, <1>16, <1>17, <1>18,
     <1>19, <1>20, <1>21, <1>22, <1>23, <1>24, <1>25, <1>26, <1>27,
     <1>28, <1>29, <1>30, <1>31, <1>32, <1>33, <1>34, <1>35, <1>36,
     <1>37, <1>38, <1>39, <1>40
  DEF Next, Client, HandlerStep, Worker, Process, Boot

\* IInv holds in every reachable state.
LEMMA IInvAlways == Spec => []IInv
<1>1. Init => IInv
  BY NoRunAssumption, BootsAssumption
  DEF Init, IInv, TypeOK, Safety, ControlInv, QueueInv, RecordInv, PromiseInv,
      NoLostRun, RunningIsExecuting, CancelledStaysBlocked, PersistedOrPending,
      NoOrphanOnDisk, CancelReceiptHolds, Promised, Distinct, Range, Unused, Running,
      Terminal, Live, Status, SessionStatus, Lines, WorkerPC, HandlerPC,
      Idle, Over, Accepted, Revoking, Settling, Deciding, Executing
<1> QED
  BY <1>1, IInvStep, PTL DEF Spec

\* The variables keep their types.
THEOREM TypeCorrect == Spec => []TypeOK
BY IInvAlways, PTL DEF IInv

\* A run seen as queued is on its way to the worker, and a run seen as
\* running is the one being executed.
THEOREM RunsAreAccountedFor == Spec => [](NoLostRun /\ RunningIsExecuting)
BY IInvAlways, PTL DEF IInv, Safety

\* A cancellation is not forgotten before the worker has seen it, and a run
\* reported as never started gets no result.
THEOREM CancellationHolds == Spec => [](CancelledStaysBlocked /\ CancelReceiptHolds)
BY IInvAlways, PTL DEF IInv, Safety

\* The files agree with memory up to a pending save.
THEOREM DiskAgrees == Spec => []PersistedOrPending
BY IInvAlways, PTL DEF IInv, Safety

\* A server that listens has settled every orphan an earlier process left on
\* disk (run_queue.py:194-246), whenever that process died.
THEOREM NoOrphans == Spec => []NoOrphanOnDisk
BY IInvAlways, PTL DEF IInv, Safety

-----------------------------------------------------------------------------
(* RunQueue implements SerialExecutor.                                     *)

\* Putting an element back at the head of a sequence.
LEMMA ConsFacts ==
    ASSUME NEW S, NEW q \in Seq(S), NEW e \in S
    PROVE  /\ <<e>> \o q \in Seq(S) /\ <<e>> \o q # <<>>
           /\ Head(<<e>> \o q) = e /\ Tail(<<e>> \o q) = q
           /\ Range(<<e>> \o q) = Range(q) \cup {e}
           /\ <<e>> \o <<>> = <<e>>
<1> DEFINE c == <<e>> \o q
<1>1. /\ c \in Seq(S) /\ Len(c) = Len(q) + 1 /\ DOMAIN c = 1..(Len(q) + 1)
      /\ DOMAIN q = 1..Len(q) /\ Len(q) \in Nat
      /\ c[1] = e /\ \A i \in 1..Len(q) : c[i + 1] = q[i]
  OBVIOUS
<1>2. c # <<>> /\ Head(c) = e /\ Tail(c) = q
  OBVIOUS
<1>3. Range(c) = Range(q) \cup {e}
  <2> HIDE DEF c
  <2>1. \A i \in DOMAIN c : i = 1 \/ (i - 1 \in DOMAIN q /\ c[i] = q[i - 1])
    BY <1>1
  <2>2. \A i \in DOMAIN q : i + 1 \in DOMAIN c /\ 1 \in DOMAIN c
    BY <1>1
  <2> QED
    BY <1>1, <2>1, <2>2 DEF Range
<1>4. <<e>> \o <<>> = <<e>>
  OBVIOUS
<1> QED
  BY <1>1, <1>2, <1>3, <1>4

\* Taking the head off a sequence and putting it back.
LEMMA HeadTail ==
    ASSUME NEW S, NEW q \in Seq(S), q # <<>>
    PROVE  <<Head(q)>> \o Tail(q) = q
OBVIOUS

\* A step about one run is a step of the executor.
LEMMA JobSteps ==
    \A r \in Runs : Executor!Submit(r) \/ Executor!Ask(r) \/ Executor!Tell(r) => Executor!Next
BY DEF Executor!Next

\* Each step of the queue is a step of the executor or leaves it alone.
LEMMA ExecutorStep == IInv /\ IInv' /\ [Next]_vars => [Executor!Next]_(Executor!executor)
<1> SUFFICES ASSUME IInv, IInv', [Next]_vars PROVE [Executor!Next]_(Executor!executor)
  OBVIOUS
<1>0. Range(queue) \subseteq Runs /\ Range(queue') \subseteq Runs
  BY DEF IInv, TypeOK, Range
<1>a. wpc \in {"check", "skip"} => Range(Pending) = Range(queue) \cup {wrun}
  BY ConsFacts DEF IInv, TypeOK, Pending, ControlInv, Idle
<1>b. wpc' \in {"check", "skip"} => Range(Pending') = Range(queue') \cup {wrun'}
  BY ConsFacts DEF IInv, TypeOK, Pending, ControlInv, Idle
<1> USE <1>0, <1>a, <1>b, NoRunAssumption, SessionOfAssumption, OutcomesAssumption
<1> USE DEF IInv, TypeOK, Safety, ControlInv, QueueInv, RecordInv, PromiseInv,
            CancelledStaysBlocked, PersistedOrPending,NoLostRun,
            NoOrphanOnDisk, Promised,
            Terminal, Live, Status, WorkerPC, HandlerPC,
            Idle, Over, Accepted, Revoking, Settling, Deciding, Executing,
            process, registry, worker, handler, Running, Go, At, Step, Return,
            Accepting, Unused, Say, Save
<1>1. ASSUME NEW r \in Runs, PostMessage(r) \/ PostRun(r) \/ Cancel(r) \/ GetRun(r)
     PROVE  UNCHANGED Executor!executor
  BY <1>1
  DEF PostMessage, PostRun, Cancel, GetRun, Load,
      Executor!executor, Pending, Current, Gone
<1>2. ASSUME NEW s \in Sessions, ListRuns(s)
     PROVE  UNCHANGED Executor!executor
  BY <1>2
  DEF ListRuns, Load, OnDisk, Index,
      Executor!executor, Pending, Current, Gone
<1>3. ASSUME SaveMeta \/ Create \/ UserLine \/ CancelSave \/ CancelPause \/ CancelLine
     PROVE  UNCHANGED Executor!executor
  BY <1>3
  DEF SaveMeta, Create, UserLine, CancelSave, CancelPause, CancelLine,
      Executor!executor, Pending, Current, Gone
<1>4. ASSUME CancelReadQueued \/ CancelReadRunning \/ CancelReadActive
     PROVE  UNCHANGED Executor!executor
  BY <1>4
  DEF CancelReadQueued, CancelReadRunning, CancelReadActive,
      Executor!executor, Pending, Current, Gone
<1>5. ASSUME LoopTest \/ Mark \/ WorkerSave \/ SetActive \/ Begin \/ Body
     PROVE  UNCHANGED Executor!executor
  BY <1>5
  DEF LoopTest, Mark, WorkerSave, SetActive, Begin, Body,
      Executor!executor, Pending, Current, Gone
<1>6. ASSUME Raise \/ Settle \/ SettleSet \/ WorkerLine \/ ClearActive
     PROVE  UNCHANGED Executor!executor
  BY <1>6
  DEF Raise, Settle, SettleSet, WorkerLine, ClearActive,
      Executor!executor, Pending, Current, Gone
<1>7. ASSUME Shutdown \/ Start \/ Listen \/ ExitBooting
     PROVE  UNCHANGED Executor!executor
  BY <1>7
  DEF Shutdown, Start, Listen, ExitBooting,
      Executor!executor, Pending, Current, Gone
<1>8. ASSUME NEW r \in Runs, ReconcileRun(r)
     PROVE  UNCHANGED Executor!executor
  BY <1>8
  DEF ReconcileRun,
      Executor!executor, Pending, Current, Gone
<1>9. ASSUME NEW s \in Sessions, ReconcileSession(s)
     PROVE  UNCHANGED Executor!executor
  BY <1>9
  DEF ReconcileSession,
      Executor!executor, Pending, Current, Gone
<1>10. ASSUME NEW r \in Runs, hrun = r, Put PROVE Executor!Submit(r)
  <2>1. Pending' = Append(Pending, r)
    BY <1>10, ConsFacts DEF Put, Pending
  <2>2. r \in Runs /\ r \notin Range(Pending) /\ Current # r /\ r \notin Gone
    BY <1>10 DEF Put, Pending, Current, Gone
  <2>3. Range(Pending') = Range(Pending) \cup {r}
    BY <1>10, AppendFacts DEF Put, Pending
  <2>4. r \notin tokens /\ rec[r] # "cancelled"
    BY <1>10 DEF Put
  <2>5. Current' = Current /\ Gone' = Gone
    BY <1>10, <2>2, <2>3 DEF Put, Current, Gone
  <2>6. UNCHANGED <<Range(Pending) \cap tokens, {q \in Range(Pending) : rec[q] = "cancelled"}>>
    BY <1>10, <2>3, <2>4 DEF Put
  <2> QED
    BY <2>1, <2>2, <2>5, <2>6 DEF Executor!Submit, Executor!Fresh, Executor!Waiting, Range
<1>11. ASSUME NEW r \in Runs, hrun = r, CancelRequest PROVE [Executor!Next]_(Executor!executor)
  <2>1. Pending' = Pending /\ Current' = Current /\ Gone' = Gone
    BY <1>11 DEF CancelRequest, Pending, Current, Gone
  <2>2. UNCHANGED {q \in Range(Pending) : rec[q] = "cancelled"}
    BY <1>11, <2>1 DEF CancelRequest
  <2>3. CASE r \in Range(Pending)
    <3>1. Executor!Ask(r)
      BY <1>11, <2>1, <2>2, <2>3 DEF CancelRequest, Executor!Ask, Executor!Waiting, Range
    <3> QED
      BY <3>1, JobSteps
  <2>4. CASE r \notin Range(Pending)
    BY <1>11, <2>1, <2>2, <2>4 DEF CancelRequest, Executor!executor
  <2> QED
    BY <2>3, <2>4
<1>12. ASSUME NEW r \in Runs, hrun = r, CancelMark PROVE [Executor!Next]_(Executor!executor)
  <2>1. Pending' = Pending /\ Current' = Current /\ Gone' = Gone /\ tokens' = tokens
    BY <1>12 DEF CancelMark, Pending, Current, Gone
  <2>2. Range(Pending) \subseteq Runs /\ r \in Runs
    BY <1>12 DEF CancelMark, Pending
  <2>3. CASE r \in Range(Pending)
    <3>1. r \in tokens
      BY <1>12, <2>3 DEF CancelMark, Pending
    <3>2. {q \in Range(Pending') : rec'[q] = "cancelled"}
            = {q \in Range(Pending) : rec[q] = "cancelled"} \cup {r}
      BY <1>12, <2>1, <2>2, <2>3 DEF CancelMark
    <3>3. Executor!Tell(r)
      BY <2>1, <2>3, <3>1, <3>2 DEF Executor!Tell
    <3> QED
      BY <3>3, JobSteps
  <2>4. CASE r \notin Range(Pending)
    <3>1. UNCHANGED {q \in Range(Pending) : rec[q] = "cancelled"}
      BY <1>12, <2>1, <2>2, <2>4 DEF CancelMark
    <3> QED
      BY <2>1, <3>1 DEF Executor!executor
  <2> QED
    BY <2>3, <2>4
<1>13. ASSUME Take PROVE UNCHANGED Executor!executor
  <2>1. CASE queue = <<>>
    BY <1>13, <2>1 DEF Take, Executor!executor, Pending, Current, Gone
  <2>2. CASE queue # <<>>
    <3>1. wpc = "get" /\ wpc' = "check" /\ wrun' = Head(queue) /\ queue' = Tail(queue)
      BY <1>13, <2>2 DEF Take
    <3>2. <<Head(queue)>> \o Tail(queue) = queue
      <4>1. queue \in Seq(Runs)
        OBVIOUS
      <4> QED
        BY ONLY <4>1, <2>2, HeadTail
    <3>3. Pending = queue /\ Pending' = <<wrun'>> \o queue'
      BY ONLY <3>1 DEF Pending
    <3>4. Pending' = Pending
      BY ONLY <3>1, <3>2, <3>3
    <3> QED
      BY <1>13, <2>2, <3>4 DEF Take, Executor!executor, Current, Gone
  <2> QED
    BY <2>1, <2>2
<1>14. ASSUME CheckToken PROVE [Executor!Next]_(Executor!executor)
  <2>0. /\ Pending = <<wrun>> \o queue /\ Current = NoRun
        /\ UNCHANGED <<rec, disk, tokens, queue, wrun, hpc, hrun>> /\ wrun \in Runs
    BY <1>14 DEF CheckToken, Pending, Current
  <2>1. CASE wrun \in tokens
    BY <1>14, <2>1 DEF CheckToken, Executor!executor, Pending, Current, Gone
  <2>2. CASE wrun \notin tokens
    <3>1. Head(Pending) = wrun /\ Tail(Pending) = queue /\ Pending # <<>>
      BY <2>0, ConsFacts
    <3>2. Pending' = queue /\ Current' = wrun
      BY <1>14, <2>2 DEF CheckToken, Pending, Current
    <3>3. Range(Pending) = Range(queue) \cup {wrun}
      BY <1>14 DEF CheckToken
    <3>4. rec[wrun] # "cancelled"
      BY <1>14, <2>2 DEF CheckToken
    <3>5. Gone' = Gone
      BY <2>0, <3>2, <3>3 DEF Gone
    <3>6. UNCHANGED <<Range(Pending) \cap tokens, {r \in Range(Pending) : rec[r] = "cancelled"}>>
      BY <2>0, <2>2, <3>2, <3>3, <3>4
    <3>7. Executor!Start
      BY <2>0, <2>2, <3>1, <3>2, <3>5, <3>6 DEF Executor!Start
    <3> QED
      BY <3>7 DEF Executor!Next
  <2> QED
    BY <2>1, <2>2
<1>15. ASSUME Skip PROVE [Executor!Next]_(Executor!executor)
  <2>0. /\ Pending = <<wrun>> \o queue /\ Current = NoRun
        /\ UNCHANGED <<disk, tokens, queue, wrun, hpc, hrun>> /\ wrun \in Runs
        /\ Pending' = queue /\ Current' = NoRun
    BY <1>15 DEF Skip, Pending, Current
  <2>1. Head(Pending) = wrun /\ Tail(Pending) = queue /\ Pending # <<>>
    BY <2>0, ConsFacts
  <2>2. Range(Pending) = Range(queue) \cup {wrun} /\ wrun \notin Range(queue) /\ wrun \in tokens
    BY <1>15 DEF Skip
  <2>3. Gone' = Gone \cup {wrun}
    BY <1>15, <2>0, <2>2 DEF Skip, Gone
  <2>4. Range(Pending') \cap tokens' = (Range(Pending) \cap tokens) \ {wrun}
    BY <2>0, <2>2
  <2>5. {r \in Range(Pending') : rec'[r] = "cancelled"}
          = {r \in Range(Pending) : rec[r] = "cancelled"} \ {wrun}
    BY <1>15, <2>0, <2>2 DEF Skip
  <2>6. Executor!Drop
    BY <2>0, <2>1, <2>2, <2>3, <2>4, <2>5 DEF Executor!Drop
  <2> QED
    BY <2>6 DEF Executor!Next
<1>16. ASSUME ClearToken PROVE [Executor!Next]_(Executor!executor)
  <2>0. Pending' = Pending /\ Pending = queue /\ wrun \notin Range(queue) /\ rec' = rec
    BY <1>16 DEF ClearToken, Pending
  <2>1. UNCHANGED <<Range(Pending) \cap tokens, {r \in Range(Pending) : rec[r] = "cancelled"}>>
    BY <1>16, <2>0 DEF ClearToken
  <2>2. CASE wpc = "skip_clear"
    BY <1>16, <2>0, <2>1, <2>2 DEF ClearToken, Executor!executor, Current, Gone
  <2>3. CASE wpc = "clear_token"
    <3>1. Current = wrun /\ Current' = NoRun /\ wrun \in Runs
      BY <1>16, <2>3 DEF ClearToken, Current
    <3>2. Gone' = Gone \cup {wrun}
      BY <1>16, <2>0, <2>3, <3>1 DEF ClearToken, Gone
    <3>3. Executor!Finish
      BY <2>0, <2>1, <3>1, <3>2 DEF Executor!Finish
    <3> QED
      BY <3>3 DEF Executor!Next
  <2> QED
    BY <1>16, <2>2, <2>3 DEF ClearToken
<1>17. ASSUME Exit PROVE [Executor!Next]_(Executor!executor)
  <2>1. Pending' = <<>> /\ Current' = NoRun /\ Range(<<>>) = {}
    BY <1>17 DEF Exit, Pending, Current, Range
  <2>2. Range(Pending') \cap tokens' = {} /\ {r \in Range(Pending') : rec'[r] = "cancelled"} = {}
    BY <2>1
  <2>3. Gone' = {r \in Runs : disk'[r] # "absent"}
    BY <1>17, <2>1 DEF Exit, Gone
  <2> DEFINE lost == {r \in Gone' : Executor!Fresh(r)}
  <2>4. \A r \in Runs : disk[r] # "absent" => disk'[r] # "absent"
    BY <1>17 DEF Exit
  <2>5. Gone \cup Range(Pending) \cup ({Current} \cap Runs) \subseteq Gone'
    BY <2>3, <2>4 DEF Gone, Pending, Current
  <2>6. Gone' = Gone \cup lost \cup Range(Pending) \cup ({Current} \cap Runs)
    BY <2>3, <2>5 DEF Executor!Fresh, Executor!Waiting, Range
  <2>7. lost \in SUBSET {r \in Runs : Executor!Fresh(r)}
    BY <2>3
  <2>8. Executor!Restart
    BY <2>1, <2>2, <2>6, <2>7 DEF Executor!Restart, Executor!Waiting, Range
  <2> QED
    BY <2>8 DEF Executor!Next
<1>18. CASE UNCHANGED vars
  BY <1>18 DEF vars, Executor!executor, Pending, Current, Gone
<1>19. HandlerStep => \E r \in Runs : hrun = r
  BY DEF HandlerStep, SaveMeta, Create, Put, UserLine, CancelRequest, CancelReadQueued,
         CancelReadRunning, CancelReadActive, CancelMark, CancelSave, CancelPause, CancelLine
<1>20. CASE HandlerStep
  BY ONLY <1>3, <1>4, <1>10, <1>11, <1>12, <1>19, <1>20, JobSteps DEF HandlerStep
<1>21. CASE Client
  BY ONLY <1>1, <1>2, <1>21 DEF Client
<1>22. CASE Worker
  BY ONLY <1>5, <1>6, <1>13, <1>14, <1>15, <1>16, <1>22 DEF Worker
<1>23. CASE Process
  BY ONLY <1>7, <1>8, <1>9, <1>17, <1>23 DEF Process, Boot
<1> QED
  BY ONLY <1>18, <1>20, <1>21, <1>22, <1>23, [Next]_vars DEF Next

\* The queue, whatever the interleaving of handlers, worker, crashes and
\* restarts, is a serial executor: in order, one at a time, at most once,
\* and never a run that was revoked while it waited.
THEOREM Refinement == Spec => ImplementsSerialExecutor
<1>1. Init => Executor!Init
  BY NoRunAssumption
  DEF Init, Executor!Init, Pending, Current, Gone, Executing, Deciding, WorkerPC, Range
<1> QED
  BY <1>1, ExecutorStep, IInvAlways, PTL DEF Spec, Executor!Spec, ImplementsSerialExecutor
=============================================================================
