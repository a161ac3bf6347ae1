---------------------------- MODULE FocusedProofs ----------------------------
(***************************************************************************)
(* Theorems about the runs that are no planned mission: a mission builds    *)
(* what was asked for and takes the brief of its own attempt with it, the   *)
(* answers a decision offers can be carried out, and completed means        *)
(* verified.  They hold for any files, requests, budgets and numbers of     *)
(* runs, whenever clients answer and wherever a run is stopped.             *)
(***************************************************************************)
EXTENDS FocusedRoutes, TLAPS

-----------------------------------------------------------------------------
(* What the steps with several outcomes do                                 *)

RunFields == {"at", "no", "job", "packet", "kind", "route", "fix", "prev", "readOnly",
              "calls", "invalid", "milestone", "handoff", "evidence"}
PlanFields == {"job", "left", "state"}

\* The fields of a run and of a plan.
Shape ==
  /\ DOMAIN plan = PlanFields
  /\ Working => DOMAIN run = RunFields /\ DOMAIN run.prev = PlanFields

\* The run goes on elsewhere, with another milestone perhaps.
MovesTo(places) ==
  /\ run'.at \in places
  /\ DOMAIN run' = DOMAIN run
  /\ \A f \in DOMAIN run \ {"at", "milestone", "calls", "invalid"} : run'[f] = run[f]
  /\ run'.at = "fixing" => run'.milestone # NoMilestone
  /\ UNCHANGED session

\* The run ends with a question; a fix is only offered with a milestone.
Asking ==
  /\ run'.at = "over" /\ run'.status = "awaiting_decision"
  /\ "apply_fix" \in decision'.options => decision'.milestone # NoMilestone
  /\ UNCHANGED plan

LEMMA FullIsSome == \A files : Full(files) # NoMilestone /\ Bare(files) # NoMilestone
BY DEF Full, Bare, NoMilestone

LEMMA PauseAsks ==
  ASSUME NEW type, NEW options, NEW milestone, NEW touched,
         Pause(type, options, milestone, touched),
         "apply_fix" \in options => milestone # NoMilestone
  PROVE  Asking
BY DEF Pause, End, Asking

\* A hotfix without files is no hotfix: nothing is merged without a brief.
LEMMA RouteMoves ==
  ASSUME Shape, Route
  PROVE  MovesTo({"planning", "reviewing", "fixing"})
<1> USE DEF Shape, RunFields, Working, MovesTo
<1>1. CASE run.kind = "resume"
  BY <1>1 DEF Route
<1>2. CASE run.kind # "resume"
  <2>1. PICK asked \in Asked, report \in Reports :
          LET route == NormalizeRoute(report, asked) IN
          run' = [run EXCEPT
                    !.at = CASE route = "mission" -> "planning"
                             [] route = "review" -> "reviewing"
                             [] route = "hotfix" ->
                                  IF report.files = {} THEN "merging" ELSE "fixing",
                    !.milestone = IF route = "hotfix" THEN Full(report.files) ELSE @]
    BY ZenonT(40), <1>2 DEF Route, Reports
  <2>2. NormalizeRoute(report, asked) \in {"mission", "review", "hotfix"}
    BY <2>1 DEF NormalizeRoute, Reports, NoReport
  <2>3. NormalizeRoute(report, asked) = "hotfix" => report.files # {}
    BY DEF NormalizeRoute
  <2>4. /\ run.at = "routing" /\ run'.at \in {"planning", "reviewing", "fixing"}
        /\ run'.at = "fixing" => run'.milestone = Full(report.files)
    BY <1>2, <2>1, <2>2, <2>3 DEF Route
  <2>5. DOMAIN run' = DOMAIN run
    BY <2>1
  <2>6. \A f \in DOMAIN run \ {"at", "milestone"} : run'[f] = run[f]
    BY <2>1
  <2> QED BY <2>4, <2>5, <2>6, FullIsSome DEF Route, session
<1> QED BY <1>1, <1>2

LEMMA ReportLeads ==
  ASSUME Shape, ReviewReports
  PROVE  Finish("completed") \/ Asking \/ MovesTo({"fixing"})
<1> USE DEF Shape, RunFields, Working
<1>1. PICK files \in SUBSET Files :
        IF files = {} \/ run.readOnly THEN Finish("completed")
        ELSE IF run.fix # "auto" THEN Pause("review_fix", Choices, Full(files), files)
        ELSE /\ run' = [run EXCEPT !.at = "fixing", !.calls = 0, !.invalid = 0,
                                   !.milestone = Full(files)]
             /\ UNCHANGED session
  BY DEF ReviewReports
<1>2. CASE files = {} \/ run.readOnly
  BY <1>1, <1>2
<1>3. CASE ~(files = {} \/ run.readOnly) /\ run.fix # "auto"
  BY <1>1, <1>3, PauseAsks, FullIsSome
<1>4. CASE ~(files = {} \/ run.readOnly) /\ ~(run.fix # "auto")
  <2>1. /\ run' = [run EXCEPT !.at = "fixing", !.calls = 0, !.invalid = 0,
                              !.milestone = Full(files)]
        /\ UNCHANGED session
    BY <1>1, <1>4
  <2>2. run.at = "reviewing"
    BY DEF ReviewReports
  <2> QED BY <2>1, <2>2, FullIsSome DEF MovesTo
<1> QED BY <1>2, <1>3, <1>4

LEMMA PacketLeads ==
  ASSUME Shape, TakePacket
  PROVE  Asking \/ MovesTo({"fixing"})
<1> USE DEF Shape, RunFields, Working
<1>1. run.at = "packet"
  BY DEF TakePacket
<1>2. PICK milestone :
        IF milestone = NoMilestone
        THEN Pause("hotfix_followup", {"escalate_mission", "dismiss"}, NoMilestone, {})
        ELSE /\ run' = [run EXCEPT !.at = "fixing", !.milestone = milestone]
             /\ UNCHANGED session
  BY Zenon DEF TakePacket
<1>3. CASE milestone = NoMilestone
  BY <1>2, <1>3, PauseAsks
<1>4. CASE milestone # NoMilestone
  BY <1>1, <1>2, <1>4 DEF MovesTo
<1> QED BY <1>3, <1>4

LEMMA ReworkLeads ==
  ASSUME Shape, NeedsRework, run.milestone # NoMilestone
  PROVE  Asking \/ (MovesTo({"escalating"}) /\ run'.milestone # NoMilestone)
<1> USE DEF Shape, RunFields, Working
<1>1. ToVerify # NoMilestone
  BY FullIsSome DEF ToVerify
<1>2. CASE run.fix = "auto"
  BY <1>1, <1>2 DEF NeedsRework, MovesTo
<1>3. CASE run.fix # "auto"
  BY <1>1, <1>3, PauseAsks DEF NeedsRework
<1> QED BY <1>2, <1>3

LEMMA EscalationLeads ==
  ASSUME Shape, Escalate, run.milestone # NoMilestone
  PROVE  \/ Asking /\ UNCHANGED brief
         \/ Stash /\ UNCHANGED session
BY PauseAsks DEF Escalate

\* A batch of a question or a review only adds to the counts.
LEMMA InspectionCounts ==
  ASSUME Shape, AskInspects \/ ReviewInspects
  PROVE  /\ run'.at = run.at /\ DOMAIN run' = DOMAIN run /\ run.at \in {"asking", "reviewing"}
         /\ \A f \in DOMAIN run \ {"calls", "invalid"} : run'[f] = run[f]
         /\ UNCHANGED <<session, clients, brief, skip>>
<1> USE DEF Shape, RunFields, Working
<1>1. PICK budget, allowed : Inspect(budget, allowed)
  BY DEF AskInspects, ReviewInspects
<1>2. PICK n : run' = [run EXCEPT !.invalid = 0, !.calls = Counted(n, budget)]
  BY <1>1 DEF Inspect
<1>3. run.at \in {"asking", "reviewing"} /\ UNCHANGED <<session, clients, brief, skip>>
  BY DEF AskInspects, ReviewInspects
<1> QED BY <1>2, <1>3

-----------------------------------------------------------------------------
(* The fields of a run and of a plan                                       *)

LEMMA ShapeInit == Init => Shape
<1> SUFFICES ASSUME Init PROVE Shape
  OBVIOUS
<1>1. ~Working
  BY DEF Init, Idle, Working
<1>2. DOMAIN plan = PlanFields
  BY DEF Init, NoPlan, PlanFields
<1> QED BY <1>1, <1>2 DEF Shape

LEMMA ShapeStep == Shape /\ [Next]_vars => Shape'
<1> SUFFICES ASSUME Shape, [Next]_vars PROVE Shape'
  OBVIOUS
<1> USE DEF Shape, RunFields, PlanFields, Working, session, clients, runtime
<1>1. CASE Post
  BY <1>1 DEF Post, Enqueue, Request
<1>2. CASE Answer
  BY <1>2 DEF Answer
<1>3. CASE Dismiss
  BY <1>3 DEF Dismiss, Act, SetApproval
<1>4. CASE Approve
  BY <1>4 DEF Approve, Act, SetApproval, Enqueue, Request, BuildRequest
<1>5. CASE EscalateByHand
  BY <1>5 DEF EscalateByHand, Act, Enqueue, Request, BuildRequest
<1>6. CASE FollowUp
  BY <1>6 DEF FollowUp, Act, Unservable, PacketFor, Enqueue, Request, BuildRequest
<1>7. CASE Stopped
  BY <1>7 DEF Stopped, End
<1>8. CASE AskRepeats \/ ReviewRepeats
  BY <1>8 DEF AskRepeats, ReviewRepeats
<1>9. CASE Begin
  BY <1>9 DEF Begin, Fresh, ResolveKind, Has
<1>10. CASE Route
  BY <1>10, RouteMoves DEF MovesTo, Route
<1>11. CASE AskInspects \/ ReviewInspects
  BY <1>11, InspectionCounts
<1>12. CASE AskReplies
  BY <1>12 DEF AskReplies, End
<1>13. CASE ReviewFails
  BY <1>13 DEF ReviewFails, Finish, End, Has
<1>14. CASE ReviewReports
  <2>1. CASE Finish("completed")
    BY <1>14, <2>1 DEF ReviewReports, Finish, End, Has
  <2>2. CASE Asking
    BY <1>14, <2>2 DEF ReviewReports, Asking
  <2>3. CASE MovesTo({"fixing"})
    BY <1>14, <2>3 DEF ReviewReports, MovesTo
  <2> QED BY <1>14, <2>1, <2>2, <2>3, ReportLeads
<1>15. CASE TakePacket
  BY <1>15, PacketLeads DEF TakePacket, Asking, MovesTo
<1>16. CASE Execute
  BY <1>16 DEF Execute
<1>17. CASE Verified
  BY <1>17 DEF Verified, Finish, End, Has
<1>18. CASE Unverified
  BY <1>18 DEF Unverified, Pause, End
<1>19. CASE NeedsRework
  <2>1. CASE run.fix = "auto"
    BY <1>19, <2>1 DEF NeedsRework
  <2>2. CASE run.fix # "auto"
    BY <1>19, <2>2 DEF NeedsRework, Pause, End
  <2> QED BY <2>1, <2>2
<1>20. CASE VerifierEscalates
  BY <1>20 DEF VerifierEscalates, Stash
<1>21. CASE Escalate
  BY <1>21 DEF Escalate, Stash, Choices, Pause, End
<1>22. CASE Merge
  BY <1>22 DEF Merge, NoMilestone, NoHandoff
<1>23. CASE PlanFails
  BY <1>23 DEF PlanFails, End
<1>24. CASE Draft
  BY <1>24 DEF Draft, End, Awaiting, NoDecision
<1>25. CASE ApprovedByWord
  BY <1>25 DEF ApprovedByWord, Awaiting
<1>26. CASE Plan
  BY <1>26 DEF Plan, Planned, BuildsThePlan, Has, Awaiting
<1>27. CASE MissionEnds
  BY <1>27 DEF MissionEnds, End
<1>28. CASE UNCHANGED vars
  BY <1>28 DEF vars
<1> QED BY <1>1, <1>2, <1>3, <1>4, <1>5, <1>6, <1>7, <1>8, <1>9, <1>10, <1>11, <1>12,
     <1>13, <1>14, <1>15, <1>16, <1>17, <1>18, <1>19, <1>20, <1>21, <1>22, <1>23, <1>24,
     <1>25, <1>26, <1>27, <1>28 DEF Next, Clients, Worker, Asks, Reviews, Fixes,
     Missions

LEMMA ShapeAlways == Spec => []Shape
<1> QED BY ShapeInit, ShapeStep, PTL DEF Spec

-----------------------------------------------------------------------------
(* Escalation                                                              *)

\* Who is about to merge a brief has stashed it himself.
Stashed ==
  /\ run.at = "merging" => brief = run.no
  /\ Working /\ run.at \notin {"planning", "building"} => run.evidence = -1
  /\ EscalatesWithItsOwnBrief

LEMMA StashedInit == Init => Stashed
BY DEF Init, Stashed, EscalatesWithItsOwnBrief, Idle, Working

LEMMA StashedStep == Shape /\ Stashed /\ [Next]_vars => Stashed'
<1> SUFFICES ASSUME Shape, Stashed, [Next]_vars PROVE Stashed'
  OBVIOUS
<1> USE DEF Stashed, EscalatesWithItsOwnBrief, Shape, RunFields, Working, session,
     clients, runtime
<1>1. CASE Post
  BY <1>1 DEF Post, Enqueue, Request
<1>2. CASE Answer
  BY <1>2 DEF Answer
<1>3. CASE Dismiss
  BY <1>3 DEF Dismiss, Act, SetApproval
<1>4. CASE Approve
  BY <1>4 DEF Approve, Act, SetApproval, Enqueue, Request, BuildRequest
<1>5. CASE EscalateByHand
  BY <1>5 DEF EscalateByHand, Act, Enqueue, Request, BuildRequest
<1>6. CASE FollowUp
  BY <1>6 DEF FollowUp, Act, Unservable, PacketFor, Enqueue, Request, BuildRequest
<1>7. CASE Stopped
  BY <1>7 DEF Stopped, End
<1>8. CASE AskRepeats \/ ReviewRepeats
  BY <1>8 DEF AskRepeats, ReviewRepeats
<1>9. CASE Begin
  BY <1>9 DEF Begin, Fresh, ResolveKind, Has
<1>10. CASE Route
  BY <1>10, RouteMoves DEF MovesTo, Route
<1>11. CASE AskInspects \/ ReviewInspects
  BY <1>11, InspectionCounts
<1>12. CASE AskReplies
  BY <1>12 DEF AskReplies, End
<1>13. CASE ReviewFails
  BY <1>13 DEF ReviewFails, Finish, End, Has
<1>14. CASE ReviewReports
  <2>1. CASE Finish("completed")
    BY <1>14, <2>1 DEF ReviewReports, Finish, End, Has
  <2>2. CASE Asking
    BY <1>14, <2>2 DEF ReviewReports, Asking
  <2>3. CASE MovesTo({"fixing"})
    BY <1>14, <2>3 DEF ReviewReports, MovesTo
  <2> QED BY <1>14, <2>1, <2>2, <2>3, ReportLeads
<1>15. CASE TakePacket
  BY <1>15, PacketLeads DEF TakePacket, Asking, MovesTo
<1>16. CASE Execute
  BY <1>16 DEF Execute
<1>17. CASE Verified
  BY <1>17 DEF Verified, Finish, End, Has
<1>18. CASE Unverified
  BY <1>18 DEF Unverified, Pause, End
<1>19. CASE NeedsRework
  <2>1. CASE run.fix = "auto"
    BY <1>19, <2>1 DEF NeedsRework
  <2>2. CASE run.fix # "auto"
    BY <1>19, <2>2 DEF NeedsRework, Pause, End
  <2> QED BY <2>1, <2>2
<1>20. CASE VerifierEscalates
  BY <1>20 DEF VerifierEscalates, Stash
<1>21. CASE Escalate
  BY <1>21 DEF Escalate, Stash, Choices, Pause, End
<1>22. CASE Merge
  BY <1>22 DEF Merge, NoMilestone, NoHandoff
<1>23. CASE PlanFails
  BY <1>23 DEF PlanFails, End
<1>24. CASE Draft
  BY <1>24 DEF Draft, End, Awaiting, NoDecision
<1>25. CASE ApprovedByWord
  BY <1>25 DEF ApprovedByWord
<1>26. CASE Plan
  BY <1>26 DEF Plan, Planned, BuildsThePlan, Has, Awaiting
<1>27. CASE MissionEnds
  BY <1>27 DEF MissionEnds, End
<1>28. CASE UNCHANGED vars
  BY <1>28 DEF vars
<1> QED BY <1>1, <1>2, <1>3, <1>4, <1>5, <1>6, <1>7, <1>8, <1>9, <1>10, <1>11, <1>12,
     <1>13, <1>14, <1>15, <1>16, <1>17, <1>18, <1>19, <1>20, <1>21, <1>22, <1>23, <1>24,
     <1>25, <1>26, <1>27, <1>28 DEF Next, Clients, Worker, Asks, Reviews, Fixes,
     Missions

\* A focused run that goes on as a mission has the brief of its own attempt,
\* whichever runs were stopped before with a brief in their hands
\* (main.py:1163-1200, 1594-1615).
THEOREM BriefsAreTheirOwn == Spec => []EscalatesWithItsOwnBrief
<1>1. Stashed => EscalatesWithItsOwnBrief
  BY DEF Stashed
<1> QED BY <1>1, StashedInit, StashedStep, ShapeAlways, PTL DEF Spec

-----------------------------------------------------------------------------
(* What a mission builds                                                   *)

\* Only a run that resumes leaves out orchestration.
Resumes ==
  /\ \E R : queue \in Seq(R)
  /\ \A i \in 1 .. Len(queue) : queue[i].skip => queue[i].req.kind = "resume"
  /\ Working /\ skip => run.kind = "resume"
  /\ BuildsItsRequest

\* A run more, or one less, in the queue.
LEMMA QueueGrows ==
  ASSUME NEW R, queue \in Seq(R), NEW r, queue' = Append(queue, r)
  PROVE  /\ \E S : queue' \in Seq(S)
         /\ \A i \in 1 .. Len(queue') :
              queue'[i] = r \/ \E j \in 1 .. Len(queue) : queue'[i] = queue[j]
<1> DEFINE S == R \cup {r}
<1>1. queue \in Seq(S)
  OBVIOUS
<1>2. queue' \in Seq(S)
  BY <1>1
<1>3. /\ Len(queue') = Len(queue) + 1
      /\ \A i \in 1 .. Len(queue) : queue'[i] = queue[i]
      /\ queue'[Len(queue) + 1] = r
  BY <1>1
<1>4. Len(queue) \in Nat
  OBVIOUS
<1>5. ASSUME NEW i \in 1 .. Len(queue')
      PROVE  queue'[i] = r \/ \E j \in 1 .. Len(queue) : queue'[i] = queue[j]
  <2>1. CASE i = Len(queue) + 1
    BY <1>3, <2>1
  <2>2. CASE i \in 1 .. Len(queue)
    BY <1>3, <2>2
  <2> QED BY <1>3, <1>4, <2>1, <2>2
<1> QED BY <1>2, <1>5

LEMMA QueueShrinks ==
  ASSUME NEW R, queue \in Seq(R), queue # <<>>, queue' = Tail(queue)
  PROVE  /\ \E S : queue' \in Seq(S)
         /\ Head(queue) = queue[1] /\ 1 \in 1 .. Len(queue)
         /\ \A i \in 1 .. Len(queue') : \E j \in 1 .. Len(queue) : queue'[i] = queue[j]
<1>1. queue' \in Seq(R) /\ Len(queue') = Len(queue) - 1 /\ Len(queue) \in Nat \ {0}
      /\ Head(queue) = queue[1]
  OBVIOUS
<1>2. ASSUME NEW i \in 1 .. Len(queue')
      PROVE  i + 1 \in 1 .. Len(queue) /\ queue'[i] = queue[i + 1]
  BY <1>1
<1> QED BY <1>1, <1>2

LEMMA ResumesInit == Init => Resumes
<1> SUFFICES ASSUME Init PROVE Resumes
  OBVIOUS
<1>1. queue = <<>> /\ queue \in Seq({})
  BY DEF Init
<1>2. run.at = "over"
  BY DEF Init, Idle
<1> QED BY <1>1, <1>2 DEF Resumes, BuildsItsRequest, Working

LEMMA ResumesStep == Shape /\ Resumes /\ [Next]_vars => Resumes'
<1> SUFFICES ASSUME Shape, Resumes, [Next]_vars PROVE Resumes'
  OBVIOUS
<1> USE DEF Resumes, BuildsItsRequest, Shape, RunFields, PlanFields, Working, session,
     clients, runtime
<1>1. CASE Post
  <2>1. PICK r : queue' = Append(queue, r) /\ (r.skip => r.req.kind = "resume")
    BY <1>1 DEF Post, Enqueue, Request
  <2>2. PICK R : queue \in Seq(R)
    OBVIOUS
  <2>3. /\ \E S : queue' \in Seq(S)
        /\ \A i \in 1 .. Len(queue') :
             queue'[i] = r \/ \E j \in 1 .. Len(queue) : queue'[i] = queue[j]
    BY <2>1, <2>2, QueueGrows
  <2>4. \A i \in 1 .. Len(queue') : queue'[i].skip => queue'[i].req.kind = "resume"
    BY <2>1, <2>3
  <2> QED BY <1>1, <2>3, <2>4 DEF Post, Enqueue, Request
<1>2. CASE Answer
  BY <1>2 DEF Answer
<1>3. CASE Dismiss
  BY <1>3 DEF Dismiss, Act, SetApproval
<1>4. CASE Approve
  <2>1. PICK r : queue' = Append(queue, r) /\ (r.skip => r.req.kind = "resume")
    BY <1>4 DEF Approve, Act, SetApproval, Enqueue, Request, BuildRequest
  <2>2. PICK R : queue \in Seq(R)
    OBVIOUS
  <2>3. /\ \E S : queue' \in Seq(S)
        /\ \A i \in 1 .. Len(queue') :
             queue'[i] = r \/ \E j \in 1 .. Len(queue) : queue'[i] = queue[j]
    BY <2>1, <2>2, QueueGrows
  <2>4. \A i \in 1 .. Len(queue') : queue'[i].skip => queue'[i].req.kind = "resume"
    BY <2>1, <2>3
  <2> QED BY <1>4, <2>3, <2>4 DEF Approve, Act, SetApproval, Enqueue, Request, BuildRequest
<1>5. CASE EscalateByHand
  <2>1. PICK r : queue' = Append(queue, r) /\ (r.skip => r.req.kind = "resume")
    BY <1>5 DEF EscalateByHand, Act, Enqueue, Request, BuildRequest
  <2>2. PICK R : queue \in Seq(R)
    OBVIOUS
  <2>3. /\ \E S : queue' \in Seq(S)
        /\ \A i \in 1 .. Len(queue') :
             queue'[i] = r \/ \E j \in 1 .. Len(queue) : queue'[i] = queue[j]
    BY <2>1, <2>2, QueueGrows
  <2>4. \A i \in 1 .. Len(queue') : queue'[i].skip => queue'[i].req.kind = "resume"
    BY <2>1, <2>3
  <2> QED BY <1>5, <2>3, <2>4 DEF EscalateByHand, Act, Enqueue, Request, BuildRequest
<1>6. CASE FollowUp
  <2>1. PICK r : queue' = Append(queue, r) /\ (r.skip => r.req.kind = "resume")
    BY <1>6 DEF FollowUp, Act, Unservable, PacketFor, Enqueue, Request, BuildRequest
  <2>2. PICK R : queue \in Seq(R)
    OBVIOUS
  <2>3. /\ \E S : queue' \in Seq(S)
        /\ \A i \in 1 .. Len(queue') :
             queue'[i] = r \/ \E j \in 1 .. Len(queue) : queue'[i] = queue[j]
    BY <2>1, <2>2, QueueGrows
  <2>4. \A i \in 1 .. Len(queue') : queue'[i].skip => queue'[i].req.kind = "resume"
    BY <2>1, <2>3
  <2> QED BY <1>6, <2>3, <2>4 DEF FollowUp, Act, Unservable, PacketFor, Enqueue, Request,
       BuildRequest
<1>7. CASE Stopped
  BY <1>7 DEF Stopped, End
<1>8. CASE AskRepeats \/ ReviewRepeats
  BY <1>8 DEF AskRepeats, ReviewRepeats
<1>9. CASE Begin
  <2>1. PICK R : queue \in Seq(R)
    OBVIOUS
  <2>2. /\ \E S : queue' \in Seq(S)
        /\ \A i \in 1 .. Len(queue') : queue'[i].skip => queue'[i].req.kind = "resume"
        /\ Head(queue).skip => Head(queue).req.kind = "resume"
    BY <1>9, <2>1, QueueShrinks DEF Begin
  <2>3. run'.at # "building" /\ (skip' => run'.kind = "resume")
    BY <1>9, <2>2 DEF Begin, Fresh, ResolveKind
  <2> QED BY <2>2, <2>3
<1>10. CASE Route
  BY <1>10, RouteMoves DEF MovesTo, Route
<1>11. CASE AskInspects \/ ReviewInspects
  BY <1>11, InspectionCounts
<1>12. CASE AskReplies
  BY <1>12 DEF AskReplies, End
<1>13. CASE ReviewFails
  BY <1>13 DEF ReviewFails, Finish, End, Has
<1>14. CASE ReviewReports
  <2>1. CASE Finish("completed")
    BY <1>14, <2>1 DEF ReviewReports, Finish, End, Has
  <2>2. CASE Asking
    BY <1>14, <2>2 DEF ReviewReports, Asking
  <2>3. CASE MovesTo({"fixing"})
    BY <1>14, <2>3 DEF ReviewReports, MovesTo
  <2> QED BY <1>14, <2>1, <2>2, <2>3, ReportLeads
<1>15. CASE TakePacket
  BY <1>15, PacketLeads DEF TakePacket, Asking, MovesTo
<1>16. CASE Execute
  BY <1>16 DEF Execute
<1>17. CASE Verified
  BY <1>17 DEF Verified, Finish, End, Has
<1>18. CASE Unverified
  BY <1>18 DEF Unverified, Pause, End
<1>19. CASE NeedsRework
  <2>1. CASE run.fix = "auto"
    BY <1>19, <2>1 DEF NeedsRework
  <2>2. CASE run.fix # "auto"
    BY <1>19, <2>2 DEF NeedsRework, Pause, End
  <2> QED BY <2>1, <2>2
<1>20. CASE VerifierEscalates
  BY <1>20 DEF VerifierEscalates, Stash
<1>21. CASE Escalate
  BY <1>21 DEF Escalate, Stash, Choices, Pause, End
<1>22. CASE Merge
  BY <1>22 DEF Merge, NoMilestone, NoHandoff
<1>23. CASE PlanFails
  BY <1>23 DEF PlanFails, End
<1>24. CASE Draft
  BY <1>24 DEF Draft, End, Awaiting, NoDecision
<1>25. CASE ApprovedByWord
  BY <1>25 DEF ApprovedByWord, Awaiting
<1>26. CASE Plan
  BY <1>26 DEF Plan, Planned, BuildsThePlan, Has, Awaiting
<1>27. CASE MissionEnds
  BY <1>27 DEF MissionEnds, End
<1>28. CASE UNCHANGED vars
  BY <1>28 DEF vars
<1> QED BY <1>1, <1>2, <1>3, <1>4, <1>5, <1>6, <1>7, <1>8, <1>9, <1>10, <1>11, <1>12,
     <1>13, <1>14, <1>15, <1>16, <1>17, <1>18, <1>19, <1>20, <1>21, <1>22, <1>23, <1>24,
     <1>25, <1>26, <1>27, <1>28 DEF Next, Clients, Worker, Asks, Reviews, Fixes,
     Missions

\* A mission builds what its run was asked for, unless the run resumes or finds a
\* plan that waits: no flag of an earlier run makes it build another plan
\* (main.py:414-428, 785-793).
THEOREM MissionsBuildTheirRequest == Spec => []BuildsItsRequest
<1>1. Resumes => BuildsItsRequest
  BY DEF Resumes
<1> QED BY <1>1, ResumesInit, ResumesStep, ShapeAlways, PTL DEF Spec

-----------------------------------------------------------------------------
(* The answers of a decision                                               *)

\* A packet with all that its run will ask for.
Complete(packet) == packet.kind = "review_fix" => packet.milestone # NoMilestone

\* A fix that is offered, chosen or queued has its milestone with it.
Carries ==
  /\ "apply_fix" \in decision.options => decision.milestone # NoMilestone
  /\ handler.at # "idle" /\ handler.action = "apply_fix" =>
       handler.taken.milestone # NoMilestone
  /\ \E R : queue \in Seq(R)
  /\ \A i \in 1 .. Len(queue) : Complete(queue[i].packet)
  /\ Working => Complete(run.packet)
  /\ run.at \in {"fixing", "verifying", "escalating"} => run.milestone # NoMilestone

LEMMA CarriesInit == Init => Carries
<1> SUFFICES ASSUME Init PROVE Carries
  OBVIOUS
<1>1. queue = <<>> /\ queue \in Seq({})
  BY DEF Init
<1>2. run.at = "over" /\ decision.options = {} /\ handler.at = "idle"
  BY DEF Init, Idle, NoDecision, NoCall
<1> QED BY <1>1, <1>2 DEF Carries, Working

LEMMA CarriesStep == Shape /\ Carries /\ [Next]_vars => Carries'
<1> SUFFICES ASSUME Shape, Carries, [Next]_vars PROVE Carries'
  OBVIOUS
<1> USE DEF Carries, Shape, RunFields, Working, session, clients, runtime
<1>1. CASE Post
  <2>1. PICK r : queue' = Append(queue, r) /\ Complete(r.packet)
    BY <1>1 DEF Post, Enqueue, Request, NoPacket, Complete
  <2>2. PICK R : queue \in Seq(R)
    OBVIOUS
  <2>3. /\ \E S : queue' \in Seq(S)
        /\ \A i \in 1 .. Len(queue') :
             queue'[i] = r \/ \E j \in 1 .. Len(queue) : queue'[i] = queue[j]
    BY <2>1, <2>2, QueueGrows
  <2>4. \A i \in 1 .. Len(queue') : Complete(queue'[i].packet)
    BY <2>1, <2>3
  <2> QED BY <1>1, <2>3, <2>4 DEF Post, Enqueue, Request, NoDecision, NoCall
<1>2. CASE Answer
  BY <1>2 DEF Answer
<1>3. CASE Dismiss
  BY <1>3 DEF Dismiss, Act, NoDecision, NoCall
<1>4. CASE Approve
  <2>1. PICK r : queue' = Append(queue, r) /\ Complete(r.packet)
    BY <1>4 DEF Approve, Act, SetApproval, Enqueue, Request, BuildRequest, NoPacket, Complete
  <2>2. PICK R : queue \in Seq(R)
    OBVIOUS
  <2>3. /\ \E S : queue' \in Seq(S)
        /\ \A i \in 1 .. Len(queue') :
             queue'[i] = r \/ \E j \in 1 .. Len(queue) : queue'[i] = queue[j]
    BY <2>1, <2>2, QueueGrows
  <2>4. \A i \in 1 .. Len(queue') : Complete(queue'[i].packet)
    BY <2>1, <2>3
  <2> QED BY <1>4, <2>3, <2>4 DEF Approve, Act, SetApproval, Enqueue, Request,
       BuildRequest, NoDecision, NoCall
<1>5. CASE EscalateByHand
  <2>1. PICK r : queue' = Append(queue, r) /\ Complete(r.packet)
    BY <1>5 DEF EscalateByHand, Act, Enqueue, Request, BuildRequest, NoPacket, Complete
  <2>2. PICK R : queue \in Seq(R)
    OBVIOUS
  <2>3. /\ \E S : queue' \in Seq(S)
        /\ \A i \in 1 .. Len(queue') :
             queue'[i] = r \/ \E j \in 1 .. Len(queue) : queue'[i] = queue[j]
    BY <2>1, <2>2, QueueGrows
  <2>4. \A i \in 1 .. Len(queue') : Complete(queue'[i].packet)
    BY <2>1, <2>3
  <2> QED BY <1>5, <2>3, <2>4 DEF EscalateByHand, Act, Enqueue, Request, BuildRequest,
       NoDecision, NoCall
<1>6. CASE FollowUp
  <2>1. PICK r : queue' = Append(queue, r) /\ Complete(r.packet)
    BY <1>6 DEF FollowUp, Act, Unservable, PacketFor, Enqueue, Request, Complete
  <2>2. PICK R : queue \in Seq(R)
    OBVIOUS
  <2>3. /\ \E S : queue' \in Seq(S)
        /\ \A i \in 1 .. Len(queue') :
             queue'[i] = r \/ \E j \in 1 .. Len(queue) : queue'[i] = queue[j]
    BY <2>1, <2>2, QueueGrows
  <2>4. \A i \in 1 .. Len(queue') : Complete(queue'[i].packet)
    BY <2>1, <2>3
  <2>5. decision' = NoDecision /\ handler' = NoCall /\ UNCHANGED run
    BY <1>6 DEF FollowUp, Act
  <2> QED BY <2>3, <2>4, <2>5 DEF NoDecision, NoCall
<1>7. CASE Stopped
  BY <1>7 DEF Stopped, End
<1>8. CASE AskRepeats \/ ReviewRepeats
  BY <1>8 DEF AskRepeats, ReviewRepeats
<1>9. CASE Begin
  <2>1. PICK R : queue \in Seq(R)
    OBVIOUS
  <2>2. /\ \E S : queue' \in Seq(S)
        /\ \A i \in 1 .. Len(queue') : Complete(queue'[i].packet)
        /\ Complete(Head(queue).packet)
    BY <1>9, <2>1, QueueShrinks DEF Begin
  <2>3. /\ run'.at \notin {"fixing", "verifying", "escalating"}
        /\ run'.packet = Head(queue).packet
    BY <1>9 DEF Begin, Fresh
  <2> QED BY <1>9, <2>2, <2>3 DEF Begin
<1>10. CASE Route
  BY <1>10, RouteMoves DEF MovesTo, Route
<1>11. CASE AskInspects \/ ReviewInspects
  BY <1>11, InspectionCounts
<1>12. CASE AskReplies
  BY <1>12 DEF AskReplies, End
<1>13. CASE ReviewFails
  BY <1>13 DEF ReviewFails, Finish, End, Has
<1>14. CASE ReviewReports
  <2>1. CASE Finish("completed")
    BY <1>14, <2>1 DEF ReviewReports, Finish, End, Has
  <2>2. CASE Asking
    BY <1>14, <2>2 DEF ReviewReports, Asking
  <2>3. CASE MovesTo({"fixing"})
    BY <1>14, <2>3 DEF ReviewReports, MovesTo
  <2> QED BY <1>14, <2>1, <2>2, <2>3, ReportLeads
<1>15. CASE TakePacket
  BY <1>15, PacketLeads DEF TakePacket, Asking, MovesTo
<1>16. CASE Execute
  BY <1>16 DEF Execute
<1>17. CASE Verified
  BY <1>17 DEF Verified, Finish, End, Has
<1>18. CASE Unverified
  <2>1. Asking
    BY <1>18, PauseAsks DEF Unverified
  <2> QED BY <1>18, <2>1 DEF Unverified, Asking
<1>19. CASE NeedsRework
  <2>1. run.milestone # NoMilestone
    BY <1>19 DEF NeedsRework
  <2>2. CASE Asking
    BY <1>19, <2>2 DEF NeedsRework, Asking
  <2>3. CASE MovesTo({"escalating"}) /\ run'.milestone # NoMilestone
    BY <1>19, <2>3 DEF NeedsRework, MovesTo
  <2> QED BY <1>19, <2>1, <2>2, <2>3, ReworkLeads
<1>20. CASE VerifierEscalates
  BY <1>20 DEF VerifierEscalates, Stash
<1>21. CASE Escalate
  <2>1. run.milestone # NoMilestone
    BY <1>21 DEF Escalate
  <2>2. CASE Asking
    BY <1>21, <2>2 DEF Escalate, Asking
  <2>3. CASE Stash /\ UNCHANGED session
    BY <1>21, <2>3 DEF Escalate, Stash
  <2> QED BY <1>21, <2>1, <2>2, <2>3, EscalationLeads
<1>22. CASE Merge
  BY <1>22 DEF Merge, NoMilestone, NoHandoff
<1>23. CASE PlanFails
  BY <1>23 DEF PlanFails, End
<1>24. CASE Draft
  BY <1>24 DEF Draft, End, Awaiting, NoDecision
<1>25. CASE ApprovedByWord
  BY <1>25 DEF ApprovedByWord, Awaiting
<1>26. CASE Plan
  BY <1>26 DEF Plan, Planned, BuildsThePlan, Has, Awaiting
<1>27. CASE MissionEnds
  BY <1>27 DEF MissionEnds, End
<1>28. CASE UNCHANGED vars
  BY <1>28 DEF vars
<1> QED BY <1>1, <1>2, <1>3, <1>4, <1>5, <1>6, <1>7, <1>8, <1>9, <1>10, <1>11, <1>12,
     <1>13, <1>14, <1>15, <1>16, <1>17, <1>18, <1>19, <1>20, <1>21, <1>22, <1>23, <1>24,
     <1>25, <1>26, <1>27, <1>28 DEF Next, Clients, Worker, Asks, Reviews, Fixes,
     Missions

\* Whatever is chosen of what a decision offers can be carried out, over any chain
\* of follow-up runs (decisions.py:135, main.py:1814).
THEOREM OfferedAnswersAreServable == Spec => []AnswersAreServable
<1>1. Carries => AnswersAreServable
  BY DEF Carries, Complete, AnswersAreServable, Unservable, Working
<1> QED BY <1>1, CarriesInit, CarriesStep, ShapeAlways, PTL DEF Spec

-----------------------------------------------------------------------------
(* What is called completed                                                *)

\* Until a fix was executed a run has no changes to answer for.
Answerable ==
  /\ run.at \notin {"over", "verifying", "escalating", "merging"} =>
       run.handoff.modified = {}
  /\ CompletedIsVerified

LEMMA AnswerableInit == Init => Answerable
BY DEF Init, Answerable, CompletedIsVerified, Idle

LEMMA AnswerableStep == Shape /\ Answerable /\ [Next]_vars => Answerable'
<1> SUFFICES ASSUME Shape, Answerable, [Next]_vars PROVE Answerable'
  OBVIOUS
<1> USE DEF Answerable, CompletedIsVerified, Shape, RunFields, Working, session,
     clients, runtime
<1>1. CASE Post
  BY <1>1 DEF Post, Enqueue, Request
<1>2. CASE Answer
  BY <1>2 DEF Answer
<1>3. CASE Dismiss
  BY <1>3 DEF Dismiss, Act, SetApproval
<1>4. CASE Approve
  BY <1>4 DEF Approve, Act, SetApproval, Enqueue, Request, BuildRequest
<1>5. CASE EscalateByHand
  BY <1>5 DEF EscalateByHand, Act, Enqueue, Request, BuildRequest
<1>6. CASE FollowUp
  BY <1>6 DEF FollowUp, Act, Unservable, PacketFor, Enqueue, Request, BuildRequest
<1>7. CASE Stopped
  BY <1>7 DEF Stopped, End
<1>8. CASE AskRepeats \/ ReviewRepeats
  BY <1>8 DEF AskRepeats, ReviewRepeats
<1>9. CASE Begin
  BY <1>9 DEF Begin, Fresh, NoHandoff
<1>10. CASE Route
  BY <1>10, RouteMoves DEF MovesTo, Route
<1>11. CASE AskInspects \/ ReviewInspects
  BY <1>11, InspectionCounts
<1>12. CASE AskReplies
  BY <1>12 DEF AskReplies, End
<1>13. CASE ReviewFails
  BY <1>13 DEF ReviewFails, Finish, End, Has
<1>14. CASE ReviewReports
  <2>1. CASE Finish("completed")
    BY <1>14, <2>1 DEF ReviewReports, Finish, End, Has
  <2>2. CASE Asking
    BY <1>14, <2>2 DEF ReviewReports, Asking
  <2>3. CASE MovesTo({"fixing"})
    BY <1>14, <2>3 DEF ReviewReports, MovesTo
  <2> QED BY <1>14, <2>1, <2>2, <2>3, ReportLeads
<1>15. CASE TakePacket
  BY <1>15, PacketLeads DEF TakePacket, Asking, MovesTo
<1>16. CASE Execute
  BY <1>16 DEF Execute
<1>17. CASE Verified
  <2>1. /\ run'.job = run.job /\ run'.changed = run.handoff.modified /\ run'.at = "over"
        /\ dirty' = dirty \ VerifiedFor(Touched)
    BY <1>17 DEF Verified, Finish, End
  <2>2. run.handoff.modified \subseteq Touched
    BY DEF Touched
  <2>3. ASSUME NEW d \in dirty', d \in {run'.job} \X run'.changed PROVE FALSE
    <3>1. d[2] \in run'.changed
      BY <2>3
    <3>2. d[2] \in Touched /\ d \in dirty
      BY <2>1, <2>2, <2>3, <3>1
    <3> QED BY <2>1, <2>3, <3>2 DEF VerifiedFor
  <2> QED BY <2>1, <2>3
<1>18. CASE Unverified
  BY <1>18 DEF Unverified, Pause, End
<1>19. CASE NeedsRework
  <2>1. CASE run.fix = "auto"
    BY <1>19, <2>1 DEF NeedsRework
  <2>2. CASE run.fix # "auto"
    BY <1>19, <2>2 DEF NeedsRework, Pause, End
  <2> QED BY <2>1, <2>2
<1>20. CASE VerifierEscalates
  BY <1>20 DEF VerifierEscalates, Stash
<1>21. CASE Escalate
  BY <1>21 DEF Escalate, Stash, Choices, Pause, End
<1>22. CASE Merge
  BY <1>22 DEF Merge, NoMilestone, NoHandoff
<1>23. CASE PlanFails
  BY <1>23 DEF PlanFails, End
<1>24. CASE Draft
  BY <1>24 DEF Draft, End, Awaiting, NoDecision
<1>25. CASE ApprovedByWord
  BY <1>25 DEF ApprovedByWord, Awaiting
<1>26. CASE Plan
  BY <1>26 DEF Plan, Planned, BuildsThePlan, Has, Awaiting
<1>27. CASE MissionEnds
  BY <1>27 DEF MissionEnds, End
<1>28. CASE UNCHANGED vars
  BY <1>28 DEF vars
<1> QED BY <1>1, <1>2, <1>3, <1>4, <1>5, <1>6, <1>7, <1>8, <1>9, <1>10, <1>11, <1>12,
     <1>13, <1>14, <1>15, <1>16, <1>17, <1>18, <1>19, <1>20, <1>21, <1>22, <1>23, <1>24,
     <1>25, <1>26, <1>27, <1>28 DEF Next, Clients, Worker, Asks, Reviews, Fixes,
     Missions

\* A run that stays focused ends completed only when the verifier has called all
\* that it changed VERIFIED (main.py:1656-1673).
THEOREM CompletedMeansVerified == Spec => []CompletedIsVerified
<1>1. Answerable => CompletedIsVerified
  BY DEF Answerable
<1> QED BY <1>1, AnswerableInit, AnswerableStep, ShapeAlways, PTL DEF Spec
==============================================================================
