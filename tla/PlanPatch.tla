----------------------------- MODULE PlanPatch -----------------------------
(***************************************************************************)
(* The patch operations of src/agents/plan_ops.py on a plan's milestones,  *)
(* with which the orchestrator edits a plan that is being executed.        *)
(*                                                                         *)
(* A milestone is its id and whether its status is "completed"; the other  *)
(* fields are what update_milestone may change, and nothing here reads     *)
(* them.  An operation is described by the condition under which it is     *)
(* accepted and the milestones it returns; apply_plan_patch works on a     *)
(* deep copy, so a patch with one bad operation leaves no trace.           *)
(***************************************************************************)
EXTENDS SequencesExt

CONSTANT Ids   \* milestone ids the orchestrator may write

Milestone == [id : Ids, done : BOOLEAN]
Todo(x) == [id |-> x, done |-> FALSE]

IdsOf(ms)   == {ms[i].id : i \in DOMAIN ms}
DoneIds(ms) == {ms[i].id : i \in {j \in DOMAIN ms : ms[j].done}}
Pending(ms) == \E i \in DOMAIN ms : ~ms[i].done

\* No id occurs twice.  Patches keep it ("Milestone ids stay unique"), but nothing
\* checks it of a planner's answer.
UniqueIds(ms) == \A i, j \in DOMAIN ms : ms[i].id = ms[j].id => i = j

\* Position of x: _index_by_id keeps the last milestone with an id, "next"
\* over the list and the loop of _save_handoff find the first.
LastAt(ms, x)  == SelectLastInSeq(ms, LAMBDA m : m.id = x)
FirstAt(ms, x) == SelectInSeq(ms, LAMBDA m : m.id = x)

\* "milestone is completed and immutable"
Editable(ms, x) == x \in IdsOf(ms) /\ ~ms[LastAt(ms, x)].done

CanInsert(ms, after, new) == after \in IdsOf(ms) /\ new \in Ids \ IdsOf(ms)
InsertMilestone(ms, after, new) == InsertAt(ms, LastAt(ms, after) + 1, Todo(new))

RemoveMilestone(ms, x) == RemoveAt(ms, LastAt(ms, x))

\* Mutant: the milestone is not found (its id is compared with something else).
MarkNone(ms, x) == ms

\* _save_handoff marks the first milestone that has the id.
MarkFirst(ms, x) == [ms EXCEPT ![FirstAt(ms, x)].done = TRUE]
=============================================================================
