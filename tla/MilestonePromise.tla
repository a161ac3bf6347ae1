--------------------------- MODULE MilestonePromise ---------------------------
(***************************************************************************)
(* What the execution of one milestone promises its mission: it is tried a  *)
(* bounded number of times, and it ends once, with one outcome, that is     *)
(* FAIL only after the worker had a second chance.                          *)
(***************************************************************************)
EXTENDS Naturals

CONSTANTS MaxRetries, Outcomes

VARIABLES tries, outcome

promiseVars == <<tries, outcome>>

Running == outcome = "none"

Init == tries = 0 /\ outcome \in Outcomes

\* A new execution, of this milestone or of the next one.
Begins == ~Running /\ tries' = 0 /\ outcome' = "none"

TriesAgain ==
  /\ Running
  /\ tries < MaxRetries
  /\ tries' = tries + 1
  /\ UNCHANGED outcome

\* Only FAIL may come after the last attempt, and never in the first one.
Ends ==
  /\ Running
  /\ outcome' \in Outcomes
  /\ IF outcome' = "FAIL" THEN tries >= 1 ELSE tries < MaxRetries
  /\ UNCHANGED tries

Next == Begins \/ TriesAgain \/ Ends

Spec == Init /\ [][Next]_promiseVars
==============================================================================
