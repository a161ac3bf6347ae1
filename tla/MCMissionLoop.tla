--------------------------- MODULE MCMissionLoop ---------------------------
(* Small instances of MissionLoop for TLC. *)
EXTENDS MissionLoop

CONSTANTS a, b, c, d, noSig, sig1

\* What planning calls answer.
OneMilestone  == {<<a>>}
TwoMilestones == {<<a, b>>}
ThreeMilestones == {<<a, b, c>>}

Request(mode, kind_, phrase, skip) ==
    [mode |-> mode, kind |-> kind_, phrase |-> phrase, skip |-> skip]

\* A build message, the API's explicit kinds, a plan message, an approval
\* phrase and a question.
BuildMessage == Request("build", "auto", FALSE, FALSE)
BuildNew     == Request("build", "new", FALSE, FALSE)
PlanMessage  == Request("plan", "auto", FALSE, FALSE)
PlanPhrase   == Request("plan", "auto", TRUE, FALSE)
Question     == Request("ask", "auto", FALSE, FALSE)

OnlyBuild    == {BuildMessage}
PlanAndBuild == {PlanMessage, BuildMessage}
EveryMode    == {BuildMessage, BuildNew, PlanMessage, PlanPhrase, Question,
                 Request("plan", "new", FALSE, TRUE)}
=============================================================================
