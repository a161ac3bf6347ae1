----------------------------- MODULE MCMilestone -----------------------------
(***************************************************************************)
(* Instances of MilestoneExecution: the packets TLC hands out.              *)
(***************************************************************************)
EXTENDS MilestoneExecution

\* An implementation packet with a test it is to add.
MCPackets == {{"src", "test_new"}}

\* One file: a source or a test, for the run that is about the servers.
MCUiPackets == {{"src"}, {"test_a"}}
==============================================================================
