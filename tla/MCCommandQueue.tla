--------------------------- MODULE MCCommandQueue ---------------------------
(* Constants for TLC: a merging lane, one whose followups discard, two that *)
(* drop at their cap; one run slot or two.                                  *)
EXTENDS CommandQueue

CollectLane == [mode |-> "collect", cap |-> 1, drop |-> "summarize"]
FollowupLane == [mode |-> "followup", cap |-> 3, drop |-> "summarize"]
InterruptLane == [mode |-> "interrupt", cap |-> 1, drop |-> "drop-oldest"]
RejectLane == [mode |-> "collect", cap |-> 0, drop |-> "reject"]

MCLaneConfigs == {CollectLane, FollowupLane, InterruptLane, RejectLane}
MCQueueConfigs == {[max |-> 1, lane |-> CollectLane], [max |-> 2, lane |-> FollowupLane]}
=============================================================================
