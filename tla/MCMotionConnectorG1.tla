-------------------------- MODULE MCMotionConnectorG1 --------------------------
(***************************************************************************)
(* MotionConnectorG1 with one walk towards the ball and one away from it,  *)
(* both beyond the limits, and a GameController state for every reason to  *)
(* allow or forbid motion.                                                 *)
(***************************************************************************)
EXTENDS MotionConnectorG1

Joint == [type |-> "JOINT_CONTROL", walk |-> StandStill, ball |-> FALSE]
ToBall == [type |-> "WALK", walk |-> [dx |-> 5, dy |-> 3], ball |-> TRUE]
BackOff == [type |-> "WALK", walk |-> [dx |-> -3, dy |-> -3], ball |-> FALSE]

MCCommands == {Stand, Joint, ToBall, BackOff}

MCGCStates ==
  {[state |-> "Playing", player |-> "active"],
   [state |-> "Playing", player |-> "unlisted"],
   [state |-> "Set", player |-> "active"]}

=============================================================================
