--------------------------- MODULE MCGameController ---------------------------
(***************************************************************************)
(* GameController for the seventh player of a team of five: a kick-off     *)
(* and a free kick in which this robot is penalized or not, with numbers   *)
(* that wrap around soon, and packets that claim more players than they    *)
(* list.                                                                   *)
(***************************************************************************)
EXTENDS GameController

Sit(st, sp, team, pen, n) ==
  [state |-> st, setPlay |-> sp, kicking |-> team, penalized |-> pen,
   perTeam |-> n, short |-> FALSE]

MCSituations ==
  {Sit("Set", "None", "Mine", FALSE, 9),
   Sit("Playing", "FreeKick", "Theirs", TRUE, 5),
   Sit("Playing", "FreeKick", "Theirs", FALSE, 5)}

=============================================================================
