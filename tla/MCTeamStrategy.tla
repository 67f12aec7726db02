---------------------------- MODULE MCTeamStrategy ----------------------------
(***************************************************************************)
(* TeamStrategy for the goalkeeper of a team of five: both kick-offs,      *)
(* penalties, a free kick, a penalty kick with its Ready phase, and the    *)
(* end of a half.  One packet claims more players than it lists.           *)
(***************************************************************************)
EXTENDS TeamStrategy

Sit(st, sp, team, pen, late) ==
  [state |-> st, setPlay |-> sp, kicking |-> team, penalized |-> pen, perTeam |-> IF pen THEN 7 ELSE 5,
   short |-> late]

MCSituations ==
  {Sit("Initial", "None", "Theirs", FALSE, TRUE),
   Sit("Ready", "None", "Mine", FALSE, FALSE),
   Sit("Ready", "None", "Mine", FALSE, TRUE),
   Sit("Ready", "PenaltyKick", "Theirs", FALSE, FALSE),
   Sit("Set", "None", "Theirs", FALSE, TRUE),
   Sit("Playing", "None", "None", FALSE, TRUE),
   Sit("Playing", "None", "None", TRUE, TRUE),
   Sit("Playing", "FreeKick", "Mine", FALSE, TRUE),
   Sit("Finished", "None", "None", FALSE, TRUE)}

=============================================================================
