---------------------------- MODULE MCAgentRunner -----------------------------
(* The agents of the G1 with a memory of one tick and one change of the     *)
(* channels in each round.                                                  *)
EXTENDS AgentRunner

MCTTL == 1
MCMaxChanges == 1
=============================================================================
