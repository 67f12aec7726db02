----------------------------- MODULE MCLifecycle ------------------------------
(* Start-up and shutdown of both builds, with two messages to the team.      *)
EXTENDS Lifecycle

MCMaxMessages == 2
=============================================================================
