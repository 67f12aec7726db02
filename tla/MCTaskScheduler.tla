---------------------------- MODULE MCTaskScheduler ----------------------------
(***************************************************************************)
(* TaskScheduler on the task graph of visionLoop (main.cpp:133-208):       *)
(*   1 vision   2 near_obstacle   3 odometer   4 localization   5 ball     *)
(*   6 robot    7 team_strategy   8 agent_runner                           *)
(***************************************************************************)
EXTENDS TaskScheduler

VisionLoopDeps ==
  <<{}, {1}, {}, {1}, {1}, {1, 4}, {4, 5, 6}, {7}>>

(***************************************************************************)
(* The vision task has a scheduler and a pool of its own (htwk_vision.cpp):*)
(*   1 plane   2 field border   3 regions   4 lines   5 booster_vision     *)
(*   6 obstacles   7 log_image                                             *)
(* Its tasks, too, depend on earlier ones only, which is all the theorems  *)
(* about schedulers ask of a task graph.                                   *)
(***************************************************************************)
HTWKVisionDeps == <<{}, {}, {}, {2, 3}, {}, {1, 5}, {}>>

ASSUME VisionAssumption ==
  \A t \in DOMAIN HTWKVisionDeps : HTWKVisionDeps[t] \subseteq 1..t - 1

=============================================================================
