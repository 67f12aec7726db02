------------------------------- MODULE TaskGraph -------------------------------
(***************************************************************************)
(* What a TaskScheduler promises to visionLoop (main.cpp): in each frame   *)
(* every task runs exactly once, a task starts only when all the tasks it  *)
(* depends on are done, and the frame ends only when every task is done.   *)
(* Neither threads, queues nor locks appear here.                          *)
(***************************************************************************)
EXTENDS Naturals

CONSTANTS
  NumTasks,    \* the tasks of a frame are 1 .. NumTasks
  Deps         \* Deps[t]: the tasks t depends on

GraphTask == 1 .. NumTasks

VARIABLES
  open,        \* a frame is being processed
  status       \* the state of each task of the frame

graphVars == <<open, status>>

Init ==
  /\ open = FALSE
  /\ status = [t \in GraphTask |-> "idle"]

BeginFrame ==
  /\ ~open
  /\ open' = TRUE
  /\ status' = [t \in GraphTask |-> "idle"]

Start(t) ==
  /\ open
  /\ status[t] = "idle"
  /\ \A d \in Deps[t] : status[d] = "done"
  /\ status' = [status EXCEPT ![t] = "running"]
  /\ UNCHANGED open

Finish(t) ==
  /\ open
  /\ status[t] = "running"
  /\ status' = [status EXCEPT ![t] = "done"]
  /\ UNCHANGED open

EndFrame ==
  /\ open
  /\ \A t \in GraphTask : status[t] = "done"
  /\ open' = FALSE
  /\ UNCHANGED status

Next ==
  \/ BeginFrame
  \/ \E t \in GraphTask : Start(t) \/ Finish(t)
  \/ EndFrame

Spec == Init /\ [][Next]_graphVars

=============================================================================
