------------------------------ MODULE ThreadPool ------------------------------
(***************************************************************************)
(* The ThreadPool of utils/async.h on top of the ThreadSafeDeque of        *)
(* utils/threadsafe_deque.h.                                               *)
(*                                                                         *)
(* The deque's own mutex is held for the whole of push_back and shutdown,  *)
(* so each of them is one step.  pop_front releases it only while it waits *)
(* on the condition variable: a worker is then at "sleep", and it tests    *)
(* the wait predicate again when it is woken, at "pop".  The pool's        *)
(* shutdown_flag is a separate atomic that is read outside of that mutex.  *)
(*                                                                         *)
(* What a task does is left to the module that extends this one: a worker  *)
(* stays at "call" while the task it took runs.  Tasks are numbered in the *)
(* order in which they were handed over.                                   *)
(***************************************************************************)
EXTENDS Naturals, Sequences

CONSTANTS
  Worker,      \* the threads of the pool (hardware_concurrency() of them)
  NumTasks     \* how many tasks a user of the pool has

ASSUME PoolAssumption ==
  /\ Worker # {}
  /\ NumTasks \in Nat \ {0}

Task == 1 .. NumTasks

NoTask == 0    \* a default-constructed packaged_task: pop_front after shutdown

VARIABLES
  storage,          \* the tasks queued in the deque
  dequeShutdown,    \* ThreadSafeDeque::shutdown_flag
  shutdownFlag,     \* ThreadPool::shutdown_flag
  wpc,              \* where each worker is in its loop
  job               \* the task a worker took out of the deque

poolVars == <<storage, dequeShutdown, shutdownFlag, wpc, job>>

WorkerPc == {"check", "pop", "sleep", "got", "call", "exit"}

PoolTypeOK ==
  /\ storage \in Seq(Task)
  /\ dequeShutdown \in BOOLEAN
  /\ shutdownFlag \in BOOLEAN
  /\ wpc \in [Worker -> WorkerPc]
  /\ job \in [Worker -> Task \cup {NoTask}]

PoolInit ==
  /\ storage = <<>>
  /\ dequeShutdown = FALSE
  /\ shutdownFlag = FALSE
  /\ wpc = [w \in Worker |-> "check"]
  /\ job = [w \in Worker |-> NoTask]

-----------------------------------------------------------------------------
(* The deque. *)

Sleepers == {w \in Worker : wpc[w] = "sleep"}

NotifyOne ==
  \/ Sleepers = {} /\ UNCHANGED wpc
  \/ \E w \in Sleepers : wpc' = [wpc EXCEPT ![w] = "pop"]

(* Wrong: only one of the sleeping workers is told. *)
NotifyAll_one == NotifyOne

NotifyAll == wpc' = [w \in Worker |-> IF w \in Sleepers THEN "pop" ELSE wpc[w]]

PushBack(t) ==
  \/ /\ dequeShutdown
     /\ UNCHANGED <<storage, wpc>>
  \/ /\ ~dequeShutdown
     /\ storage' = Append(storage, t)
     /\ NotifyOne

(* ThreadPool::run, called by the owner of the pool. *)
PoolRun(t) ==
  /\ \/ shutdownFlag /\ UNCHANGED <<storage, wpc>>
     \/ ~shutdownFlag /\ PushBack(t)
  /\ UNCHANGED <<dequeShutdown, shutdownFlag, job>>

-----------------------------------------------------------------------------
(* The loop of a worker: while (!shutdown_flag) *)

CheckShutdown(w) ==
  /\ wpc[w] = "check"
  /\ wpc' = [wpc EXCEPT ![w] = IF shutdownFlag THEN "exit" ELSE "pop"]
  /\ UNCHANGED <<storage, dequeShutdown, shutdownFlag, job>>

WaitForTask(w) ==
  /\ wpc[w] = "pop"
  /\ storage = <<>>
  /\ ~dequeShutdown
  /\ wpc' = [wpc EXCEPT ![w] = "sleep"]
  /\ UNCHANGED <<storage, dequeShutdown, shutdownFlag, job>>

SpuriousWake(w) ==
  /\ wpc[w] = "sleep"
  /\ wpc' = [wpc EXCEPT ![w] = "pop"]
  /\ UNCHANGED <<storage, dequeShutdown, shutdownFlag, job>>

PopFront(w) ==
  /\ wpc[w] = "pop"
  /\ \/ /\ storage # <<>>
        /\ job' = [job EXCEPT ![w] = Head(storage)]
        /\ storage' = Tail(storage)
     \/ /\ storage = <<>>
        /\ dequeShutdown
        /\ job' = [job EXCEPT ![w] = NoTask]
        /\ UNCHANGED storage
  /\ wpc' = [wpc EXCEPT ![w] = "got"]
  /\ UNCHANGED <<dequeShutdown, shutdownFlag>>

(* The second test of shutdown_flag: a popped task is dropped when it is set. *)
CallTask(w) ==
  /\ wpc[w] = "got"
  /\ ~shutdownFlag
  /\ wpc' = [wpc EXCEPT ![w] = "call"]
  /\ UNCHANGED <<storage, dequeShutdown, shutdownFlag, job>>

DropTask(w) ==
  /\ wpc[w] = "got"
  /\ shutdownFlag
  /\ wpc' = [wpc EXCEPT ![w] = "check"]
  /\ job' = [job EXCEPT ![w] = NoTask]
  /\ UNCHANGED <<storage, dequeShutdown, shutdownFlag>>

(* The task has returned: the worker goes round its loop. *)
TaskReturns(w) ==
  /\ wpc' = [wpc EXCEPT ![w] = "check"]
  /\ job' = [job EXCEPT ![w] = NoTask]
  /\ UNCHANGED <<storage, dequeShutdown, shutdownFlag>>

WorkerLoop(w) ==
  \/ CheckShutdown(w)
  \/ WaitForTask(w)
  \/ PopFront(w)
  \/ CallTask(w)
  \/ DropTask(w)

-----------------------------------------------------------------------------
(* ~ThreadPool: the flag, then the deque, then join. *)

SetShutdownFlag ==
  /\ shutdownFlag' = TRUE
  /\ UNCHANGED <<storage, dequeShutdown, wpc, job>>

ShutdownDeque ==
  /\ dequeShutdown' = TRUE
  /\ NotifyAll
  /\ UNCHANGED <<storage, shutdownFlag, job>>

Joinable == \A w \in Worker : wpc[w] = "exit"

(***************************************************************************)
(* A worker never calls the empty task that pop_front returns when the     *)
(* deque is shut down: calling it throws std::future_error in the thread   *)
(* and ends the program.                                                   *)
(***************************************************************************)
NoEmptyCall == \A w \in Worker : wpc[w] = "call" => job[w] # NoTask

=============================================================================
