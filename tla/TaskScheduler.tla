----------------------------- MODULE TaskScheduler -----------------------------
(***************************************************************************)
(* The TaskScheduler of utils/async.h, driven by visionLoop (main.cpp): a  *)
(* new scheduler per frame, its tasks added with their dependencies, run() *)
(* until all of them are finished, and the pool's destructor once the loop *)
(* is left.                                                                *)
(*                                                                         *)
(* One mutex and one condition variable are shared by run(), which scans   *)
(* the tasks, and by ExecutionState::setFinshed, which a worker calls when *)
(* the function of a task has returned.  Both live in the scheduler, which *)
(* visionLoop destroys as soon as run() returns.                           *)
(***************************************************************************)
EXTENDS ThreadPool

CONSTANTS
  Deps,        \* Deps[t]: the tasks whose ExecutionState t was added with
  Main,        \* the thread in visionLoop
  Nobody       \* the owner of a free mutex

(* addTask takes pointers that earlier calls of addTask returned. *)
ASSUME SchedulerAssumption ==
  /\ Deps \in [Task -> SUBSET Task]
  /\ \A t \in Task : \A d \in Deps[t] : d < t
  /\ Main \notin Worker
  /\ Nobody \notin Worker \cup {Main}

VARIABLES
  running,     \* the flag visionLoop tests, cleared by the signal handler
  mpc,         \* where the main thread is
  alive,       \* the scheduler of the current frame exists
  added,       \* the tasks 1 .. added are in `states`
  pending,     \* tasks_to_schedule
  it,          \* the iterator of run's scan
  ranTask,     \* ran_task
  mtx,         \* the owner of the scheduler's mutex
  finished,    \* ExecutionState::finished of each task
  body         \* the packaged_task of each task: "idle" until it is called

mainVars == <<running, mpc, alive, added, pending, it, ranTask>>
vars == <<poolVars, mainVars, mtx, finished, body>>

MainPc == {"loop", "image", "add", "lock", "scan", "wait", "relock", "unlock",
           "returned", "shutdown", "deque", "join", "joined"}

TypeOK ==
  /\ PoolTypeOK
  /\ running \in BOOLEAN
  /\ mpc \in MainPc
  /\ alive \in BOOLEAN
  /\ added \in 0 .. NumTasks
  /\ pending \subseteq 1 .. added
  /\ it \in 1 .. NumTasks + 1
  /\ ranTask \in BOOLEAN
  /\ mtx \in Worker \cup {Main, Nobody}
  /\ finished \in [Task -> BOOLEAN]
  /\ body \in [Task -> {"idle", "running", "done"}]

Init ==
  /\ PoolInit
  /\ running = TRUE
  /\ mpc = "loop"
  /\ alive = FALSE
  /\ added = 0
  /\ pending = {}
  /\ it = 1
  /\ ranTask = FALSE
  /\ mtx = Nobody
  /\ finished = [t \in Task |-> FALSE]
  /\ body = [t \in Task |-> "idle"]

-----------------------------------------------------------------------------
(* visionLoop. *)

StopRunning ==
  /\ running
  /\ running' = FALSE
  /\ UNCHANGED <<poolVars, mpc, alive, added, pending, it, ranTask, mtx, finished, body>>

NewScheduler ==
  /\ mpc = "loop"
  /\ running
  /\ mpc' = "image"
  /\ alive' = TRUE
  /\ added' = 0
  /\ pending' = {}
  /\ finished' = [t \in Task |-> FALSE]
  /\ body' = [t \in Task |-> "idle"]
  /\ UNCHANGED <<poolVars, running, it, ranTask, mtx>>

(* image_subscriber.next() returns. *)
NextImage ==
  /\ mpc = "image"
  /\ mpc' = "add"
  /\ UNCHANGED <<poolVars, running, alive, added, pending, it, ranTask, mtx, finished, body>>

AddTask ==
  /\ mpc = "add"
  /\ added < NumTasks
  /\ mtx = Nobody
  /\ added' = added + 1
  /\ pending' = pending \cup {added + 1}
  /\ UNCHANGED <<poolVars, running, mpc, alive, it, ranTask, mtx, finished, body>>

CallRun ==
  /\ mpc = "add"
  /\ added = NumTasks
  /\ mpc' = "lock"
  /\ UNCHANGED <<poolVars, running, alive, added, pending, it, ranTask, mtx, finished, body>>

(* run() has returned: the scheduler goes out of scope at the end of the loop body. *)
DestroyScheduler ==
  /\ mpc = "returned"
  /\ mpc' = "loop"
  /\ alive' = FALSE
  /\ UNCHANGED <<poolVars, running, added, pending, it, ranTask, mtx, finished, body>>

LeaveLoop ==
  /\ mpc = "loop"
  /\ ~running
  /\ mpc' = "shutdown"
  /\ UNCHANGED <<poolVars, running, alive, added, pending, it, ranTask, mtx, finished, body>>

(* Wrong: the deque is shut down before the flag is set. *)
DestroyPool_dequeFirst ==
  /\ \/ mpc = "shutdown" /\ ShutdownDeque /\ mpc' = "deque"
     \/ mpc = "deque" /\ SetShutdownFlag /\ mpc' = "join"
     \/ mpc = "join" /\ Joinable /\ mpc' = "joined" /\ UNCHANGED poolVars
  /\ UNCHANGED <<running, alive, added, pending, it, ranTask, mtx, finished, body>>

(* The pool's destructor. *)
DestroyPool ==
  /\ \/ mpc = "shutdown" /\ SetShutdownFlag /\ mpc' = "deque"
     \/ mpc = "deque" /\ ShutdownDeque /\ mpc' = "join"
     \/ mpc = "join" /\ Joinable /\ mpc' = "joined" /\ UNCHANGED poolVars
  /\ UNCHANGED <<running, alive, added, pending, it, ranTask, mtx, finished, body>>

-----------------------------------------------------------------------------
(* TaskScheduler::run. *)

DepsFinished(t) == \A d \in Deps[t] : finished[d]

(* Wrong: run() returns once everything is handed to the pool. *)
AllTasksFinished_scheduled == pending = {}

AllTasksFinished == \A t \in 1 .. added : finished[t]

(* A new iteration of while (true): take the lock, start the scan. *)
LockAndScan ==
  /\ mpc = "lock"
  /\ mtx = Nobody
  /\ mtx' = Main
  /\ mpc' = "scan"
  /\ it' = 1
  /\ ranTask' = FALSE
  /\ UNCHANGED <<poolVars, running, alive, added, pending, finished, body>>

(* Wrong: the iterator is advanced after erase has already advanced it. *)
ScanTask_skip ==
  /\ mpc = "scan"
  /\ it <= added
  /\ \/ /\ it \in pending
        /\ DepsFinished(it)
        /\ PoolRun(it)
        /\ pending' = pending \ {it}
        /\ ranTask' = TRUE
        /\ it' = it + 2
     \/ /\ it \notin pending \/ ~DepsFinished(it)
        /\ it' = it + 1
        /\ UNCHANGED <<poolVars, pending, ranTask>>
  /\ UNCHANGED <<running, mpc, alive, added, mtx, finished, body>>

(* One round of the for loop: hand the task to the pool, or go past it. *)
ScanTask ==
  /\ mpc = "scan"
  /\ it <= added
  /\ it' = it + 1
  /\ \/ /\ it \in pending
        /\ DepsFinished(it)
        /\ PoolRun(it)
        /\ pending' = pending \ {it}
        /\ ranTask' = TRUE
     \/ /\ it \notin pending \/ ~DepsFinished(it)
        /\ UNCHANGED <<poolVars, pending, ranTask>>
  /\ UNCHANGED <<running, mpc, alive, added, mtx, finished, body>>

(* After the scan: continue, break or cv.wait; each of them releases the mutex. *)
AfterScan ==
  \/ ranTask /\ mpc' = "lock"
  \/ ~ranTask /\ AllTasksFinished /\ mpc' = "returned"
  \/ ~ranTask /\ ~AllTasksFinished /\ mpc' = "wait"

EndScan ==
  /\ mpc = "scan"
  /\ it > added
  /\ AfterScan
  /\ mtx' = Nobody
  /\ UNCHANGED <<poolVars, running, alive, added, pending, it, ranTask, finished, body>>

MainSpuriousWake ==
  /\ mpc = "wait"
  /\ mpc' = "relock"
  /\ UNCHANGED <<poolVars, running, alive, added, pending, it, ranTask, mtx, finished, body>>

(* cv.wait returns with the mutex held, and the end of the iteration releases it. *)
Relock ==
  /\ mpc = "relock"
  /\ mtx = Nobody
  /\ mtx' = Main
  /\ mpc' = "unlock"
  /\ UNCHANGED <<poolVars, running, alive, added, pending, it, ranTask, finished, body>>

UnlockMain ==
  /\ mpc = "unlock"
  /\ mtx' = Nobody
  /\ mpc' = "lock"
  /\ UNCHANGED <<poolVars, running, alive, added, pending, it, ranTask, finished, body>>

-----------------------------------------------------------------------------
(* The closure that ThreadPool::run puts in the deque: the packaged task, then setFinshed. *)

StartBody(w) ==
  /\ wpc[w] = "call"
  /\ job[w] # NoTask
  /\ body[job[w]] = "idle"
  /\ body' = [body EXCEPT ![job[w]] = "running"]
  /\ UNCHANGED <<poolVars, mainVars, mtx, finished>>

EndBody(w) ==
  /\ wpc[w] = "call"
  /\ job[w] # NoTask
  /\ body[job[w]] = "running"
  /\ body' = [body EXCEPT ![job[w]] = "done"]
  /\ UNCHANGED <<poolVars, mainVars, mtx, finished>>

(* setFinshed: lock, store and notify, unlock. *)
InSetFinished(w) ==
  /\ wpc[w] = "call"
  /\ job[w] # NoTask
  /\ body[job[w]] = "done"

(* Wrong: `finished` is stored and notified before the mutex is taken. *)
LockFinished_late(w) ==
  /\ InSetFinished(w)
  /\ \/ /\ ~finished[job[w]]
        /\ finished' = [finished EXCEPT ![job[w]] = TRUE]
        /\ mpc' = IF mpc = "wait" THEN "relock" ELSE mpc
        /\ UNCHANGED mtx
     \/ /\ finished[job[w]]
        /\ mtx = Nobody
        /\ mtx' = w
        /\ UNCHANGED <<finished, mpc>>
  /\ UNCHANGED <<poolVars, running, alive, added, pending, it, ranTask, body>>

LockFinished(w) ==
  /\ InSetFinished(w)
  /\ mtx = Nobody
  /\ mtx' = w
  /\ UNCHANGED <<poolVars, mainVars, finished, body>>

(* Wrong: nobody is notified. *)
WakeMain_never == UNCHANGED mpc

(* cv->notify_all: the main thread is the only one that ever waits on it. *)
WakeMain == mpc' = IF mpc = "wait" THEN "relock" ELSE mpc

StoreFinished(w) ==
  /\ InSetFinished(w)
  /\ mtx = w
  /\ ~finished[job[w]]
  /\ finished' = [finished EXCEPT ![job[w]] = TRUE]
  /\ WakeMain
  /\ UNCHANGED <<poolVars, running, alive, added, pending, it, ranTask, mtx, body>>

UnlockFinished(w) ==
  /\ InSetFinished(w)
  /\ mtx = w
  /\ finished[job[w]]
  /\ mtx' = Nobody
  /\ TaskReturns(w)
  /\ UNCHANGED <<mainVars, finished, body>>

-----------------------------------------------------------------------------

PoolStep(w) == WorkerLoop(w) /\ UNCHANGED <<mainVars, mtx, finished, body>>

WorkerWakes(w) == SpuriousWake(w) /\ UNCHANGED <<mainVars, mtx, finished, body>>

WorkerStep(w) ==
  \/ PoolStep(w)
  \/ StartBody(w)
  \/ EndBody(w)
  \/ LockFinished(w)
  \/ StoreFinished(w)
  \/ UnlockFinished(w)

RunStep ==
  \/ AddTask
  \/ CallRun
  \/ LockAndScan
  \/ ScanTask
  \/ EndScan
  \/ Relock
  \/ UnlockMain
  \/ DestroyScheduler

Terminated == mpc = "joined" /\ UNCHANGED vars

Next ==
  \/ StopRunning
  \/ NewScheduler
  \/ NextImage
  \/ RunStep
  \/ MainSpuriousWake
  \/ LeaveLoop
  \/ DestroyPool
  \/ \E w \in Worker : WorkerStep(w) \/ WorkerWakes(w)
  \/ Terminated

(***************************************************************************)
(* Every thread that can go on does, and a thread that finds the mutex     *)
(* free again and again gets it in the end: spurious wake-ups of the main  *)
(* thread may otherwise take it each time.  Nothing is assumed about       *)
(* images, the signal handler or spurious wake-ups: in particular no       *)
(* progress rests on a thread that wakes up by itself.                     *)
(***************************************************************************)
Fairness ==
  /\ WF_vars(RunStep)
  /\ WF_vars(DestroyPool)
  /\ \A w \in Worker : WF_vars(WorkerStep(w)) /\ SF_vars(LockFinished(w))

Spec == Init /\ [][Next]_vars

FairSpec == Spec /\ Fairness

-----------------------------------------------------------------------------
(* Properties. *)

(***************************************************************************)
(* A task runs only after every task it depends on has completely run, so  *)
(* localization and the trackers read what vision wrote for this frame and *)
(* never while it is still writing.                                        *)
(***************************************************************************)
DependenciesRespected ==
  \A t \in Task : body[t] # "idle" => \A d \in Deps[t] : body[d] = "done"

(***************************************************************************)
(* A task is in one place only: still to be scheduled, in the deque once,  *)
(* or with a single worker.  No task of a frame is run twice or by two     *)
(* workers, however run() and the workers interleave.                      *)
(***************************************************************************)
TaskInOnePlace ==
  /\ \A i, j \in 1 .. Len(storage) : storage[i] = storage[j] => i = j
  /\ \A v, w \in Worker : job[v] = job[w] /\ job[v] # NoTask => v = w
  /\ \A i \in 1 .. Len(storage) :
       /\ storage[i] \notin pending
       /\ \A w \in Worker : job[w] # storage[i]
  /\ \A w \in Worker : job[w] \notin pending

(***************************************************************************)
(* The ExecutionStates, the mutex and the condition variable are members   *)
(* of the scheduler on visionLoop's stack, and the functions of the tasks  *)
(* capture its locals by reference: no worker holds a task, and none is    *)
(* queued, once the scheduler is gone.                                     *)
(***************************************************************************)
SchedulerOutlivesTasks ==
  ~alive => /\ storage = <<>>
            /\ \A w \in Worker : job[w] = NoTask
            /\ mtx = Nobody

(* The scheduler does what TaskGraph asks for: the frame is the scheduler's life. *)
Graph == INSTANCE TaskGraph WITH open <- alive, status <- body

ImplementsTaskGraph == Graph!Spec

(***************************************************************************)
(* Once the tasks are handed over, run() returns and the loop goes on: no  *)
(* notification of a finished task is lost and no worker sleeps beside a   *)
(* task that is ready.                                                     *)
(***************************************************************************)
EveryFrameEnds == mpc = "add" ~> mpc = "loop"

(* The pool's destructor wakes and joins every worker. *)
PoolJoins == mpc = "shutdown" ~> mpc = "joined"

=============================================================================
