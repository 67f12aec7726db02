------------------------- MODULE TaskScheduler_proofs -------------------------
(***************************************************************************)
(* Proofs about TaskScheduler, for every number of workers, every number   *)
(* of tasks and every acyclic dependency relation between them.            *)
(*                                                                         *)
(* The inductive invariant IInv says where a task can be (Tasks, Queue,    *)
(* Workers) and ties that to the position of the main thread (Control,     *)
(* Quiet).  Its core is the clause of Workers on the mutex: a worker whose *)
(* task is marked finished still owns the scheduler's mutex, so the main   *)
(* thread, which reads `finished` only under that mutex, cannot see all    *)
(* tasks finished while a worker is inside setFinshed.                     *)
(***************************************************************************)
EXTENDS TaskScheduler, TLAPS

InFrame == {"image", "add", "lock", "scan", "wait", "relock", "unlock", "returned"}
InRun == {"lock", "scan", "wait", "relock", "unlock"}

Control ==
  /\ alive <=> mpc \in InFrame
  /\ shutdownFlag <=> mpc \in {"deque", "join", "joined"}
  /\ dequeShutdown <=> mpc \in {"join", "joined"}
  /\ mpc \in InRun \cup {"returned"} => added = NumTasks
  /\ mtx = Main <=> mpc \in {"scan", "unlock"}

Quiet ==
  /\ mpc \notin InRun => storage = <<>> /\ \A w \in Worker : job[w] = NoTask
  /\ mpc = "returned" => \A t \in Task : finished[t]

Workers ==
  \A w \in Worker :
    /\ job[w] # NoTask => wpc[w] \in {"got", "call"}
    /\ wpc[w] = "call" => job[w] # NoTask
    /\ wpc[w] = "got" /\ job[w] = NoTask => dequeShutdown
    /\ mtx = w => wpc[w] = "call" /\ body[job[w]] = "done"
    /\ job[w] # NoTask => /\ job[w] <= added
                          /\ wpc[w] = "got" => body[job[w]] = "idle"
                          /\ finished[job[w]] => mtx = w

Queue ==
  \A i \in 1 .. Len(storage) : storage[i] <= added /\ body[storage[i]] = "idle"

Tasks ==
  \A t \in Task :
    /\ finished[t] => body[t] = "done"
    /\ body[t] # "idle" => t <= added /\ t \notin pending
    /\ t <= added /\ t \notin pending => \A d \in Deps[t] : finished[d]

IInv ==
  /\ TypeOK
  /\ Control
  /\ Quiet
  /\ Workers
  /\ Queue
  /\ Tasks
  /\ TaskInOnePlace

-----------------------------------------------------------------------------

(* What push_back and pop_front do to the deque. *)
LEMMA AppendedTask ==
  ASSUME NEW S, NEW s \in Seq(S), NEW e \in S
  PROVE  /\ Append(s, e) \in Seq(S)
         /\ Len(s) \in Nat
         /\ Len(Append(s, e)) = Len(s) + 1
         /\ Append(s, e)[Len(s) + 1] = e
         /\ \A i \in 1 .. Len(s) : Append(s, e)[i] = s[i] /\ s[i] \in S
  OBVIOUS

LEMMA PoppedTask ==
  ASSUME NEW S, NEW s \in Seq(S), s # <<>>
  PROVE  /\ Tail(s) \in Seq(S)
         /\ Head(s) = s[1] /\ Head(s) \in S
         /\ Len(s) \in Nat /\ Len(Tail(s)) = Len(s) - 1
         /\ 1 \in 1 .. Len(s)
         /\ \A i \in 1 .. Len(Tail(s)) :
              Tail(s)[i] = s[i + 1] /\ i + 1 \in 1 .. Len(s)
  OBVIOUS

LEMMA InitIInv == Init => IInv
<1> SUFFICES ASSUME Init PROVE IInv
  OBVIOUS
<1> USE PoolAssumption, SchedulerAssumption DEF Init, PoolInit
<1>1. TypeOK
  <2>1. PoolTypeOK
    <3>1. storage \in Seq(Task)
      OBVIOUS
    <3>2. wpc \in [Worker -> WorkerPc]
      BY DEF WorkerPc
    <3>3. job \in [Worker -> Task \cup {NoTask}]
      OBVIOUS
    <3> QED
      BY <3>1, <3>2, <3>3 DEF PoolTypeOK
  <2>2. added \in 0 .. NumTasks /\ pending \subseteq 1 .. added /\ it \in 1 .. NumTasks + 1
    OBVIOUS
  <2>3. running \in BOOLEAN /\ alive \in BOOLEAN /\ ranTask \in BOOLEAN
    OBVIOUS
  <2>4. mpc \in MainPc
    BY DEF MainPc
  <2>5. mtx \in Worker \cup {Main, Nobody}
    OBVIOUS
  <2>6. finished \in [Task -> BOOLEAN] /\ body \in [Task -> {"idle", "running", "done"}]
    OBVIOUS
  <2> QED
    BY <2>1, <2>2, <2>3, <2>4, <2>5, <2>6 DEF TypeOK
<1>2. Control
  BY DEF Control, InFrame, InRun
<1>3. Quiet /\ Workers /\ Queue
  BY DEF Quiet, Workers, Queue, InRun
<1>4. Tasks
  BY DEF Tasks, Task
<1>5. TaskInOnePlace
  BY DEF TaskInOnePlace
<1> QED
  BY <1>1, <1>2, <1>3, <1>4, <1>5 DEF IInv

LEMMA StopRunningIInv ==
  ASSUME IInv, StopRunning
  PROVE  IInv'
<1> USE PoolAssumption, SchedulerAssumption DEF IInv, StopRunning, mainVars, poolVars
<1>1. TypeOK'
  BY DEF TypeOK, PoolTypeOK, WorkerPc, MainPc
<1>2. Control'
  BY DEF Control, InFrame, InRun
<1>3. Quiet'
  BY DEF Quiet
<1>4. Workers'
  BY DEF Workers
<1>5. Queue'
  BY DEF Queue
<1>6. Tasks'
  BY DEF Tasks
<1>7. TaskInOnePlace'
  BY DEF TaskInOnePlace
<1> QED
  BY <1>1, <1>2, <1>3, <1>4, <1>5, <1>6, <1>7

LEMMA NewSchedulerIInv ==
  ASSUME IInv, NewScheduler
  PROVE  IInv'
<1> USE PoolAssumption, SchedulerAssumption DEF IInv, NewScheduler, mainVars, poolVars
<1>1. TypeOK'
  BY DEF TypeOK, PoolTypeOK, WorkerPc, MainPc
<1>2. Control'
  BY DEF Control, InFrame, InRun
<1>3. Quiet'
  BY DEF Quiet, InRun
<1>4. Workers'
  BY DEF Workers, Control, Tasks, TaskInOnePlace, Quiet, InRun, Queue, TypeOK, PoolTypeOK, Task, NoTask
<1>5. Queue'
  BY DEF Queue, Quiet, InRun, TaskInOnePlace, TypeOK, PoolTypeOK
<1>6. Tasks'
  BY DEF Tasks, TypeOK, PoolTypeOK
<1>7. TaskInOnePlace'
  BY DEF TaskInOnePlace
<1> QED
  BY <1>1, <1>2, <1>3, <1>4, <1>5, <1>6, <1>7

LEMMA NextImageIInv ==
  ASSUME IInv, NextImage
  PROVE  IInv'
<1> USE PoolAssumption, SchedulerAssumption DEF IInv, NextImage, mainVars, poolVars
<1>1. TypeOK'
  BY DEF TypeOK, PoolTypeOK, WorkerPc, MainPc
<1>2. Control'
  BY DEF Control, InFrame, InRun
<1>3. Quiet'
  BY DEF Quiet, InRun
<1>4. Workers'
  BY DEF Workers
<1>5. Queue'
  BY DEF Queue
<1>6. Tasks'
  BY DEF Tasks
<1>7. TaskInOnePlace'
  BY DEF TaskInOnePlace
<1> QED
  BY <1>1, <1>2, <1>3, <1>4, <1>5, <1>6, <1>7

LEMMA AddTaskIInv ==
  ASSUME IInv, AddTask
  PROVE  IInv'
<1> USE PoolAssumption, SchedulerAssumption DEF IInv, AddTask, mainVars, poolVars
<1>1. TypeOK'
  BY DEF TypeOK, PoolTypeOK, WorkerPc, MainPc
<1>2. Control'
  BY DEF Control, InFrame, InRun
<1>3. Quiet'
  BY DEF Quiet
<1>4. Workers'
  BY DEF Workers, TypeOK, PoolTypeOK
<1>5. Queue'
  BY DEF Queue, Quiet, InRun, TaskInOnePlace, TypeOK, PoolTypeOK
<1>6. Tasks'
  BY DEF Tasks, TypeOK, PoolTypeOK
<1>7. TaskInOnePlace'
  BY DEF TaskInOnePlace, Quiet, InRun, TypeOK, PoolTypeOK, Task, NoTask
<1> QED
  BY <1>1, <1>2, <1>3, <1>4, <1>5, <1>6, <1>7

LEMMA CallRunIInv ==
  ASSUME IInv, CallRun
  PROVE  IInv'
<1> USE PoolAssumption, SchedulerAssumption DEF IInv, CallRun, mainVars, poolVars
<1>1. TypeOK'
  BY DEF TypeOK, PoolTypeOK, WorkerPc, MainPc
<1>2. Control'
  BY DEF Control, InFrame, InRun
<1>3. Quiet'
  BY DEF Quiet, InRun
<1>4. Workers'
  BY DEF Workers
<1>5. Queue'
  BY DEF Queue
<1>6. Tasks'
  BY DEF Tasks
<1>7. TaskInOnePlace'
  BY DEF TaskInOnePlace
<1> QED
  BY <1>1, <1>2, <1>3, <1>4, <1>5, <1>6, <1>7

LEMMA LockAndScanIInv ==
  ASSUME IInv, LockAndScan
  PROVE  IInv'
<1> USE PoolAssumption, SchedulerAssumption DEF IInv, LockAndScan, mainVars, poolVars
<1>1. TypeOK'
  <2>1. it' \in 1 .. NumTasks + 1
    OBVIOUS
  <2> QED
    BY <2>1 DEF TypeOK, PoolTypeOK, MainPc
<1>2. Control'
  BY DEF Control, InFrame, InRun
<1>3. Quiet'
  BY DEF Quiet, InRun
<1>4. Workers'
  BY DEF Workers
<1>5. Queue'
  BY DEF Queue
<1>6. Tasks'
  BY DEF Tasks
<1>7. TaskInOnePlace'
  BY DEF TaskInOnePlace
<1> QED
  BY <1>1, <1>2, <1>3, <1>4, <1>5, <1>6, <1>7

LEMMA ScanTaskIInv ==
  ASSUME IInv, ScanTask
  PROVE  IInv'
<1> USE PoolAssumption, SchedulerAssumption DEF IInv, mainVars, poolVars
<1> DEFINE Pushed == storage' = Append(storage, it)
<1>1. TypeOK'
  <2>1. it \in Task /\ it' \in 1 .. NumTasks + 1
    BY DEF TypeOK, Task, ScanTask
  <2>2. pending' \subseteq 1 .. added'
    BY DEF TypeOK, ScanTask
  <2>3. storage' = storage \/ Pushed
    BY DEF ScanTask, PoolRun, PushBack
  <2>4. storage' \in Seq(Task)
    BY <2>1, <2>3, AppendedTask DEF TypeOK, PoolTypeOK
  <2>5. wpc' \in [Worker -> WorkerPc]
    BY DEF TypeOK, PoolTypeOK, WorkerPc, ScanTask, PoolRun, PushBack, NotifyOne, Sleepers
  <2> QED
    BY <2>1, <2>2, <2>4, <2>5 DEF TypeOK, PoolTypeOK, ScanTask, PoolRun
<1>2. Control'
  BY DEF Control, InFrame, InRun, ScanTask, PoolRun, PushBack, NotifyOne, Sleepers, DepsFinished
<1>3. Quiet'
  BY DEF Quiet, InRun, ScanTask, PoolRun, PushBack, NotifyOne, Sleepers, DepsFinished
<1>4. Workers'
  BY DEF Workers, TypeOK, PoolTypeOK, ScanTask, PoolRun, PushBack, NotifyOne, Sleepers, DepsFinished
<1>5. Queue'
  <2>1. CASE storage' = storage
    BY <2>1 DEF TypeOK, PoolTypeOK, Queue, Tasks, ScanTask, PoolRun, PushBack, NotifyOne, Sleepers, DepsFinished
  <2>2. CASE storage' # storage
    <3>1. it \in Task /\ it <= added /\ it \in pending /\ storage' = Append(storage, it)
      BY <2>2 DEF TypeOK, Task, ScanTask, PoolRun, PushBack, NotifyOne, Sleepers, DepsFinished
    <3>2. /\ Len(storage') = Len(storage) + 1 /\ Len(storage) \in Nat
          /\ storage'[Len(storage) + 1] = it
          /\ \A i \in 1 .. Len(storage) : storage'[i] = storage[i] /\ storage[i] \in Task
      BY <3>1, AppendedTask DEF TypeOK, PoolTypeOK, ScanTask, PoolRun, PushBack, NotifyOne, Sleepers, DepsFinished
    <3> QED
      BY <3>1, <3>2 DEF TypeOK, PoolTypeOK, Queue, Tasks, ScanTask, PoolRun, PushBack, NotifyOne, Sleepers, DepsFinished
  <2> QED
    BY <2>1, <2>2
<1>6. Tasks'
  BY DEF Tasks, ScanTask, PoolRun, PushBack, NotifyOne, Sleepers, DepsFinished
<1>7. TaskInOnePlace'
  <2>1. CASE storage' = storage
    BY <2>1 DEF TypeOK, PoolTypeOK, Queue, Workers, TaskInOnePlace, NoTask, ScanTask, PoolRun, PushBack, NotifyOne, Sleepers, DepsFinished
  <2>2. CASE storage' # storage
    <3>1. it \in Task /\ it <= added /\ it \in pending /\ storage' = Append(storage, it)
      BY <2>2 DEF TypeOK, Task, ScanTask, PoolRun, PushBack, NotifyOne, Sleepers, DepsFinished
    <3>2. /\ Len(storage') = Len(storage) + 1 /\ Len(storage) \in Nat
          /\ storage'[Len(storage) + 1] = it
          /\ \A i \in 1 .. Len(storage) : storage'[i] = storage[i] /\ storage[i] \in Task
      BY <3>1, AppendedTask DEF TypeOK, PoolTypeOK, ScanTask, PoolRun, PushBack, NotifyOne, Sleepers, DepsFinished
    <3> QED
      BY <3>1, <3>2 DEF TypeOK, PoolTypeOK, Queue, Workers, TaskInOnePlace, NoTask, Tasks, ScanTask, PoolRun, PushBack, NotifyOne, Sleepers, DepsFinished
  <2> QED
    BY <2>1, <2>2
<1> QED
  BY <1>1, <1>2, <1>3, <1>4, <1>5, <1>6, <1>7

LEMMA EndScanIInv ==
  ASSUME IInv, EndScan
  PROVE  IInv'
<1> USE PoolAssumption, SchedulerAssumption DEF IInv, EndScan, AfterScan, AllTasksFinished, mainVars, poolVars
<1>1. TypeOK'
  BY DEF TypeOK, PoolTypeOK, WorkerPc, MainPc
<1>2. Control'
  BY DEF Control, InFrame, InRun
<1>3. Quiet'
  BY DEF Quiet, InRun, Control, Workers, Queue, Tasks, TypeOK, PoolTypeOK, Task, NoTask, MainPc
<1>4. Workers'
  BY DEF Workers, Control, Tasks, TaskInOnePlace, Quiet, InRun, Queue, TypeOK, PoolTypeOK, Task, NoTask
<1>5. Queue'
  BY DEF Queue
<1>6. Tasks'
  BY DEF Tasks
<1>7. TaskInOnePlace'
  BY DEF TaskInOnePlace
<1> QED
  BY <1>1, <1>2, <1>3, <1>4, <1>5, <1>6, <1>7

LEMMA MainSpuriousWakeIInv ==
  ASSUME IInv, MainSpuriousWake
  PROVE  IInv'
<1> USE PoolAssumption, SchedulerAssumption DEF IInv, MainSpuriousWake, mainVars, poolVars
<1>1. TypeOK'
  BY DEF TypeOK, PoolTypeOK, WorkerPc, MainPc
<1>2. Control'
  BY DEF Control, InFrame, InRun
<1>3. Quiet'
  BY DEF Quiet, InRun
<1>4. Workers'
  BY DEF Workers
<1>5. Queue'
  BY DEF Queue
<1>6. Tasks'
  BY DEF Tasks
<1>7. TaskInOnePlace'
  BY DEF TaskInOnePlace
<1> QED
  BY <1>1, <1>2, <1>3, <1>4, <1>5, <1>6, <1>7

LEMMA RelockIInv ==
  ASSUME IInv, Relock
  PROVE  IInv'
<1> USE PoolAssumption, SchedulerAssumption DEF IInv, Relock, mainVars, poolVars
<1>1. TypeOK'
  BY DEF TypeOK, PoolTypeOK, WorkerPc, MainPc
<1>2. Control'
  BY DEF Control, InFrame, InRun
<1>3. Quiet'
  BY DEF Quiet, InRun
<1>4. Workers'
  BY DEF Workers
<1>5. Queue'
  BY DEF Queue
<1>6. Tasks'
  BY DEF Tasks
<1>7. TaskInOnePlace'
  BY DEF TaskInOnePlace
<1> QED
  BY <1>1, <1>2, <1>3, <1>4, <1>5, <1>6, <1>7

LEMMA UnlockMainIInv ==
  ASSUME IInv, UnlockMain
  PROVE  IInv'
<1> USE PoolAssumption, SchedulerAssumption DEF IInv, UnlockMain, mainVars, poolVars
<1>1. TypeOK'
  BY DEF TypeOK, PoolTypeOK, WorkerPc, MainPc
<1>2. Control'
  BY DEF Control, InFrame, InRun
<1>3. Quiet'
  BY DEF Quiet, InRun
<1>4. Workers'
  BY DEF Workers, Control, Tasks, TaskInOnePlace, Quiet, InRun, Queue, TypeOK, PoolTypeOK, Task, NoTask
<1>5. Queue'
  BY DEF Queue
<1>6. Tasks'
  BY DEF Tasks
<1>7. TaskInOnePlace'
  BY DEF TaskInOnePlace
<1> QED
  BY <1>1, <1>2, <1>3, <1>4, <1>5, <1>6, <1>7

LEMMA DestroySchedulerIInv ==
  ASSUME IInv, DestroyScheduler
  PROVE  IInv'
<1> USE PoolAssumption, SchedulerAssumption DEF IInv, DestroyScheduler, mainVars, poolVars
<1>1. TypeOK'
  BY DEF TypeOK, PoolTypeOK, WorkerPc, MainPc
<1>2. Control'
  BY DEF Control, InFrame, InRun
<1>3. Quiet'
  BY DEF Quiet, InRun
<1>4. Workers'
  BY DEF Workers
<1>5. Queue'
  BY DEF Queue
<1>6. Tasks'
  BY DEF Tasks
<1>7. TaskInOnePlace'
  BY DEF TaskInOnePlace
<1> QED
  BY <1>1, <1>2, <1>3, <1>4, <1>5, <1>6, <1>7

LEMMA LeaveLoopIInv ==
  ASSUME IInv, LeaveLoop
  PROVE  IInv'
<1> USE PoolAssumption, SchedulerAssumption DEF IInv, LeaveLoop, mainVars, poolVars
<1>1. TypeOK'
  BY DEF TypeOK, PoolTypeOK, WorkerPc, MainPc
<1>2. Control'
  BY DEF Control, InFrame, InRun
<1>3. Quiet'
  BY DEF Quiet, InRun
<1>4. Workers'
  BY DEF Workers
<1>5. Queue'
  BY DEF Queue
<1>6. Tasks'
  BY DEF Tasks
<1>7. TaskInOnePlace'
  BY DEF TaskInOnePlace
<1> QED
  BY <1>1, <1>2, <1>3, <1>4, <1>5, <1>6, <1>7

LEMMA DestroyPoolIInv ==
  ASSUME IInv, DestroyPool
  PROVE  IInv'
<1> USE PoolAssumption, SchedulerAssumption DEF IInv, DestroyPool, SetShutdownFlag, ShutdownDeque, NotifyAll, Sleepers, Joinable, mainVars, poolVars
<1>1. TypeOK'
  BY DEF TypeOK, PoolTypeOK, WorkerPc, MainPc
<1>2. Control'
  BY DEF Control, InFrame, InRun
<1>3. Quiet'
  BY DEF Quiet, InRun
<1>4. Workers'
  BY DEF Workers
<1>5. Queue'
  BY DEF Queue
<1>6. Tasks'
  BY DEF Tasks
<1>7. TaskInOnePlace'
  BY DEF TaskInOnePlace
<1> QED
  BY <1>1, <1>2, <1>3, <1>4, <1>5, <1>6, <1>7

LEMMA PoolStepIInv ==
  ASSUME IInv, NEW w \in Worker, PoolStep(w)
  PROVE  IInv'
<1> USE PoolAssumption, SchedulerAssumption DEF IInv, PoolStep, WorkerLoop, CheckShutdown, WaitForTask, PopFront, CallTask, DropTask, mainVars, poolVars
<1>1. TypeOK'
  BY DEF TypeOK, PoolTypeOK, WorkerPc, MainPc
<1>2. Control'
  BY DEF Control, InFrame, InRun
<1>3. Quiet'
  BY DEF Quiet, InRun, Control, TypeOK, PoolTypeOK, Task
<1>4. Workers'
  BY DEF Workers, Control, Tasks, TaskInOnePlace, Quiet, InRun, Queue, TypeOK, PoolTypeOK, Task, NoTask
<1>5. Queue'
  BY DEF Queue
<1>6. Tasks'
  BY DEF Tasks
<1>7. TaskInOnePlace'
  <2>1. CASE PopFront(w) /\ storage # <<>>
    <3>1. storage' = Tail(storage) /\ job' = [job EXCEPT ![w] = Head(storage)]
      BY <2>1
    <3>2. /\ Len(storage) \in Nat /\ Len(storage') = Len(storage) - 1
          /\ 1 \in 1 .. Len(storage) /\ Head(storage) = storage[1]
          /\ \A i \in 1 .. Len(storage') : storage'[i] = storage[i + 1] /\ i + 1 \in 1 .. Len(storage)
      BY <2>1, <3>1, PoppedTask DEF TypeOK, PoolTypeOK
    <3> HIDE DEF PopFront, PoolStep, WorkerLoop
    <3>3. pending' = pending
      BY DEF PoolStep
    <3> QED
      BY <3>1, <3>2, <3>3 DEF TypeOK, PoolTypeOK, TaskInOnePlace, NoTask
  <2>2. CASE storage' = storage /\ (job' = job \/ job' = [job EXCEPT ![w] = NoTask])
    <3>1. pending' = pending /\ NoTask \notin pending
      BY DEF TypeOK, NoTask
    <3>2. \A i \in 1 .. Len(storage) : storage[i] # NoTask
      BY DEF TypeOK, PoolTypeOK, Task, NoTask
    <3> HIDE DEF PopFront, PoolStep, WorkerLoop, NoTask
    <3> QED
      BY <2>2, <3>1, <3>2 DEF TypeOK, PoolTypeOK, TaskInOnePlace
  <2> QED
    BY <2>1, <2>2
<1> QED
  BY <1>1, <1>2, <1>3, <1>4, <1>5, <1>6, <1>7

LEMMA WorkerWakesIInv ==
  ASSUME IInv, NEW w \in Worker, WorkerWakes(w)
  PROVE  IInv'
<1> USE PoolAssumption, SchedulerAssumption DEF IInv, WorkerWakes, SpuriousWake, mainVars, poolVars
<1>1. TypeOK'
  BY DEF TypeOK, PoolTypeOK, WorkerPc, MainPc
<1>2. Control'
  BY DEF Control, InFrame, InRun
<1>3. Quiet'
  BY DEF Quiet
<1>4. Workers'
  BY DEF Workers
<1>5. Queue'
  BY DEF Queue
<1>6. Tasks'
  BY DEF Tasks
<1>7. TaskInOnePlace'
  BY DEF TaskInOnePlace
<1> QED
  BY <1>1, <1>2, <1>3, <1>4, <1>5, <1>6, <1>7

LEMMA StartBodyIInv ==
  ASSUME IInv, NEW w \in Worker, StartBody(w)
  PROVE  IInv'
<1> USE PoolAssumption, SchedulerAssumption DEF IInv, StartBody, mainVars, poolVars
<1>1. TypeOK'
  BY DEF TypeOK, PoolTypeOK, WorkerPc, MainPc
<1>2. Control'
  BY DEF Control, InFrame, InRun
<1>3. Quiet'
  BY DEF Quiet
<1>4. Workers'
  BY DEF Workers, Control, Tasks, TaskInOnePlace, Quiet, InRun, Queue, TypeOK, PoolTypeOK, Task, NoTask
<1>5. Queue'
  BY DEF Queue, TaskInOnePlace, TypeOK, PoolTypeOK
<1>6. Tasks'
  BY DEF TypeOK, PoolTypeOK, Tasks, Workers, TaskInOnePlace, NoTask
<1>7. TaskInOnePlace'
  BY DEF TaskInOnePlace
<1> QED
  BY <1>1, <1>2, <1>3, <1>4, <1>5, <1>6, <1>7

LEMMA EndBodyIInv ==
  ASSUME IInv, NEW w \in Worker, EndBody(w)
  PROVE  IInv'
<1> USE PoolAssumption, SchedulerAssumption DEF IInv, EndBody, mainVars, poolVars
<1>1. TypeOK'
  BY DEF TypeOK, PoolTypeOK, WorkerPc, MainPc
<1>2. Control'
  BY DEF Control, InFrame, InRun
<1>3. Quiet'
  BY DEF Quiet
<1>4. Workers'
  BY DEF Workers
<1>5. Queue'
  BY DEF Queue
<1>6. Tasks'
  BY DEF Tasks
<1>7. TaskInOnePlace'
  BY DEF TaskInOnePlace
<1> QED
  BY <1>1, <1>2, <1>3, <1>4, <1>5, <1>6, <1>7

LEMMA LockFinishedIInv ==
  ASSUME IInv, NEW w \in Worker, LockFinished(w)
  PROVE  IInv'
<1> USE PoolAssumption, SchedulerAssumption DEF IInv, LockFinished, InSetFinished, mainVars, poolVars
<1>1. TypeOK'
  BY DEF TypeOK, PoolTypeOK, WorkerPc, MainPc
<1>2. Control'
  BY DEF Control, InFrame, InRun
<1>3. Quiet'
  BY DEF Quiet
<1>4. Workers'
  BY DEF Workers
<1>5. Queue'
  BY DEF Queue
<1>6. Tasks'
  BY DEF Tasks
<1>7. TaskInOnePlace'
  BY DEF TaskInOnePlace
<1> QED
  BY <1>1, <1>2, <1>3, <1>4, <1>5, <1>6, <1>7

LEMMA StoreFinishedIInv ==
  ASSUME IInv, NEW w \in Worker, StoreFinished(w)
  PROVE  IInv'
<1> USE PoolAssumption, SchedulerAssumption DEF IInv, StoreFinished, InSetFinished, WakeMain, mainVars, poolVars
<1>1. TypeOK'
  BY DEF TypeOK, PoolTypeOK, WorkerPc, MainPc
<1>2. Control'
  BY DEF Control, InFrame, InRun
<1>3. Quiet'
  BY DEF Quiet, InRun
<1>4. Workers'
  BY DEF Workers, Control, Tasks, TaskInOnePlace, Quiet, InRun, Queue, TypeOK, PoolTypeOK, Task, NoTask
<1>5. Queue'
  BY DEF Queue
<1>6. Tasks'
  BY DEF Tasks
<1>7. TaskInOnePlace'
  BY DEF TaskInOnePlace
<1> QED
  BY <1>1, <1>2, <1>3, <1>4, <1>5, <1>6, <1>7

LEMMA UnlockFinishedIInv ==
  ASSUME IInv, NEW w \in Worker, UnlockFinished(w)
  PROVE  IInv'
<1> USE PoolAssumption, SchedulerAssumption DEF IInv, UnlockFinished, InSetFinished, TaskReturns, mainVars, poolVars
<1>1. TypeOK'
  BY DEF TypeOK, PoolTypeOK, WorkerPc, MainPc
<1>2. Control'
  BY DEF Control, InFrame, InRun
<1>3. Quiet'
  BY DEF Quiet
<1>4. Workers'
  BY DEF Workers, TypeOK, PoolTypeOK
<1>5. Queue'
  BY DEF Queue
<1>6. Tasks'
  BY DEF Tasks
<1>7. TaskInOnePlace'
  BY DEF TaskInOnePlace, Quiet, InRun, TypeOK, PoolTypeOK, Task, NoTask
<1> QED
  BY <1>1, <1>2, <1>3, <1>4, <1>5, <1>6, <1>7

-----------------------------------------------------------------------------

LEMMA NextIInv == IInv /\ [Next]_vars => IInv'
<1> SUFFICES ASSUME IInv, [Next]_vars PROVE IInv'
  OBVIOUS
<1>1. CASE StopRunning
  BY <1>1, StopRunningIInv
<1>2. CASE NewScheduler
  BY <1>2, NewSchedulerIInv
<1>3. CASE NextImage
  BY <1>3, NextImageIInv
<1>4. CASE AddTask
  BY <1>4, AddTaskIInv
<1>5. CASE CallRun
  BY <1>5, CallRunIInv
<1>6. CASE LockAndScan
  BY <1>6, LockAndScanIInv
<1>7. CASE ScanTask
  BY <1>7, ScanTaskIInv
<1>8. CASE EndScan
  BY <1>8, EndScanIInv
<1>9. CASE MainSpuriousWake
  BY <1>9, MainSpuriousWakeIInv
<1>10. CASE Relock
  BY <1>10, RelockIInv
<1>11. CASE UnlockMain
  BY <1>11, UnlockMainIInv
<1>12. CASE DestroyScheduler
  BY <1>12, DestroySchedulerIInv
<1>13. CASE LeaveLoop
  BY <1>13, LeaveLoopIInv
<1>14. CASE DestroyPool
  BY <1>14, DestroyPoolIInv
<1>15. CASE \E w \in Worker : WorkerStep(w) \/ WorkerWakes(w)
  <2>1. PICK w \in Worker : WorkerStep(w) \/ WorkerWakes(w)
    BY <1>15
  <2> QED
    BY <2>1, PoolStepIInv, WorkerWakesIInv, StartBodyIInv, EndBodyIInv,
       LockFinishedIInv, StoreFinishedIInv, UnlockFinishedIInv DEF WorkerStep
<1>16. CASE UNCHANGED vars
  BY <1>16 DEF vars, mainVars, poolVars, IInv, TypeOK, PoolTypeOK, Control, Quiet, Workers, Queue,
     Tasks, TaskInOnePlace
<1> QED
  BY <1>1, <1>2, <1>3, <1>4, <1>5, <1>6, <1>7, <1>8, <1>9, <1>10, <1>11, <1>12, <1>13, <1>14, <1>15, <1>16 DEF Next, RunStep, Terminated

LEMMA Invariance == Spec => []IInv
  BY InitIInv, NextIInv, PTL DEF Spec

-----------------------------------------------------------------------------

(* The variables always hold values of their types. *)
THEOREM TypeCorrect == Spec => []TypeOK
<1>1. IInv => TypeOK
  BY DEF IInv
<1> QED
  BY <1>1, Invariance, PTL

(***************************************************************************)
(* run() hands a task to the pool only when its dependencies have stored   *)
(* `finished`, which happens after their functions returned: no task ever  *)
(* runs beside or before one it depends on.                                *)
(***************************************************************************)
THEOREM DependencyOrder == Spec => []DependenciesRespected
<1>1. IInv => DependenciesRespected
  BY SchedulerAssumption DEF IInv, Tasks, TypeOK, DependenciesRespected
<1> QED
  BY <1>1, Invariance, PTL

(* No task is handed to the pool twice, or held by two workers. *)
THEOREM RunOnce == Spec => []TaskInOnePlace
<1>1. IInv => TaskInOnePlace
  BY DEF IInv
<1> QED
  BY <1>1, Invariance, PTL

(***************************************************************************)
(* When visionLoop destroys the scheduler, and the locals its tasks        *)
(* captured, no worker holds one of its tasks or is inside setFinshed.     *)
(***************************************************************************)
THEOREM NoUseAfterDestruction == Spec => []SchedulerOutlivesTasks
<1>1. IInv => SchedulerOutlivesTasks
  <2> SUFFICES ASSUME IInv, ~alive PROVE SchedulerOutlivesTasks
    BY DEF SchedulerOutlivesTasks
  <2>1. mpc \notin InFrame
    BY DEF IInv, Control
  <2>2. storage = <<>> /\ \A w \in Worker : job[w] = NoTask
    BY <2>1 DEF IInv, Quiet, InFrame, InRun
  <2>3. mtx = Nobody
    BY <2>1, <2>2 DEF IInv, Control, Workers, TypeOK, InFrame
  <2> QED
    BY <2>2, <2>3 DEF SchedulerOutlivesTasks
<1> QED
  BY <1>1, Invariance, PTL

(* The flag is set before the deque is shut down: the empty task is dropped. *)
THEOREM NoEmptyTask == Spec => []NoEmptyCall
<1>1. IInv => NoEmptyCall
  BY DEF IInv, Workers, NoEmptyCall
<1> QED
  BY <1>1, Invariance, PTL

-----------------------------------------------------------------------------

(* Every step of the scheduler is a step of TaskGraph or leaves the graph alone. *)
LEMMA StepImplements == IInv /\ [Next]_vars => [Graph!Next]_(Graph!graphVars)
<1> SUFFICES ASSUME IInv, [Next]_vars
             PROVE  Graph!Next \/ UNCHANGED <<alive, body>>
  BY DEF Graph!graphVars
<1>1. CASE NewScheduler
  <2>1. ~alive
    BY <1>1 DEF IInv, Control, InFrame, NewScheduler
  <2> QED
    BY <1>1, <2>1 DEF NewScheduler, Graph!Next, Graph!BeginFrame, Graph!GraphTask, Task
<1>2. CASE DestroyScheduler
  <2>1. alive /\ \A t \in Task : body[t] = "done"
    BY <1>2 DEF IInv, Control, InFrame, Quiet, Tasks, DestroyScheduler
  <2> QED
    BY <1>2, <2>1 DEF DestroyScheduler, Graph!Next, Graph!EndFrame, Graph!GraphTask, Task
<1>3. ASSUME NEW w \in Worker, StartBody(w) \/ EndBody(w)
      PROVE  Graph!Next
  <2>1. job[w] \in Task /\ alive
    <3>1. job[w] \in Task
      BY <1>3 DEF StartBody, EndBody, IInv, TypeOK, PoolTypeOK
    <3>2. mpc \in InRun
      BY <1>3 DEF StartBody, EndBody, IInv, Quiet
    <3> QED
      BY <3>1, <3>2 DEF IInv, Control, InFrame, InRun
  <2>2. CASE StartBody(w)
    <3>1. \A d \in Deps[job[w]] : body[d] = "done"
      BY <2>1, <2>2, SchedulerAssumption
         DEF StartBody, IInv, Workers, Tasks, TaskInOnePlace, TypeOK
    <3> QED
      BY <2>1, <2>2, <3>1 DEF StartBody, mainVars, Graph!Next, Graph!Start, Graph!GraphTask, Task
  <2>3. CASE EndBody(w)
    BY <2>1, <2>3 DEF EndBody, mainVars, Graph!Next, Graph!Finish, Graph!GraphTask, Task
  <2> QED
    BY <1>3, <2>2, <2>3
<1>4. ASSUME NEW w \in Worker,
             \/ PoolStep(w) \/ WorkerWakes(w) \/ LockFinished(w)
             \/ StoreFinished(w) \/ UnlockFinished(w)
      PROVE  UNCHANGED <<alive, body>>
  BY <1>4 DEF PoolStep, WorkerWakes, LockFinished, StoreFinished, UnlockFinished, mainVars
<1>5. CASE \/ StopRunning \/ NextImage \/ AddTask \/ CallRun \/ LockAndScan \/ ScanTask
           \/ EndScan \/ MainSpuriousWake \/ Relock \/ UnlockMain \/ LeaveLoop
           \/ DestroyPool \/ UNCHANGED vars
  BY <1>5 DEF StopRunning, NextImage, AddTask, CallRun, LockAndScan, ScanTask, EndScan,
     MainSpuriousWake, Relock, UnlockMain, LeaveLoop, DestroyPool, vars, mainVars
<1> QED
  BY <1>1, <1>2, <1>3, <1>4, <1>5 DEF Next, RunStep, WorkerStep, Terminated

(***************************************************************************)
(* The scheduler, its threads, queue and locks implement TaskGraph: in     *)
(* each frame every task runs once, after its dependencies, and run()      *)
(* returns only when all are done.                                         *)
(***************************************************************************)
THEOREM SchedulerImplementsGraph == Spec => ImplementsTaskGraph
<1>1. Init => Graph!Init
  BY DEF Init, Graph!Init, Graph!GraphTask, Task
<1> QED
  BY <1>1, Invariance, StepImplements, PTL DEF Spec, ImplementsTaskGraph, Graph!Spec

=============================================================================
