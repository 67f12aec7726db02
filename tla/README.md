# A formal model of the HTWK robot firmware

TLA+ modules for the control core of this firmware (soccer robots T1, K1 and
Unitree G1): how its threads start, share work and stop, how the referee's
packets become motion permissions, how a robot senses a fall and gets up, where
it believes to be and which objects it tracks, what its agents answer to an
order, how it behaves around penalties and kick-offs, and how a team elects its
striker and distributes its roles. TLC checks each module on a small instance;
TLAPS proves most of the safety properties for every value of the constants: of
the task scheduler (with its refinement of an abstract one), the GameController
client, the motion connectors, the strategy, the agents, the sensing, the
localization and the life of the program. Section 5 says which and how.

Contents: 1 inventory, 2 modules, 3 runs, 4 fairness, 5 proofs, 6 disagreements
between documents and code, 7 what is not modelled, 8 plan.

## 1 Inventory of the system

One process runs on each robot. Its threads communicate through
`htwk::Channel` (one latest sample under a mutex, `utils/pub_sub/channel.h`),
`Queue`, `Callback` and a few shared maps. There is no automatic test suite.

| Component | State it keeps | Operations | What must hold |
|---|---|---|---|
| Task scheduling (`utils/async.h`, `utils/threadsafe_deque.h`) | deque of closures, two shutdown flags; per frame the list of tasks, their `ExecutionState`s, one mutex, one condition variable | `addTask`, `run`, `setFinshed`, worker loop, destructor | each task once, after its dependencies; no lost wake-up; nothing of a frame outlives its scheduler; the destructor joins |
| Program frame (`main.cpp`) | the flag `running` | `visionLoop` (eight tasks per image), `g1RoboCupLoop` (33 ms), `motionLoop` (20 ms on the G1), signal handler | every loop ends after SIGINT |
| G1 motion connector | last speed sent, time of the last Move | `proceed`: Damp, stop or Move | no Move without permission; speed changes are limited; a robot that must stop does |
| T1 / K1 connectors | robot mode, last walk request and how often it was repeated, standing, since when | `proceed`, mode changes, getting up | a fallen robot ends up standing; a robot walks what it was last asked to |
| GameController client | last packet number, last state, sender to answer | receive thread, heartbeat thread, destructor | gc_state follows the referee whatever the network does; edges are announced; heartbeats reach the referee only |
| AlwaysPlayGC | a flag | publishes Playing every 500 ms | - |
| Team strategy | play state, penalty and kick-off clocks, striker, ready position, roles | `proceed` with seven handlers, `determineStriker`, `distributePositions` | rules of penalties and kick-offs are kept across any order of game states; each role around the ball has one robot |
| Team communication manager | last message of each team mate, own striker request | `send`, `receive`, `strikerRequest`, `resetStrikerRequest` | the team agrees on one reasonable striker |
| Team communication network | socket, two threads, a queue | send, receive, destructor | messages leave in the order of the strategy's rounds; shutdown ends |
| Sensor | the fall-down state, odometer history | DDS callbacks in several threads | no callback's stale write outlives the other callbacks |
| G1 external adapters | time of the last detection, location, servo state; location filter | DDS callbacks, `proceed` with timeouts | stale data are withdrawn; a jump needs confirmation before it is trusted |
| Agents | search, localization and ball memories, one set per agent | `AgentRunner::proceed` picks the first command that is not Nothing | every order has an answer; a remembered ball is forgotten in time |
| Near obstacle tracker | grid map | image task, callback of game state changes | the map is empty when the robot enters play |
| Localization | hypotheses with quality, the last pose | one step per image, merging of hypotheses | the robot never believes to be in the other half |
| Ball and robot trackers | objects with confidence, counts of mergeable pairs | assignment, merging, decay | an object that was merged or given up does not come back |
| Vision, odometry, head control | images, poses, head angles | numerical | - |
| Channels, queues, callbacks | one sample, a list of samples, a list of functions | `publish`, `latest`, `next`, `append`, `attach` | one step each under a mutex, but for the callbacks, which have none |
| Cameras, logging, tuning, tools | - | I/O | - |

Interactions: the receive thread of the GameController publishes `gc_state` and
calls `on_gc_state_change` synchronously; the strategy loop, the team
communication manager, the motion thread and the heartbeat thread read the
latest sample whenever they like. DDS threads of the SDK call the sensor and the
adapters, which publish fall-down state, ball and location; vision tasks do so
for localization and trackers. The strategy publishes orders, agents turn
them into a `MotionCommand`, the motion thread reads the latest command. The
network thread of the team communication calls `TeamComManager::receive`.

Where this is hard: one condition variable for both directions of the scheduler,
with objects on the stack that workers notify; several samples read one after
the other and combined; handlers that return early and leave state of an earlier
round behind; packets that are lost, doubled, late or out of order, with a
number that wraps around; callbacks that read, decide and publish without a
lock; timeouts that race with the answers they wait for; clocks that differ
between robots; SDK calls that fail silently. `PROJECT.json` lists each hazard
at its line, with the property that covers it or the reason why none does.

## 2 Modules

| Module | Models | Depends on |
|---|---|---|
| `ThreadPool` | the pool and its deque: worker loop, `push_back`, `pop_front`, both shutdown flags | - |
| `TaskScheduler` | one `TaskScheduler` per frame of `visionLoop`, `run`, the closures, `setFinshed`, destruction | extends `ThreadPool` |
| `TaskGraph` | what a scheduler promises, without threads | - |
| `TaskScheduler_proofs` | theorems | extends `TaskScheduler` |
| `MotionConnectorG1` | the motion thread, reading three channels that other threads write | - |
| `MotionConnectorG1_proofs` | theorems | extends `MotionConnectorG1` |
| `GCState` | the conversion of a packet to a `GCState`, and `operator==` | - |
| `GameController` | both threads of the client, the network and the referee (external) | extends `GCState` |
| `GameController_proofs` | theorems | extends `GameController` |
| `TeamStrategy` | one robot's strategy loop with all handlers of `RobocupStrategy` | extends `GCState` |
| `TeamStrategy_proofs` | theorems | extends `TeamStrategy` |
| `StrikerElection` | the team: `determineStriker`, `send` and `receive` of several robots | - |
| `StrikerElection_proofs` | theorems about the election and the roles | extends `MCStrikerElection` |
| `RoleDistribution` | the team: `distributePositions` and `permutePositions_play` of several robots | - |
| `FallDetectionG1` | the G1's two IMU callbacks and the constructor on one fall-down state | - |
| `FallDetectionT1` | the T1's two callbacks, the body and the SDK (external) | - |
| `MotionConnectorT1` | `proceed` of the T1 and K1: getting up, standing, walking | extends `FallDetectionT1` |
| `G1Adapters` | the bridge to external perception, the location filter, the strategy loop that reads it | - |
| `AgentRunner` | one round of the G1's six agents after another, with their memories | - |
| `Lifecycle` | `main` from its first thread to its return, both builds | - |
| `Localization` | the robot's belief in its place, and the referee that puts it down | - |
| `MultiTargetTracker` | the tracker of balls and robots | - |
| `AgentRunner_proofs`, `Lifecycle_proofs` | theorems | extend the modules they are named after |
| `Sensing_proofs` | theorems | extends `MCSensing` |
| `MCSensing` | `FallDetectionG1`, `G1Adapters`, `MotionConnectorT1`, `Localization` and `MultiTargetTracker` as parts of one run | these five |
| `MCStrikerElection` | `StrikerElection` and `RoleDistribution` as parts of one run | these two |
| `MC...` | instances for TLC; `MCTaskScheduler` also holds the task graphs of `visionLoop` and `HTWKVision` | the module they are named after |

`TaskScheduler` is the implementation and `TaskGraph` the abstract
specification; the refinement reads a frame as the life of the scheduler
(`open <- alive`) and the status of a task as that of its packaged task
(`status <- body`). `GameController` and `TeamStrategy` share `GCState`, so that
the strategy is checked on exactly the `GCState`s that the client can build.

### ThreadPool and TaskScheduler

`wpc[w]` is a worker's place in its loop: the test of `shutdown_flag`
("check"), `pop_front` ("pop", "sleep" while it waits), the second test
("got") and the call ("call"). `mpc` is the vision thread's place:
`while (running)`, the image, `addTask`, then `run`: "lock", "scan",
"wait", "relock" and "unlock" (the condition variable has returned and the iteration
ends), "returned", and the destructor in three steps. A
task's closure has two parts, the packaged task (`StartBody`, `EndBody`) and
`setFinshed`, which is three steps: take the mutex, store and notify, release.
The scan visits one list entry per step. Both condition variables may wake up
spuriously. The dependencies in `MCTaskScheduler` are those of `visionLoop`.

The deque's mutex is held during the whole of `push_back` and `shutdown`, so each of these
is one step. `std::atomic` operations are sequentially consistent, as in the code.

### MotionConnectorG1

`ReadFallen`, `ReadCommand` and `ReadGC` are the three `latest()` calls of
`proceed`; then one of `DampRobot`, `SendSafeStop` and `SendWalk`. `robot` is
what the SDK has accepted last: each request may be refused (`ok`), which the
code at most logs; StopMove and the BalanceStand after it count as one. Time is
counted in periods of 20 ms and a round starts 1 to `MaxLate` periods after the
last one; `sinceMotion` stands for `last_motion_us`. Speeds are integers in
units of one period's acceleration; the turn rate, limited like the forward
speed, and the head are left out. `readySeen`, `allowedSeen`, `lastMode` and
`period` are history variables.

### GCState and GameController

A packet is ours or foreign (wrong header, version, length or team: all end in
`continue`). The network is a set with loss, delay, reordering and duplication;
`PacketMod` is the wrap-around of the packet number. The receive thread has
three steps after the checks, in the code's order: keep the sender
(`heartbeat_mutex`), publish, compare and call back. `secondary_time` of the
first state is not initialized by the code, so it may be either value.
Opening sockets, which ends the program when it fails, is left out. The test of
`running` and the `receive_from` after it are one step: nothing the thread does
in between depends on the flag. Of the team lists the length and this robot's
penalty are kept.

### TeamStrategy

A round is two steps: `proceed` up to the handler's order on the GCState it
starts with (`Ready`, `Set`, `Play`, `SetPlay`, `Other`, or the early return
`ProceedInitial`), then `Send`, because `TeamComManager::send` reads `gc_state`
again. Between the two the GameController may publish. Positions, roles and
balls are not modelled: what `determineStriker`, `isBallFreeInKickoff`,
`isRogueStriker` and `isStupidStriker` return is chosen freely within what the
code allows (a penalized robot is never chosen, a rogue's striker is somebody
else). `fixed_ready_pos` is kept as the kind of position it holds and whether
it is from this Ready phase.

### StrikerElection

All robots run `proceed` once per tick in any order, messages arrive between
them. A message carries the sender's clock, its request and its walking time to
the ball, the only thing that `determineStriker` computes from poses. In the
first `Chaos` ticks balls, penalties and the network behave arbitrarily; then
they are quiet, and `Settle` ticks later the team has to agree. Play begins with any balls and
with robots that have sent their last messages, of which nobody has heard, at different times. A penalty is
known to all robots at once. Robots that return from a penalty and are
silent until they are located are in `TeamStrategy`, not here.

### RoleDistribution

`DistributePositions` is a robot's round with an unchanged striker: the spots of the formation
around the ball, then `permutePositions_play`: striker and goalie are placed
first, and each of the others gets the spot that makes the sum of squared walking
times smallest, among equal ones the first in the code's order
(`PermutePositions`). A robot uses its own `pose` and what the others `told`
it. `Tell` is a message that arrives, `Walk` a step towards the spot of the
robot's own role. Wanted is that the roles become a permutation
and everybody reaches his spot, although in between two robots may have the same
role. That goalie and striker move by orders of their own is left out: their
roles do not depend on where they are.

### FallDetectionG1

`callback[i]` is where IMU i's thread is between reading `fallen_channel`
and publishing it: the three together have no lock, so a callback may write back
a state the other one has replaced, and the constructor's READY comes after the
subscribers have started. `down` is the posture both measure. `fresh` is history: the
IMUs that have had a whole callback since `down` changed.

### FallDetectionT1 and MotionConnectorT1

`low` and `booster` are the places of `lowHandler` and
`update_fall_down_state_booster`, `fallType` is the type in `fallen_channel`. A
round of `proceed` is `ReadFallState` and then one of its branches, in one step
but for the second it sleeps before `GetUp` (`PrepareToGetUp`, `RequestGetUp`),
in which the robot may be lifted or the SDK may notice something else.
`sameCount` is `same_motion_command_count`, by which repeated walk requests are
left out. The K1's connector differs in a condition on AlwaysPlayGC that is
always true there. What the SDK does is external: `moving` is what it walks, and
it forgets the last Move whenever the posture changes.

### G1Adapters

`detecting` and `locating` hold what a DDS thread has timed but not yet
published, `loop` is the strategy loop's place in `proceed`, which
compares the age of the last message and then publishes nothing.
`published`, `stableFor` and `candidate` are the members of
`G1ReadyLocationFilter`; `Filter` is the whole of its `update()`,
enabled or not. Places are points of a line. `trail` and `jumped` are
history for the property that a jump is reported only after its destination has
been seen for the required time.

### AgentRunner

`StartRound`, then each of the agents (`Localize`, `BallSearch`, `Dribble`,
`WalkToPosition`; the two that read no changing channel answer at once) in any
order, then `PublishCommand`, the first that does not say Nothing in the order
in which `main` registers them. Each agent reads its channels in one step;
between two agents a channel may change. The memories are those of the members:
`bestGood`, `hadLoc`, `dribbleHadLoc`, `memory`, `late`. Speeds are reduced to
what a command is for. `lastBall`, `teamFresh`, `steady` and `looks` are
history.

### Lifecycle

Seven threads, each at a label that names what it does next: main, the vision or G1
loop, motion, the sender and the receiver of the team communication, the game
state's source, and the camera's. `Interrupt` is the SIGINT. The joins and destructors come in
the order of the code, `std::terminate` in the destructor of a camera that runs is
a label of its own. `undefined` notes that callbacks were registered during an
iteration over them or that a callback ran into an object that is gone; the model
stops there. `published` and `sent` are history of the queue between strategy and
network.

### Localization

The field is a line, with a direction. `Image` is one image:
every picture fits a place and its mirror image, hypotheses are weighed, merged,
and `position` follows the closest one that is trusted. `TakeOut`, `Carry` and `LetIn` are the
referee and the handler. `KnowsItsSide` rests on two facts outside this
file: a robot that is not located stays in its own half, and the referee leaves
it standing for at least one image after it has been put down. It rests also on
the order of equal hypotheses, which `std::sort` keeps for up to 16 only.

### MultiTargetTracker

`TrackFrame` is `proceed` for one image: erasing of old objects, the assignment of percepts to
objects, new objects, counting and merging of pairs, loss of confidence and deletion, and clearing of the
list while the robot is not ready for action. That an object has not been seen for 4 s is a choice
(`MayBeAged`: any of little confidence). The loop over the entries is the recursive function `round` in
`MergeAll`, in the map's order; its lookups with `operator[]` create what is missing. `removed` is history for
the property that nothing merged or given up comes back.

## 3 Runs

| Run | Bounds | States | Shows |
|---|---|---|---|
| `task_scheduler` | 2 workers, the 8 tasks of `visionLoop`, any number of frames | 42,888 | nothing of a frame outlives its scheduler; `TaskGraph` is implemented, so each task runs once and after its dependencies; every frame ends although nothing relies on spurious wake-ups; no empty call and no hang at shutdown |
| `motion` | speeds -1..2, one period late, pauses up to 3 periods | 405,872 | a Move needs permission within its round; speed limits between Moves; a forbidden or fallen robot ends stopped or damped although single requests fail |
| `game_controller` | numbers modulo 2, 2 packets under way, 3 situations | 134,472 | convergence, announced edges, heartbeats, joining |
| `team_strategy` | 9 situations, waits of 2 and 1 steps | 118,338 | silence until relocalized, penalties, kick-offs, progress |
| `striker_election` | election: 2 robots, one with a fast clock, 2 ticks of chaos, 11 ticks; roles: teams of 1 to 3 robots with and without goalie, 5 formations, a line of 3 spots | 851,317 | agreement on one reasonable striker that stays; roles that settle |
| `sensing` | 2 IMUs; one fall and one failure of the T1; 4 places for the adapters; a field of half-length 3; 3 tracked objects on 3 cells | 584,701 | falls are noticed and the T1 stands up again; the T1 walks what it was asked to; stale data are withdrawn and jumps need confirmation; a robot knows its half; no merged object returns |
| `g1_agents` | memories of one tick, one change of the channels per round | 2,625,166 | every order has an answer in a round without news, a `MoveBallOrder` only with a near ball and a good location (section 6); nobody chases a ball of long ago, a located robot does not stop twice to look around |
| `lifecycle` | both builds, 2 messages | 365,390 | the network thread sends in order and never the sample that wakes it; the G1's main returns |
| `motion_timeout`, `set_play`, `late_return`, `shutdown_blocks` | as above | - | section 6 |

Why these bounds are enough to meet the interesting cases: two workers can
finish, pop and sleep in any order around the scan, and the graph of
`visionLoop` has tasks with no, one and several dependencies. One late round
and a saturated pause tell apart every case of `dt`. With numbers modulo 2 each
second packet repeats a number, so a lost packet makes the next one look old.
Two packets are enough to overtake one another. Waits of two steps let a
kick-off be repeated in the middle of the wait. Two robots with three
walking times have all relations that the two margins distinguish; the fast
clock makes a later request look earlier. Larger teams are a matter of state
space: with three robots the chaos phase alone exceeds what a run can hold. The
distribution of roles is checked on three robots, because two robots that
may swap spots need a third, the striker, beside them.

In `sensing` the parts share no variable, so a behaviour is one of one part and
the others stay as they begin; one run thus checks five models side by side. Two
IMUs are enough for a write that overwrites another's, one fall with one failed
attempt for every path of the getting-up, and the attempts may follow one
another in every order with the sleep in `proceed`. The adapters' places 0, 2, 3
and 6 with `StableDist` 1 and `JumpDist` 2 have small steps, steps that are
neither, and jumps. Three objects are needed for a chain of merges, which is
what could bring one back. In `lifecycle` two messages can change places.

`Lifecycle` and `AgentRunner` have a type invariant (`TypeOK`) that no run lists: there
the properties say more.

Every property of a passing run has a mutant in `PROJECT.json`: a definition
named `..._what` marked "Wrong:" in the module, a plausible bug that makes TLC
find the property violated.

## 4 Fairness

- `TaskScheduler`: weak fairness of the vision thread within `run` and of each
  worker, since the kernel runs every thread that can go on; strong fairness of
  `LockFinished`, since a worker that finds the mutex free again and again gets
  it in the end. None for images, the signal or spurious wake-ups: so
  `EveryFrameEnds` is about frames that have their image and no notification may
  be lost.
- `MotionConnectorG1`: weak fairness of the motion thread; strong fairness of
  the acceptance of a Damp and of a stop, since the SDK does not refuse the same
  kind of request for ever. Nobody has to publish anything.
- `GameController`: weak fairness of both threads, strong fairness of the
  referee's sending, and strong fairness of taking a current packet whose number
  is not the last one: UDP may lose most packets, not for ever all of these.
- `TeamStrategy`: weak fairness of the rounds, strong fairness of time, and
  strong fairness of a playing round with good localization: a robot told to
  play again and again finds itself some time. `ReturnsToGame` needs it, since
  the code has no timeout there.
- `StrikerElection` states its convergence as safety with the bound `Settle`
  and needs none. Its sibling `RoleDistribution` needs only that something
  happens in its part: each of its steps changes a role, a pose or what is told, and
  every order of them ends in the same agreement.
- `MotionConnectorT1` (`T1Fairness`): weak fairness of the motion thread, of
  both callbacks, of the SDK's noticing and getting up, and of the clock; strong
  fairness of the preparation to get up, since a robot that lies and is told so
  again and again is seen so in some round. Falls and failures are bounded, not
  fair. `MCSensing` demands it of the behaviours of the T1 only (`part = "t1"`), so that those of the
  other parts may go on for ever, or stop, while the connector stands still.
- `Lifecycle`: weak fairness of every thread, since the kernel schedules each
  of them, `recvfrom` returns by its timeout, and the sleeps end. Neither a SIGINT
  nor a frame of the camera has to come.
- `FallDetectionG1`, `G1Adapters`, `AgentRunner`, `Localization`,
  `MultiTargetTracker`: safety only.

## 5 Proofs

All module names below are those of `PROJECT.json` "theorems".

`TaskScheduler_proofs` proves, from the assumptions `PoolAssumption` and
`SchedulerAssumption` only (a non-empty set of workers, at least one task, every
task depends on earlier ones, distinct thread names), for every value of the
constants:

| Theorem | States |
|---|---|
| `TypeCorrect` | `[]TypeOK` |
| `DependencyOrder` | `[]DependenciesRespected` |
| `RunOnce` | `[]TaskInOnePlace` |
| `NoUseAfterDestruction` | `[]SchedulerOutlivesTasks` |
| `NoEmptyTask` | `[]NoEmptyCall` |
| `SchedulerImplementsGraph` | `Spec => Graph!Spec`, the refinement |

None of these is inductive. `IInv` adds what each place of the threads says
about the rest: `Control` (which phase has a scheduler, and who may hold the
mutex), `Quiet` (without a scheduler no task is anywhere), `Workers` (what a
worker at each place holds, and that a worker past the flag test at shutdown
holds nothing it could call), `Queue` (a queued task belongs to the frame and is
idle) and `Tasks` (a task that is not pending any more has finished
dependencies, and `finished` and `body` are consistent). The argument for
`NoUseAfterDestruction`: `run` returns with the mutex free and every task
finished; a task is finished only by a worker that holds the mutex, and it lets
go of the task in the same step in which it releases the mutex. There is one
lemma per action, `NextIInv` puts them together, `Invariance` is the temporal
step; `StepImplements` maps each step to a step of `TaskGraph` or a stutter.

`GameController_proofs` proves, from `PlayerAssumption` (the robot's index fits
the list of players, which has room for the five of a packet) and
`GameControllerAssumption` (a set of situations, a modulus above 1), for every
set of situations the referee may announce, every modulus and every index:

| Theorem | States |
|---|---|
| `TypeCorrect` | `[]TypeOK` |
| `MapIsCleared` | `[]MapClearedOnEntry` |
| `RobotIsListed` | `[]PlayerListed` |
| `HeartbeatsReachReferee` | `[]HeartbeatToReferee` |

Here `IInv` adds to `TypeOK`: `Endpoints` (no stranger was ever kept as the
sender), `Listed` (both states list this robot at every moment), `HoldsPacket`
(what the receive thread holds between its steps is a situation) and `Edges`.
The last one is the heart of `MapIsCleared`. The code calls its subscribers on changes
of the member `state`, which is updated only when `operator==` sees a
difference, while readers see every published sample; the two need not be
equal. But between packets they agree on the state of the game and on this
robot's penalty, and these are all that an entry into play depends on.
`Publish` may thus create a pending entry only if the comparison that follows
sees it too, and `Compare` leaves one pending only if `operator==` overlooked it
(`NoEdgeBetweenSame`: it does not).

`DependenciesRespected`, `TaskInOnePlace` and `PlayerListed` are properties that
no run lists any more, as the theorem holds for every instance.

`MotionConnectorG1_proofs` proves, from `MotionAssumption` (limits that are numbers,
commands and game states of their types):

| Theorem | States |
|---|---|
| `TypeCorrect` | `[]TypeOK` |
| `MovesArePermitted` | `MoveNeedsPermission`, an action property |
| `SpeedIsSlewed` | `SlewBetweenMoves`, an action property |

A round combines three samples that were read at different times. `SeenUpright` and
`SeenAllowed` say that whatever permits and is still in its channel, or has been read in this round, has
been noted; `ClockAfterMove` says that after a Move the limiter's
clock never shows more than the time since that Move, which is what bounds the
step: the limit is computed from the clock, the property from the true period.
`LimitIsSafe` is a lemma about the limiter alone.

`TeamStrategy_proofs` proves, from `StrategyAssumption` (situations of their type,
waits above 0) and `PlayerAssumption`:

| Theorem | States |
|---|---|
| `TypeCorrect` | `[]TypeOK` |
| `StaysSilent` | `[]SilentUntilRelocalized` |
| `PenalizedStandsAside` | `[]PenalizedIsOut` |
| `KickoffIsRespected` | `[]OppKickoffRespected` |

The handlers return early and leave variables behind, so `IInv` names what survives every
order of game states: a robot not located since its penalty is
still penalized or still returning (`ReturnIsKnown`); `play_state` knows the opponent's
kick-off until the wait is over (`KickoffIsKnown`); an order to the ball comes only from two play states
(`OrderFitsPlay`). `ChannelIsBuilt` carries over what
the client's conversion gives, that `setPlay_state` is a copy of the state: with another
client, one that published `setPlay_initial`, the wait would end early.

`AgentRunner_proofs` proves, from `AgentAssumption` (a time to live above 0):

| Theorem | States |
|---|---|
| `TypeCorrect` | `[]TypeOK` |
| `OrdersAreAnswered` | `[]EveryOrderAnswered` |
| `BallWalksAreJustified` | `[]BallWalkNeedsRecentBall` |
| `LooksAroundOnce` | `[]LooksOnce` |

Each agent is silent because it leaves the robot to another one, and each decides on its
own reading of the channels. `LeftToAnother` says for each
agent that has run silently in a round without changes why another one will answer or has answered;
`AnswersFit` which answers an order admits. For the ball `MemoryIsHonest` says that the shared memory is never
younger than the last ball that some agent has read, and `SearchOrEvidence` that an agent which does not
search has such evidence. `LookIsRemembered` ties
the counter of looks to the memory of Localize.

`Lifecycle_proofs` proves, from `LifecycleAssumption` (a number of messages):

| Theorem | States |
|---|---|
| `TypeCorrect` | `[]TypeOK` |
| `BroadcastInOrder` | `[]SentInOrder` |
| `EndsAlone` | `[]NoThreadLeft`: main returns or dies in `~Camera` with no thread left that uses its objects |

For the first `IInv` says where every message is: `SentArePublished`, `HeldIsNext` (the
sample in the sender's hand is the next one) and `QueueFollows` (the queue
holds the ones after it, in order, and the sample that wakes at the very end); `EndIsKnown` and `SenderStartsOnce` place
that sample and the thread in the life of `main`. For the last, `JoinedHaveEnded`: past each join the thread has ended.

`StrikerElection_proofs` proves, from `ElectionAssumption`, for any number of robots, any clocks and any delays:

| Theorem | States |
|---|---|
| `TypeCorrect` | `[]` of the module's `TypeOK` |
| `OnlyOneAsks` | `[]OnlyStrikerAsks` |
| `EveryoneIsHeard` | `[]NobodyIsLost`: a pause, a delay and a tick after the field has become quiet, what a robot has from another one that plays is no older than that and has its present walking time |
| `TeamsAreComplete` | `[]TeamIsComplete`: from then on every robot elects among the same team, if `TTL` exceeds that time and the difference of two clocks |

The second needs no settling at all: a robot decides its request and its striker in one
round (`LoserGivesUp`). That the newest request is
always somebody's (`NewestIsInTeam`) rests on `LeastExists`, which is obtained from the
well-foundedness of the naturals.

The other two are about a network that has been unreliable and about messages of which the
receiver keeps one only. `HearIInv` follows what is under way: in the quiet messages arrive in order (`InOrder`,
which needs that no robot sends twice at the same time, `SentOnce`), the last one of a robot is heard of or under way
(`LastArrives`), and of each message under way so is, unless it was the robot's first in the quiet, the one before, sent
a pause and a tick earlier at most (`NoGap`). The oldest message under way is late by `MaxDelay` at most, hence
the one before it, which has been heard of, is recent (`HeardLately`).

And for a team of two, with any clocks, walking times, pauses and delays, if messages count for long enough
(`Age + Ahead <= TTL`: `Age` is how old the last message of a robot may be, `SendPause + MaxDelay + 1`, and
`Ahead` the difference of the clocks) and the team is asked late enough (`4 * Age + Ahead + 2 <= Settle`):

| Theorem | States |
|---|---|
| `TwoRobotsAgree` | `[]TeamAgrees` |
| `TwoRobotsChooseWell` | `[]StrikerIsReasonable` |
| `TwoRobotsKeepTheirStriker` | `StrikerStays`, an action property |

With delays two is the limit: three robots need not agree (section 6). The invariant has three layers.
`NewsIInv`, which holds for any number of robots, says what a message is worth: it tells the request that its sender had at its time
(`RequestIsTold`), and those who have the last message of a robot have the same one (`SameNews`). `AskIInv` adds for two: a request that is still told but has been given up was older than one of the other robot
(`StaleIsBeaten`), so hearing of it late does no harm; and if nobody has a request, nobody has told of one since all are
heard (`SilentSinceInformed`), so nobody waits for a robot that has given up. `RoundOutcome` says what a round of
an informed robot comes to, in three cases: it is beaten, it holds the newest request, or it knows of none.
`Settling(w)` names what cannot change any more: the request of `w` comes before the other one, the other robot would not
ask for the place of `w`, and either never would, or still has a request, or knows of that of `w`
(`SettlingStays`). Then `AgreeIInv` has one conjunct per stage on the way there. Once all are heard a robot alone asks
(`LonelyAsks`); when no request of the chaos lies in the future of a slower clock any more, a robot that is
clearly faster asks or has asked for good (`StrongAsks`), and of two alike at least one has a request
(`SomebodyAsks`), which the other one may still answer with a newer one that it sent before it heard
(`OneMayFollow`). One `Age` later that is over and somebody is settling (`ChosenInTime`), and after another one
everybody, a penalized robot included, has heard of it and names it (`NamedInTime`). `AgreeIInv` was
checked with TLC on four sets of constants, with `MaxTime` beyond the last stage. In the run, the team agrees
after 5 ticks already, where the theorem asks for 11: the bound adds up the worst case of each stage.

And for a team of any size, if a message arrives in the tick in which it is sent (`MaxDelay = 0`), if messages count for
long enough (`Age + Spread <= TTL`, where `Spread` is the largest difference of two clocks), if nobody is slower than
another robot by exactly the margin, and if the team is asked late enough (`6 * Age + Spread + 1 <= Settle`):

| Theorem | States |
|---|---|
| `PromptTeamsAgree` | `[]TeamAgrees` |
| `PromptTeamsChooseWell` | `[]StrikerIsReasonable` |
| `PromptTeamsKeepTheirStriker` | `StrikerStays`, an action property |

A tick is one round of each robot's strategy, and it is over when all that was sent in it has arrived; rounds and messages
still interleave in any order within it, so that one robot has heard of a request and another one has not. The third
hypothesis excludes the one point at which `shouldAskStriker` lets neither of two robots ask and the choice between them
is left to history: walking times are floating-point numbers. For three robots with such ties TLC found no
violation either, without finishing.

The proof needs no order of rounds. At the end of a tick everybody has the same news (`AllIsHeard`), so that among all
requests told in the quiet there is one newest, x of a robot h, that everybody knows. `Common(h, x)` says that h
still holds it, unless somebody has beaten it aloud in this very tick, and `CommonTick` that whoever did is the next h.
What could go on for ever is that another robot asks before it hears of x and is answered in turn.
But a robot that plays tells its request at its own pace, every `SendPause + 1` ticks, and of those that speak in one tick only
the newest stays `Common`: once h has been heard out, all whose requests are newer than x speak in other ticks than h
(`Turns`, with `Apart`; `SpeakerIsCommon`, `TurnsStay`). Then no robot asks any more (`NobodyAsks`), however many
still hold a request, and the finitely many that are left are given up one after the other as they are told, all within one `Age`.
So `TeamIInv` has again one conjunct per stage: nobody who is clearly slower holds or tells a request younger than the chaos
(`OldRequests`); no robot that has run holds a request which it knows to be beaten (`Unbeaten`); there is a `Common`
request, or the best placed robots are about to make one (`Seeking`); it has had its turn (`Convened`);
nobody asks (`NoAsk`); one request is `Fixed`, known to all and beaten by none (`FixedInTime`); and every round names its
owner (`Named`). That of finitely many requests one is the newest is again `LeastExists` (`TopExists`). TLC checked
`TeamIInv` on two and on three robots before it was proved.

The last part of the module is about `RoleDistribution`, from `RolesAssumption`: any teams, any formations on the line and any poses.

| Theorem | States |
|---|---|
| `RolesAreOwned` | `[](RolesTypeOK /\ OwnRoles)`: nobody else ever believes to be striker or goalie, however outdated the poses are |
| `SameNewsSameRoles` | `[]SameNewsFit`: robots that decide on the same poses satisfy `RolesFit` |
| `StandingTeamRests` | once a team stands as `RolesSettle` wants it (`Standing`) nobody ever walks again, and no role changes if no two roles share a place |
| `TeamTypeCorrect` | `[]TeamTypeOK`, the election and the roles side by side |

All four need that `PermutePositions` has a value at all, its two `CHOOSE`s included. That a sum over a team is a number
is an induction over the fold: the function that `MapThenSumSet` names exists on all subsets (`SumExists`; a least number
of robots left without a value would be a contradiction), and so do the least of finitely many sums
(`NumbersAreBounded`, `LeastExists`) and the earliest of the permutations that have it, which is found robot by robot from the
largest index down (`EarliestExists`). That a permitted permutation exists is shown by construction: the ranks in the team are one
role each (`RankIsOneEach`), and two swaps bring the striker and the goalie to theirs (`SwapIsOneEach`, `PermittedExists`).
The only team without one is a goalie alone without a striker, for which the function falls back on the ranks
(`GoalieAlone`, section 6). `PermuteOutcome` is what remains of the function after that: the result is permitted, no permitted
permutation is cheaper, and of the equally cheap ones it is the earliest. `StandingTeamRests` follows as a team at its places pays
nothing, so that each robot decides on a role whose place is where it stands (`StandingDecides`). That a team gets there
(`TeamSettles`) is liveness and stays with TLC, which also checked `OwnRoles`, `SameNewsFit` and `StandingTeamRests`
on the teams of the run before they were proved.

`Sensing_proofs` proves, from the assumptions of its modules (a set of IMUs that is not
empty, places that are numbers, positive limits, a callback shorter than the timeouts, noise below a quarter of the field,
a line of cells without gaps):

| Theorem | States |
|---|---|
| `FallTypeCorrect`, `T1TypeCorrect`, `AdaptersTypeCorrect` | `[]` of each module's type invariant |
| `TypeCorrect` | `[]TypeOK` of `MCSensing`, all of them side by side |
| `FallIsSettled` | `[]FallSettles` |
| `RobotFollows` | `[]FollowsRequest` |
| `NothingStale` | `[]StaleIsWithdrawn` |
| `JumpsAreConfirmed` | `[]JumpNeedsConfirmation` |
| `SideIsKnown` | `[]KnowsItsSide`, if `ReadingsFit` |
| `TrackerTypeCorrect` | `[]TrackerTypeOK` |
| `MergedStayAway` | `[]NoGhosts` |

`FallSettles` says that the fall-down state is right once every IMU has had a whole
callback since the posture changed. It is not inductive: a callback that
still holds a stale value may overwrite a right one. `FallIInv` adds that an IMU with
a callback from before the change is not in `fresh` (`StaleNotFresh`), that a
later callback has measured the present posture (`RecentIsRight`), and the heart
of it, `Outstanding`: while the state is wrong some IMU outside `fresh` has not
yet read the right state in a later callback, so it will still
publish and correct what is wrong.

`FollowsRequest` concerns requests that are withheld. All three components are compared with the last dx
only, so that a walk can count as a repetition only if its dx, dy and da are equal. No request of `Walks` is like that but
standing still (`OnlyStillRepeats`). That is an abstraction of the agents, not a guarantee of the connector: they compute the
three from distances and angles with different gains and clamps, so that three equal floating-point numbers other
than 0 do not occur in practice. If such a request were repeated it would not be sent from the tenth repetition on, even
after a fall. From `OnlyStillRepeats` follows `T1IInv`:
a repeated request, and a robot that may not walk, mean that the SDK stands (`RepeatsAreStill`,
`StandingIsStill`), which remains true when the SDK forgets a Move.

`StaleIsWithdrawn` holds between the checks of `proceed()` and the strategy because a
callback that publishes in between is young (`PendingIsYoung`). This needs that a callback takes no longer than
a timeout: `AdapterAssumption` says so, the code's timeouts being half a second and its
callbacks waiting for nothing. `CandidateOnTrail` is the invariant behind `JumpNeedsConfirmation`:
the candidate stands at the end of the trail of small steps and is no older than it.

`KnowsItsSide` has two halves. What an image gives is computed by folds over hypotheses
and is a statement about constants, `ReadingsFit`: a hypothesis on the wrong side comes with an equally trusted one on
the right side, and the clear pair seen from the own half shows the place. TLC evaluates it for the instance
(`ReadingsAssumption` of `MCSensing`). That the robot then never loses its side, across penalties, being carried and
corrections that go part of the way, is the theorem, for every field and noise with `ReadingsFit`; `PlacedIsNear` and `UnknownAtStart`
are what is needed besides.

`NoGhosts` is about the result of a loop, `MergeAll`, whose rounds `Visit` delete objects, and make deleted ones
again by looking them up. `LoopFits` is the loop's invariant: what is missing has been merged, what has been merged
and is there has no confidence, an object only goes into an older one (so that following `merged` ends,
`TargetIsThere`), and an entry that reaches `MergeAt` has been visited and its object merged. That the
two recursive functions have values at all and the induction over their rounds are proved with `LeastExists`, as a
least counterexample. Between frames `TrackerIInv` needs besides that removed ids are below `next_id`
and that no surviving pair is due.

Every inductive invariant was checked with TLC on the module's run before it was proved.

Only model-checked:

- the liveness properties (`ForbiddenStops`, `EveryFrameEnds`, `PoolJoins`, `Converges`, `ThreadsJoin`, `KickoffEnds`,
  `ReturnsToGame`, `StandsUpAgain`, `MainReturns`, `TeamSettles`), which need fairness and ENABLED;
- `ReadingsFit`, a statement about the constants of a run that speaks about the results of folds over sequences.

## 6 Where documents and code disagree

| Run | Document | Code |
|---|---|---|
| `motion_timeout` | `g1_safety.md:54` and `:63`: a command timeout that stops the robot | `motion_connector_g1.cpp:147`: the last command is used for ever |
| `set_play` | `gc_state.h:44-56`: `state` stays Playing, `setPlay_state` goes through Initial, Ready, Set | `game_controller.cpp:151-171`: `setPlay_state` copies the packet's state |
| `late_return` | `robocup_strategy.cpp:120-121`: a robot that returns too late stays where it is | `:119`: only if it never had a ready position |
| `shutdown_blocks` | `main.cpp:449`: the camera is stopped first "to prevent threads from blocking on new images" | `main.cpp:129`: `next()` has no timeout, and `Camera::stop` (`camera.cpp:61-64`) publishes nothing, so a vision thread of a T1 or K1 that waits there is never freed |

In these runs TLC is expected to find a violation.

Met while modelling and not given a run, because the document is vague, the case
is harmless, or no property of the models is about it:

- Motion of the G1: the first Move after a stop is not limited, as the limiter's
  clock is not advanced by stops (`motion_connector_g1.cpp:75`; `g1_safety.md:53`
  asks for a slew-rate limit); `SlewBetweenMoves` is about consecutive Moves. A
  robot walks without a
  valid location (`g1_safety.md:64` against `localize.cpp:38-45`).
- T1: `motion_connector_t1.cpp:165` logs a change of mode that `ChangeMode` is
  not called for; `GetUp` is asked for a second after the robot was last looked
  at (`:110-111`).
- Filter: `Readme.md:186` speaks of seconds of continuous stable localization,
  but neither silence nor NaN nor a rejected jump restarts `stable_since_us`.
- Agents: `WalkToPosition` does not answer a `MoveBallOrder`, and `Dribble` does
  not if the ball is more than 3 m away or if its own memory of the location
  is old, which is not that of `Localize`: such a round says Nothing.
- Shutdown: the callbacks of `TeamComManager` and `NearObstacleTracker` are never
  removed, so a late call finds an object that is gone (`MainReturns` leaves these
  behaviours out); on the T1 and K1 the destructor of the camera always ends in
  `std::terminate`; a refused `SO_RCVTIMEO` is only logged; `~HTWKVision` never
  deletes its pool (`htwk_vision.cpp:46-51`).
- Network: the comment of `tc_network.cpp:118` speaks of 10.0, the code of 192.168.
- Head control: `head_control.cpp:66-69` means to look at the ball that was just
  seen and looks at the robot's feet; `set_focus` (`:263`) ignores a changed
  argument of FIXED_REL.
- Trackers: the smoothing of results has no effect, as its count never grows
  (`multi_target_tracker.cpp:293-301`); mergeability falls without a bound (`:128`).
- Localization: no picture has feature 0, so the branch that starts from the
  centre circle is dead; `hypothesesCircle`, `pointFeatureTriangulation` and
  `angleFromEllipse` are called nowhere.
- Roles: a goalie alone without a striker is given the role of the striker
  (`permutePositions_play`), which its order ignores.

Two limits of the election:

- `TeamComManager::receive` (`tc_manager.cpp:54-55`) takes messages up to 500 ms older than the
  last one. If the network went on reordering for ever, a robot could forget the request it has
  just seen and even two robots could take turns; `StrikerElection` therefore
  delivers in order once the field is quiet.
- The comment of `robocup_strategy.cpp:305-307` says that several requests "filter themselves based on the request
  timestamp". Those of two robots do, and those of more if a message arrives in the tick in which it is
  sent (both proved, section 5). If messages take a tick, three robots need not agree: X gives up its request because of Y's,
  Z hears of that before it hears of Y's request and asks anew, Y gives up because of Z's, and so on.
  TLC finds this with `MCStrikerElection` and the constants `NumRobots = 3`, `Times = {1}`, `SendPause = 2`,
  `MaxDelay = 1`, `TTL = 20`, `Chaos = 2`, `Settle = 12`, `MaxTime = 16` and equal clocks, as a violation of
  `TeamAgrees`: no message is lost, those between two robots keep their order, and nothing of the
  state would end it. (It takes a fixed set of robots and balls in the initial state to be fast.)

## 7 What is not modelled, and why

- Image processing, neural networks and the wrappers of inference libraries
  (most of `vision/`, the largest part of the implementation): each is a function
  from an image to numbers, without a state that another thread could meet. What is
  concurrent about them, the task graphs of `visionLoop` and `HTWKVision`, is in
  `TaskScheduler`.
- Of `Localization` and `MultiTargetTracker` the geometry: how lines and points
  give hypotheses, velocities, smoothing. Their positions are on a line.
- Odometry: sums of real numbers.
- Head control: a sequence of angles per focus; nobody but the servos reads it.
- The policy executor and the custom connector: a network's output to joints.
- Other strategies, chosen on the command line for tests, and the standard
  situations, which are geometry and whose `proceedSetPiece` is called nowhere.
- Of `RobocupStrategy` the positions: ready and free-kick places, and the distribution
  at kick-off (`permutePositions_goaly0` in `ready_positioning.cpp`), which all
  robots compute from the same
  fixed places.
- `AsyncCallback` (`async.h`) and `map_store.h`: the first is used nowhere, the second
  keeps the history of the odometer.
- Serialization, sockets' set-up, shared memory, logging, tuning, debuggers,
  simulation mocks and tools: I/O.

The map therefore covers the control of the program and not the larger numerical
part of it.

## 8 Plan

Done: the modules of section 2, their runs, and the proofs of section 5. What is left:

1. `StrikerElection`: the theorem about any number of robots also for robots that are slower by exactly the margin.
