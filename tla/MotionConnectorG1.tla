--------------------------- MODULE MotionConnectorG1 ---------------------------
(***************************************************************************)
(* The motion thread of a G1 (motionLoop in main.cpp and                   *)
(* motion_connector/motion_connector_g1.cpp): each round reads the latest  *)
(* sample of three channels, one after the other, and issues one request   *)
(* to the LocoClient of the SDK.  The sensor, the strategy loop and the    *)
(* GameController publish to these channels at any time, also between two  *)
(* reads of a round.                                                       *)
(*                                                                         *)
(* Time is counted in motion periods of 20 ms, speeds in the speed a       *)
(* period's acceleration may add.  Of a walk request only the forward and  *)
(* the sideways speed are kept: the turn rate is limited in the same way   *)
(* as the forward speed.  Head angles are not modelled.                    *)
(***************************************************************************)
EXTENDS Integers

CONSTANTS
  Commands,      \* the motion commands the strategy may publish
  GCStates,      \* the GameController states that may be published
  MaxForward,    \* kMaxForwardSpeed
  MaxBackward,   \* kMaxBackwardSpeed
  MaxSide,       \* kMaxSideSpeed
  Accel,         \* kMaxForwardAccel * 20 ms
  SideAccel,     \* kMaxSideAccel * 20 ms
  MaxLate,       \* bound: a round starts 1 .. MaxLate periods after the last one
  MaxIdle        \* bound: longer pauses are not told apart

Speeds == (-MaxBackward) .. MaxForward
SideSpeeds == (-MaxSide) .. MaxSide

Walk == [dx : Int, dy : Int]
StandStill == [dx |-> 0, dy |-> 0]

CommandTypes == {"NOTHING", "STAND", "WALK", "JOINT_CONTROL"}

ASSUME MotionAssumption ==
  /\ MaxForward \in Nat /\ MaxBackward \in Nat /\ MaxSide \in Nat
  /\ Accel \in Nat /\ SideAccel \in Nat
  /\ MaxLate \in Nat \ {0} /\ MaxIdle \in Nat \ {0} /\ MaxLate <= MaxIdle
  /\ \A c \in Commands : c \in [type : CommandTypes, walk : Walk, ball : BOOLEAN]
  /\ \A s \in GCStates :
       s \in [state : {"Initial", "Ready", "Set", "Playing", "Finished", "Standby"},
              player : {"active", "penalized", "unlisted"}]

Stand == [type |-> "STAND", walk |-> StandStill, ball |-> FALSE]
InitialGC == [state |-> "Initial", player |-> "active"]

VARIABLES
  running,       \* the flag of main.cpp
  fallen,        \* the sample in fallen_channel
  command,       \* the sample in motion_command_channel
  gc,            \* the sample in gc_state
  strategyUp,    \* the strategy loop still publishes commands
  mpc,           \* where the motion thread is
  fRead, cRead, gRead,   \* what proceed() has read
  last_sent_walk,
  sinceMotion,   \* periods since last_motion_us, -1 while that is still 0
  robot,         \* what the SDK last accepted: "stand", "walk" or "damp"
  readySeen,     \* history: fallen_channel was READY at some time in this round
  allowedSeen,   \* history: movement was allowed at some time in this round
  lastMode,      \* history: what the last request asked for
  period         \* history: periods from the last request to this round

inputs == <<running, fallen, command, gc, strategyUp>>
reads == <<fRead, cRead, gRead>>
history == <<readySeen, allowedSeen, lastMode, period>>
vars == <<inputs, mpc, reads, last_sent_walk, sinceMotion, robot, history>>

FallStates == {"READY", "FALLEN"}

TypeOK ==
  /\ running \in BOOLEAN /\ strategyUp \in BOOLEAN
  /\ fallen \in FallStates /\ fRead \in FallStates
  /\ command \in Commands \cup {Stand} /\ cRead \in Commands \cup {Stand}
  /\ gc \in GCStates \cup {InitialGC} /\ gRead \in GCStates \cup {InitialGC}
  /\ mpc \in {"sleep", "command", "gc", "act", "ended"}
  /\ last_sent_walk \in [dx : Speeds, dy : SideSpeeds]
  /\ sinceMotion \in -1 .. MaxIdle
  /\ robot \in {"stand", "walk", "damp"}
  /\ readySeen \in BOOLEAN /\ allowedSeen \in BOOLEAN
  /\ lastMode \in {"stand", "walk", "damp"}
  /\ period \in 1 .. MaxLate

-----------------------------------------------------------------------------
(* Conditions and speed limits. *)

MovementAllowed(s) ==
  /\ s.state \notin {"Initial", "Finished", "Standby", "Set"}
  /\ s.player = "active"

Clamp(x, lo, hi) == IF x < lo THEN lo ELSE IF x > hi THEN hi ELSE x

Slew(previous, target, delta) == previous + Clamp(target - previous, -delta, delta)

(* dt of limitWalkRequest: one nominal period on the first call. *)
Elapsed == IF sinceMotion = -1 THEN 1 ELSE sinceMotion

(* Wrong: the request is slewed but no longer clamped. *)
LimitWalkRequest_slewOnly(w, ball) ==
  [dx |-> Slew(last_sent_walk.dx, w.dx, Accel * Elapsed),
   dy |-> Slew(last_sent_walk.dy, w.dy, SideAccel * Elapsed)]

(* Wrong: the request is clamped but no longer slewed. *)
LimitWalkRequest_clampOnly(w, ball) ==
  [dx |-> Clamp(w.dx, -MaxBackward, MaxForward),
   dy |-> IF ball THEN Clamp(w.dy, -MaxSide, MaxSide) ELSE 0]

LimitWalkRequest(w, ball) ==
  LET side == IF ball THEN MaxSide ELSE 0    \* kMaxNonBallSideSpeed
  IN  [dx |-> Slew(last_sent_walk.dx, Clamp(w.dx, -MaxBackward, MaxForward), Accel * Elapsed),
       dy |-> Slew(last_sent_walk.dy, Clamp(w.dy, -side, side), SideAccel * Elapsed)]

-----------------------------------------------------------------------------

Init ==
  /\ running = TRUE
  /\ fallen = "READY"       \* seedG1StartupChannels and the constructor of Sensor
  /\ command = Stand
  /\ gc = InitialGC
  /\ strategyUp = TRUE
  /\ mpc = "sleep"
  /\ fRead = "READY" /\ cRead = Stand /\ gRead = InitialGC
  /\ last_sent_walk = StandStill
  /\ sinceMotion = -1
  /\ robot = "stand"        \* BalanceStand in the constructor
  /\ readySeen = FALSE /\ allowedSeen = FALSE
  /\ lastMode = "stand"
  /\ period = 1

(* The other threads. *)

PublishFallen(f) ==
  /\ fallen' = f
  /\ readySeen' = (readySeen \/ (mpc \notin {"sleep", "ended"} /\ f = "READY"))
  /\ UNCHANGED <<running, command, gc, strategyUp, mpc, reads, last_sent_walk, sinceMotion,
                 robot, allowedSeen, lastMode, period>>

PublishCommand(c) ==
  /\ strategyUp
  /\ command' = c
  /\ UNCHANGED <<running, fallen, gc, strategyUp, mpc, reads, last_sent_walk, sinceMotion,
                 robot, history>>

PublishGC(s) ==
  /\ gc' = s
  /\ allowedSeen' = (allowedSeen \/ (mpc \notin {"sleep", "ended"} /\ MovementAllowed(s)))
  /\ UNCHANGED <<running, fallen, command, strategyUp, mpc, reads, last_sent_walk, sinceMotion,
                 robot, readySeen, lastMode, period>>

(* The strategy loop hangs or is late for good. *)
StrategyStalls ==
  /\ strategyUp
  /\ strategyUp' = FALSE
  /\ UNCHANGED <<running, fallen, command, gc, mpc, reads, last_sent_walk, sinceMotion, robot,
                 history>>

StopRunning ==
  /\ running
  /\ running' = FALSE
  /\ UNCHANGED <<fallen, command, gc, strategyUp, mpc, reads, last_sent_walk, sinceMotion, robot,
                 history>>

-----------------------------------------------------------------------------
(* MotionConnector::proceed. *)

Later(t, d) == IF t + d > MaxIdle THEN MaxIdle ELSE t + d

(* The round starts d periods after the last one and reads the fall-down state. *)
ReadFallen(d) ==
  /\ mpc = "sleep"
  /\ running
  /\ mpc' = "command"
  /\ fRead' = fallen
  /\ sinceMotion' = IF sinceMotion = -1 THEN -1 ELSE Later(sinceMotion, d)
  /\ period' = d
  /\ readySeen' = (fallen = "READY")
  /\ allowedSeen' = MovementAllowed(gc)
  /\ UNCHANGED <<inputs, cRead, gRead, last_sent_walk, robot, lastMode>>

ReadCommand ==
  /\ mpc = "command"
  /\ mpc' = "gc"
  /\ cRead' = command
  /\ UNCHANGED <<inputs, fRead, gRead, last_sent_walk, sinceMotion, robot, history>>

ReadGC ==
  /\ mpc = "gc"
  /\ mpc' = "act"
  /\ gRead' = gc
  /\ UNCHANGED <<inputs, fRead, cRead, last_sent_walk, sinceMotion, robot, history>>

(* proceed() returns: what it read is gone. *)
RoundEnds ==
  /\ mpc' = "sleep"
  /\ fRead' = "READY" /\ cRead' = Stand /\ gRead' = InitialGC
  /\ readySeen' = FALSE
  /\ allowedSeen' = FALSE
  /\ period' = 1
  /\ UNCHANGED inputs

(* One request to the SDK, whose result proceed() does not act on: `ok` when it is accepted. *)
Request(mode, walk, ok) ==
  /\ robot' = IF ok THEN mode ELSE robot
  /\ last_sent_walk' = walk
  /\ lastMode' = mode
  /\ RoundEnds

DampRobot(ok) ==
  /\ mpc = "act"
  /\ fRead # "READY"
  /\ Request("damp", StandStill, ok)
  /\ UNCHANGED sinceMotion

(* Wrong: the game state decides only whether a standing robot may start. *)
MustStand_onlyAtStart ==
  \/ lastMode # "walk" /\ ~MovementAllowed(gRead)
  \/ cRead.type # "WALK"

MustStand ==
  \/ ~MovementAllowed(gRead)
  \/ cRead.type # "WALK"

(* Wrong: the request to stop is not repeated once it was sent. *)
SendSafeStop_once(ok) ==
  /\ mpc = "act"
  /\ fRead = "READY"
  /\ MustStand
  /\ IF lastMode # "stand"
     THEN Request("stand", StandStill, ok)
     ELSE RoundEnds /\ UNCHANGED <<last_sent_walk, robot, lastMode>>
  /\ UNCHANGED sinceMotion

SendSafeStop(ok) ==
  /\ mpc = "act"
  /\ fRead = "READY"
  /\ MustStand
  /\ Request("stand", StandStill, ok)
  /\ UNCHANGED sinceMotion

SendWalk(ok) ==
  /\ mpc = "act"
  /\ fRead = "READY"
  /\ ~MustStand
  /\ Request("walk", LimitWalkRequest(cRead.walk, cRead.ball), ok)
  /\ sinceMotion' = 0

(* motionLoop is left and the connector destroyed: StopMove, BalanceStand. *)
EndLoop(ok) ==
  /\ mpc = "sleep"
  /\ ~running
  /\ mpc' = "ended"
  /\ robot' = IF ok THEN "stand" ELSE robot
  /\ lastMode' = "stand"
  /\ UNCHANGED <<inputs, reads, last_sent_walk, sinceMotion, readySeen,
                 allowedSeen, period>>

MotionStep ==
  \/ \E d \in 1 .. MaxLate : ReadFallen(d)
  \/ ReadCommand
  \/ ReadGC
  \/ \E ok \in BOOLEAN : DampRobot(ok) \/ SendSafeStop(ok) \/ SendWalk(ok) \/ EndLoop(ok)

Next ==
  \/ MotionStep
  \/ \E f \in FallStates : PublishFallen(f)
  \/ \E c \in Commands : PublishCommand(c)
  \/ \E s \in GCStates : PublishGC(s)
  \/ StrategyStalls
  \/ StopRunning

(***************************************************************************)
(* The motion thread keeps running, and the SDK does not reject the same   *)
(* kind of request for ever.  Nobody has to publish anything.              *)
(***************************************************************************)
Fairness ==
  /\ WF_vars(MotionStep)
  /\ SF_vars(DampRobot(TRUE))
  /\ SF_vars(SendSafeStop(TRUE))

Spec == Init /\ [][Next]_vars

FairSpec == Spec /\ Fairness

-----------------------------------------------------------------------------
(* Properties. *)

Moving == mpc = "act" /\ mpc' = "sleep" /\ lastMode' = "walk"

Abs(x) == IF x < 0 THEN -x ELSE x

(***************************************************************************)
(* The three samples of a round are read one after the other, and a Move   *)
(* follows the last read at some distance.  It is sent only if, since the  *)
(* round began, the robot was upright at some time and allowed to move at  *)
(* some time: a state that held before the round cannot release it.        *)
(***************************************************************************)
MoveNeedsPermission == [][Moving => readySeen /\ allowedSeen]_vars

(***************************************************************************)
(* Between two successive Moves the speed changes by no more than the      *)
(* acceleration allows for the time between them, late rounds included;    *)
(* and sideways speed is built up only while the head follows the ball,    *)
(* any other focus lets what is left of it run out.                        *)
(***************************************************************************)
SlewBetweenMoves ==
  [][Moving /\ lastMode = "walk" =>
       /\ Abs(last_sent_walk'.dx - last_sent_walk.dx) <= Accel * period
       /\ Abs(last_sent_walk'.dy - last_sent_walk.dy) <= SideAccel * period
       /\ ~cRead.ball => Abs(last_sent_walk'.dy) <= Abs(last_sent_walk.dy)]_vars

(***************************************************************************)
(* A robot that stays forbidden to move ends up not walking, and one that  *)
(* stays fallen ends up damped, although the SDK may reject single         *)
(* requests and proceed() ignores their results.                           *)
(***************************************************************************)
ForbiddenStops ==
  []running =>
    /\ <>[](~MovementAllowed(gc)) => <>[](robot # "walk")
    /\ <>[](fallen = "FALLEN") => <>[](robot = "damp")

(***************************************************************************)
(* agent_guidelines/g1_safety.md:54 and :63 ask for a timeout of motion    *)
(* commands that leads to a safe stop: a robot whose strategy loop has     *)
(* stopped publishing does not go on walking.                              *)
(***************************************************************************)
CommandTimeout ==
  []running /\ <>[](~strategyUp) => []<>(robot # "walk")

=============================================================================
