------------------------ MODULE MotionConnectorG1_proofs ------------------------
(***************************************************************************)
(* Proofs about MotionConnectorG1 for all commands, game states, speed     *)
(* limits and delays.                                                      *)
(*                                                                         *)
(* What the samples of a round are worth when the Move is sent is carried  *)
(* from read to read: a sample that permits was permitting at some time in *)
(* this round.  The clock of the limiter is worth something between Moves  *)
(* only: then it shows the time since the last one.                        *)
(***************************************************************************)
EXTENDS MotionConnectorG1, TLAPS

InRound == mpc \in {"command", "gc", "act"}

\* A sample that permits, read or still in its channel, has been seen to in this round.
SeenUpright == InRound /\ fRead = "READY" => readySeen
SeenAllowed ==
  /\ InRound /\ MovementAllowed(gc) => allowedSeen
  /\ mpc = "act" /\ MovementAllowed(gRead) => allowedSeen

\* After a Move the limiter's clock shows no more than the time since that Move.
ClockAfterMove ==
  lastMode = "walk" =>
    /\ mpc = "sleep" => sinceMotion = 0
    /\ InRound => sinceMotion \in 0 .. period

IInv == TypeOK /\ SeenUpright /\ SeenAllowed /\ ClockAfterMove

-----------------------------------------------------------------------------
(* The bounds alone, without what is assumed of the samples. *)
LEMMA BoundsAreNat ==
  /\ MaxForward \in Nat /\ MaxBackward \in Nat /\ MaxSide \in Nat
  /\ Accel \in Nat /\ SideAccel \in Nat
  /\ MaxLate \in Nat /\ MaxIdle \in Nat /\ 1 <= MaxLate /\ MaxLate <= MaxIdle
BY MotionAssumption

(* A command that can be read has a walk request and a focus of the head. *)
LEMMA CommandIsTyped ==
  ASSUME NEW c \in Commands \cup {Stand}
  PROVE  c.walk \in Walk /\ c.ball \in BOOLEAN
<1>1. c \in [type : CommandTypes, walk : Walk, ball : BOOLEAN]
  <2>1. Stand \in [type : CommandTypes, walk : Walk, ball : BOOLEAN]
    BY DEF Stand, StandStill, Walk, CommandTypes
  <2> QED
    BY <2>1, MotionAssumption
<1> QED
  BY <1>1

(* The limiter *)

(* A slewed speed lies between the last one and the target, and not further *)
(* from the last one than delta.                                            *)
LEMMA SlewBetween ==
  ASSUME NEW previous \in Int, NEW target \in Int, NEW delta \in Nat
  PROVE  LET s == Slew(previous, target, delta)
         IN  /\ s \in Int
             /\ Abs(s - previous) <= delta
             /\ previous <= target => previous <= s /\ s <= target
             /\ target <= previous => target <= s /\ s <= previous
BY DEF Slew, Clamp, Abs

LEMMA ElapsedIsNat == TypeOK => Elapsed \in Nat
BY BoundsAreNat DEF TypeOK, Elapsed

LEMMA ProductIsNat ==
  ASSUME NEW m \in Nat, NEW n \in Nat
  PROVE  m * n \in Nat
OBVIOUS

LEMMA ProductGrows ==
  ASSUME NEW k \in Nat, NEW m \in Nat, NEW n \in Nat, m <= n
  PROVE  k * m <= k * n
OBVIOUS

(* limitWalkRequest stays within the limits, changes each speed by no more *)
(* than the acceleration allows for the elapsed time, and lets what is     *)
(* left of a sideways speed only run out when the head is elsewhere.       *)
LEMMA LimitIsSafe ==
  ASSUME TypeOK, NEW w \in Walk, NEW ball \in BOOLEAN
  PROVE  LET sent == LimitWalkRequest(w, ball)
         IN  /\ sent \in [dx : Speeds, dy : SideSpeeds]
             /\ Abs(sent.dx - last_sent_walk.dx) <= Accel * Elapsed
             /\ Abs(sent.dy - last_sent_walk.dy) <= SideAccel * Elapsed
             /\ ~ball => Abs(sent.dy) <= Abs(last_sent_walk.dy)
<1> DEFINE side == IF ball THEN MaxSide ELSE 0
           x == Clamp(w.dx, -MaxBackward, MaxForward)
           y == Clamp(w.dy, -side, side)
           dx == Slew(last_sent_walk.dx, x, Accel * Elapsed)
           dy == Slew(last_sent_walk.dy, y, SideAccel * Elapsed)
<1>1. /\ MaxForward \in Nat /\ MaxBackward \in Nat /\ MaxSide \in Nat
      /\ Accel * Elapsed \in Nat /\ SideAccel * Elapsed \in Nat
  BY BoundsAreNat, ElapsedIsNat, ProductIsNat
<1>2. last_sent_walk.dx \in Speeds /\ last_sent_walk.dy \in SideSpeeds
  BY DEF TypeOK
<1>3. x \in Speeds /\ y \in (-side) .. side /\ side \in 0 .. MaxSide
  <2>1. side \in 0 .. MaxSide
    BY <1>1
  <2>2. w.dx \in Int /\ w.dy \in Int
    BY DEF Walk
  <2>3. x \in Speeds
    BY <1>1, <2>2 DEF Clamp, Speeds
  <2>4. y \in (-side) .. side
    <3> HIDE DEF side
    <3> QED
      BY <1>1, <2>1, <2>2 DEF Clamp
  <2> QED
    BY <2>1, <2>3, <2>4
<1>4. /\ dx \in Int
      /\ Abs(dx - last_sent_walk.dx) <= Accel * Elapsed
      /\ last_sent_walk.dx <= x => last_sent_walk.dx <= dx /\ dx <= x
      /\ x <= last_sent_walk.dx => x <= dx /\ dx <= last_sent_walk.dx
  <2> HIDE DEF x
  <2>1. last_sent_walk.dx \in Int /\ x \in Int
    BY <1>1, <1>2, <1>3 DEF Speeds
  <2> QED
    BY <1>1, <2>1, SlewBetween
<1>5. /\ dy \in Int
      /\ Abs(dy - last_sent_walk.dy) <= SideAccel * Elapsed
      /\ last_sent_walk.dy <= y => last_sent_walk.dy <= dy /\ dy <= y
      /\ y <= last_sent_walk.dy => y <= dy /\ dy <= last_sent_walk.dy
  <2> HIDE DEF y
  <2>1. last_sent_walk.dy \in Int /\ y \in Int
    <3> HIDE DEF side
    <3> QED
      BY <1>1, <1>2, <1>3 DEF SideSpeeds
  <2> QED
    BY <1>1, <2>1, SlewBetween
<1> HIDE DEF x, y, dx, dy
<1>6. dx \in Speeds
  BY <1>1, <1>2, <1>3, <1>4 DEF Speeds
<1>7. dy \in SideSpeeds /\ (~ball => Abs(dy) <= Abs(last_sent_walk.dy))
  BY <1>1, <1>2, <1>3, <1>5 DEF SideSpeeds, Abs
<1>8. LimitWalkRequest(w, ball) = [dx |-> dx, dy |-> dy]
  BY DEF LimitWalkRequest, dx, dy, x, y
<1> QED
  BY <1>4, <1>5, <1>6, <1>7, <1>8

-----------------------------------------------------------------------------
(* The inductive invariant *)

LEMMA InitIInv == Init => IInv
<1> SUFFICES ASSUME Init PROVE IInv
  OBVIOUS
<1>1. StandStill \in [dx : Speeds, dy : SideSpeeds]
  BY BoundsAreNat DEF StandStill, Speeds, SideSpeeds
<1>2. TypeOK
  <2>1. sinceMotion \in -1 .. MaxIdle
    BY BoundsAreNat DEF Init
  <2>2. period \in 1 .. MaxLate
    BY BoundsAreNat DEF Init
  <2>3. last_sent_walk \in [dx : Speeds, dy : SideSpeeds]
    BY <1>1 DEF Init
  <2>4. running \in BOOLEAN /\ strategyUp \in BOOLEAN /\ readySeen \in BOOLEAN /\ allowedSeen \in BOOLEAN
    BY DEF Init
  <2>5. fallen \in FallStates /\ fRead \in FallStates
    BY DEF Init, FallStates
  <2> QED
    BY <2>1, <2>2, <2>3, <2>4, <2>5 DEF Init, TypeOK
<1> QED
  BY <1>2 DEF Init, IInv, SeenUpright, SeenAllowed, ClockAfterMove, InRound

(* The other threads: a sample that is published permits from now on. *)
LEMMA OthersKeep ==
  ASSUME IInv,
         \/ \E f \in FallStates : PublishFallen(f)
         \/ \E c \in Commands : PublishCommand(c)
         \/ \E s \in GCStates : PublishGC(s)
         \/ StrategyStalls
         \/ StopRunning
  PROVE  IInv'
<1> USE DEF IInv
<1>1. ASSUME NEW f \in FallStates, PublishFallen(f) PROVE IInv'
  BY <1>1 DEF PublishFallen, TypeOK, SeenUpright, SeenAllowed, ClockAfterMove, InRound, reads
<1>2. ASSUME NEW c \in Commands, PublishCommand(c) PROVE IInv'
  BY <1>2 DEF PublishCommand, TypeOK, SeenUpright, SeenAllowed, ClockAfterMove, InRound, reads, history
<1>3. ASSUME NEW s \in GCStates, PublishGC(s) PROVE IInv'
  <2>1. TypeOK' /\ SeenUpright' /\ ClockAfterMove'
    BY <1>3 DEF PublishGC, TypeOK, SeenUpright, ClockAfterMove, InRound, reads
  <2>2. SeenAllowed'
    BY <1>3 DEF PublishGC, TypeOK, SeenAllowed, InRound, reads
  <2> QED
    BY <2>1, <2>2
<1>4. CASE StrategyStalls
  <2>1. TypeOK'
    <3>1. strategyUp' \in BOOLEAN /\ UNCHANGED running
      BY <1>4 DEF StrategyStalls
    <3>2. UNCHANGED <<fallen, command, gc, mpc, reads, last_sent_walk, sinceMotion, robot, history>>
      BY <1>4 DEF StrategyStalls
    <3> QED
      BY <3>1, <3>2 DEF TypeOK, reads, history
  <2>2. SeenUpright' /\ ClockAfterMove'
    BY <1>4 DEF StrategyStalls, SeenUpright, ClockAfterMove, InRound, reads, history
  <2>3. SeenAllowed'
    BY <1>4 DEF StrategyStalls, SeenAllowed, InRound, reads, history
  <2> QED
    BY <2>1, <2>2, <2>3
<1>5. CASE StopRunning
  <2>1. TypeOK'
    <3>1. running' \in BOOLEAN /\ UNCHANGED strategyUp
      BY <1>5 DEF StopRunning
    <3>2. UNCHANGED <<fallen, command, gc, mpc, reads, last_sent_walk, sinceMotion, robot, history>>
      BY <1>5 DEF StopRunning
    <3> QED
      BY <3>1, <3>2 DEF TypeOK, reads, history
  <2>2. SeenUpright' /\ ClockAfterMove'
    BY <1>5 DEF StopRunning, SeenUpright, ClockAfterMove, InRound, reads, history
  <2>3. SeenAllowed'
    BY <1>5 DEF StopRunning, SeenAllowed, InRound, reads, history
  <2> QED
    BY <2>1, <2>2, <2>3
<1> QED
  BY <1>1, <1>2, <1>3, <1>4, <1>5

(* A round starts: after a Move the clock shows the d periods that passed. *)
LEMMA ReadFallenKeeps ==
  ASSUME IInv, NEW d \in 1 .. MaxLate, ReadFallen(d)
  PROVE  IInv'
<1> USE BoundsAreNat DEF IInv, ReadFallen, inputs, Later
<1>1. sinceMotion' \in -1 .. MaxIdle /\ period' = d /\ (sinceMotion = 0 => sinceMotion' = d)
  BY DEF TypeOK
<1>2. TypeOK'
  <2>1. readySeen' \in BOOLEAN /\ allowedSeen' \in BOOLEAN
    BY DEF MovementAllowed
  <2> QED
    BY <1>1, <2>1 DEF TypeOK
<1>3. SeenUpright' /\ SeenAllowed'
  BY DEF SeenUpright, SeenAllowed, InRound
<1>4. ClockAfterMove'
  BY <1>1 DEF ClockAfterMove, InRound
<1> QED
  BY <1>2, <1>3, <1>4

LEMMA ReadsKeep ==
  ASSUME IInv, ReadCommand \/ ReadGC
  PROVE  IInv'
<1> USE DEF IInv, inputs, history
<1>1. CASE ReadCommand
  BY <1>1 DEF ReadCommand, TypeOK, SeenUpright, SeenAllowed, ClockAfterMove, InRound
<1>2. CASE ReadGC
  BY <1>2 DEF ReadGC, TypeOK, SeenUpright, SeenAllowed, ClockAfterMove, InRound
<1> QED
  BY <1>1, <1>2

(* Every request ends its round; a Move starts the clock anew. *)
LEMMA RequestKeeps ==
  ASSUME IInv, NEW mode \in {"stand", "walk", "damp"}, NEW walk \in [dx : Speeds, dy : SideSpeeds],
         NEW ok \in BOOLEAN, Request(mode, walk, ok),
         IF mode = "walk" THEN sinceMotion' = 0 ELSE UNCHANGED sinceMotion
  PROVE  IInv'
<1> USE BoundsAreNat DEF IInv, Request, RoundEnds, inputs
<1>1. TypeOK'
  <2>1. robot' \in {"stand", "walk", "damp"}
    BY DEF TypeOK
  <2>2. sinceMotion' \in -1 .. MaxIdle /\ period' \in 1 .. MaxLate
    BY DEF TypeOK
  <2> QED
    BY <2>1, <2>2 DEF TypeOK, FallStates
<1>2. SeenUpright' /\ SeenAllowed' /\ ClockAfterMove'
  BY DEF SeenUpright, SeenAllowed, ClockAfterMove, InRound
<1> QED
  BY <1>1, <1>2

LEMMA ActKeeps ==
  ASSUME IInv, NEW ok \in BOOLEAN, DampRobot(ok) \/ SendSafeStop(ok) \/ SendWalk(ok) \/ EndLoop(ok)
  PROVE  IInv'
<1>1. StandStill \in [dx : Speeds, dy : SideSpeeds]
  BY BoundsAreNat DEF StandStill, Speeds, SideSpeeds
<1>2. CASE DampRobot(ok)
  BY <1>1, <1>2, RequestKeeps DEF DampRobot
<1>3. CASE SendSafeStop(ok)
  BY <1>1, <1>3, RequestKeeps DEF SendSafeStop
<1>4. CASE SendWalk(ok)
  <2>1. cRead.walk \in Walk /\ cRead.ball \in BOOLEAN
    BY CommandIsTyped DEF IInv, TypeOK
  <2>2. LimitWalkRequest(cRead.walk, cRead.ball) \in [dx : Speeds, dy : SideSpeeds]
    BY <2>1, LimitIsSafe DEF IInv
  <2> QED
    BY <1>4, <2>2, RequestKeeps DEF SendWalk
<1>5. CASE EndLoop(ok)
  BY <1>5 DEF EndLoop, IInv, TypeOK, SeenUpright, SeenAllowed, ClockAfterMove, InRound, inputs, reads
<1> QED
  BY <1>2, <1>3, <1>4, <1>5

LEMMA NextIInv == IInv /\ [Next]_vars => IInv'
<1> SUFFICES ASSUME IInv, [Next]_vars PROVE IInv'
  OBVIOUS
<1>1. CASE MotionStep
  BY <1>1, ReadFallenKeeps, ReadsKeep, ActKeeps DEF MotionStep
<1>2. CASE UNCHANGED vars
  BY <1>2 DEF vars, inputs, reads, history, IInv, TypeOK, SeenUpright, SeenAllowed, ClockAfterMove,
              InRound
<1> QED
  BY <1>1, <1>2, OthersKeep DEF Next

LEMMA Invariance == Spec => []IInv
BY InitIInv, NextIInv, PTL DEF Spec

-----------------------------------------------------------------------------
(* A Move is the work of SendWalk. *)
LEMMA MovingIsSendWalk ==
  ASSUME IInv, [Next]_vars, Moving
  PROVE  \E ok \in BOOLEAN : SendWalk(ok)
<1>1. CASE MotionStep
  BY <1>1 DEF MotionStep, Moving, ReadFallen, ReadCommand, ReadGC, DampRobot, SendSafeStop, EndLoop, Request
<1>2. CASE UNCHANGED vars
  BY <1>2 DEF Moving, vars
<1>3. CASE ~MotionStep /\ Next
  BY <1>3 DEF Next, Moving, PublishFallen, PublishCommand, PublishGC, StrategyStalls, StopRunning
<1> QED
  BY <1>1, <1>2, <1>3

(***************************************************************************)
(* The samples, the speeds sent and the limiter's clock keep their types;  *)
(* the speeds sent thus stay within the limits of the robot.               *)
(***************************************************************************)
THEOREM TypeCorrect == Spec => []TypeOK
<1>1. IInv => TypeOK
  BY DEF IInv
<1> QED
  BY <1>1, Invariance, PTL

(***************************************************************************)
(* proceed() reads three channels at different times: whatever the other   *)
(* threads publish between the reads, a Move is sent only in a round in    *)
(* which the robot has been upright and allowed to move.                   *)
(***************************************************************************)
THEOREM MovesArePermitted == Spec => MoveNeedsPermission
<1>1. IInv /\ [Next]_vars => [Moving => readySeen /\ allowedSeen]_vars
  <2> SUFFICES ASSUME IInv, [Next]_vars, Moving PROVE readySeen /\ allowedSeen
    OBVIOUS
  <2>1. mpc = "act" /\ fRead = "READY" /\ MovementAllowed(gRead)
    BY MovingIsSendWalk DEF SendWalk, MustStand
  <2> QED
    BY <2>1 DEF IInv, SeenUpright, SeenAllowed, InRound
<1> QED
  BY <1>1, Invariance, PTL DEF Spec, MoveNeedsPermission

(***************************************************************************)
(* limitWalkRequest between two Moves: for all limits and delays the       *)
(* speeds change by no more than the acceleration allows for the time      *)
(* between the two, although the clock is saturated and stops and Damps    *)
(* leave it alone; without the ball the sideways speed only runs out.      *)
(***************************************************************************)
THEOREM SpeedIsSlewed == Spec => SlewBetweenMoves
<1> DEFINE Slewed ==
      /\ Abs(last_sent_walk'.dx - last_sent_walk.dx) <= Accel * period
      /\ Abs(last_sent_walk'.dy - last_sent_walk.dy) <= SideAccel * period
      /\ ~cRead.ball => Abs(last_sent_walk'.dy) <= Abs(last_sent_walk.dy)
<1>1. IInv /\ [Next]_vars => [Moving /\ lastMode = "walk" => Slewed]_vars
  <2> SUFFICES ASSUME IInv, [Next]_vars, Moving, lastMode = "walk" PROVE Slewed
    OBVIOUS
  <2>1. mpc = "act" /\ last_sent_walk' = LimitWalkRequest(cRead.walk, cRead.ball)
    BY MovingIsSendWalk DEF SendWalk, Request
  <2>2. cRead.walk \in Walk /\ cRead.ball \in BOOLEAN
    BY CommandIsTyped DEF IInv, TypeOK
  <2>3. Elapsed \in Nat /\ period \in Nat /\ Elapsed <= period
    BY <2>1, BoundsAreNat DEF IInv, TypeOK, ClockAfterMove, InRound, Elapsed
  <2>4. Accel * Elapsed <= Accel * period /\ SideAccel * Elapsed <= SideAccel * period
    BY <2>3, ProductGrows, BoundsAreNat
  <2>5. /\ Abs(last_sent_walk'.dx - last_sent_walk.dx) <= Accel * Elapsed
        /\ Abs(last_sent_walk'.dy - last_sent_walk.dy) <= SideAccel * Elapsed
        /\ ~cRead.ball => Abs(last_sent_walk'.dy) <= Abs(last_sent_walk.dy)
        /\ last_sent_walk' \in [dx : Speeds, dy : SideSpeeds]
    BY <2>1, <2>2, LimitIsSafe DEF IInv
  <2>6. /\ Abs(last_sent_walk'.dx - last_sent_walk.dx) \in Int
        /\ Abs(last_sent_walk'.dy - last_sent_walk.dy) \in Int
    BY <2>5, BoundsAreNat DEF IInv, TypeOK, Speeds, SideSpeeds, Abs
  <2>7. /\ Accel * Elapsed \in Int /\ SideAccel * Elapsed \in Int
        /\ Accel * period \in Int /\ SideAccel * period \in Int
    BY <2>3, ProductIsNat, BoundsAreNat
  <2> QED
    BY <2>4, <2>5, <2>6, <2>7
<1> QED
  BY <1>1, Invariance, PTL DEF Spec, SlewBetweenMoves
=============================================================================
