---------------------------- MODULE MotionConnectorT1 ----------------------------
(***************************************************************************)
(* The motion connector of the T1 and of the K1 with the fall detection it *)
(* reacts to (motion_connector/motion_connector_t1.cpp and _k1.cpp, which  *)
(* differ in one condition about AlwaysPlayGC's game that is always on).   *)
(*                                                                         *)
(* A round of proceed() is one step but for the second it sleeps before it *)
(* asks the robot to get up; the fall-down state is read at its beginning. *)
(* The head and the low-level joint commands are left out, and ChangeMode  *)
(* but for the mode the connector believes in.  The SDK is external: a     *)
(* robot that lies gets up when it is asked to, a robot that stands or is  *)
(* getting up ignores the request, and whenever the robot changes its      *)
(* posture the SDK forgets the last Move.                                  *)
(***************************************************************************)
EXTENDS FallDetectionT1

CONSTANTS
  SameLimit    \* equal requests that are still sent: 10

ASSUME ConnectorAssumption == SameLimit \in Nat \ {0, 1}

VARIABLES
  connector,    \* "idle", "read" or "sleep"
  sawFall,      \* fall_down_state of this round, READY between rounds
  currentMode,  \* current_mode
  lastWalk,     \* last_walk_request
  sameCount,    \* same_motion_command_count, up to SameLimit
  standing,     \* standing
  standAge,     \* whether start_standing_time is more than 5 s ago
  moving,       \* what the SDK walks: the last Move, still if it forgot it
  wanted        \* history: what the last round with walking wanted, or "any"

connectVars == <<connector, sawFall, currentMode, lastWalk, sameCount, standing, standAge, moving, wanted>>
t1Vars == <<detectVars, connectVars>>

\* No walk has dx = dy = da but standing still: the agents compute the three
\* from distances and angles, with gains and clamps of their own.
Walks == {"still", "ahead", "aside"}
\* A walk request as <<dx, dy, da>>.
WalkRequest(w) == CASE w = "still" -> <<0, 0, 0>> [] w = "ahead" -> <<1, 0, 0>> [] w = "aside" -> <<0, 1, 0>>

T1TypeOK ==
  /\ DetectTypeOK
  /\ connector \in {"idle", "read", "sleep"}
  /\ sawFall \in FallTypes
  /\ currentMode \in {"kPrepare", "kDamping", "kWalking", "kCustom"}
  /\ lastWalk \in Walks
  /\ sameCount \in 0 .. SameLimit
  /\ standing \in BOOLEAN /\ standAge \in BOOLEAN
  /\ moving \in Walks
  /\ wanted \in Walks \cup {"any"}

T1Init ==
  /\ DetectInit
  /\ connector = "idle"
  /\ sawFall = "READY"
  /\ currentMode = "kPrepare"
  /\ lastWalk = "still"
  /\ sameCount = 0
  /\ standing = FALSE /\ standAge = FALSE
  /\ moving = "still"
  /\ wanted = "any"

-----------------------------------------------------------------------------
(* send_high_level_motion *)

\* The request is compared with the last dx only.
(* Wrong: each component is compared with its own last value. *)
SameRequest_each(w) == w = lastWalk

SameRequest(w) ==
  \A k \in 1 .. 3 : WalkRequest(w)[k] = WalkRequest(lastWalk)[1]

CappedCount(n) == IF n < SameLimit THEN n ELSE SameLimit

SendHighLevelMotion(w) ==
  LET count == IF SameRequest(w) THEN CappedCount(sameCount + 1) ELSE 0
  IN /\ sameCount' = count
     /\ moving' = IF count < SameLimit THEN w ELSE moving
     /\ lastWalk' = w
     /\ wanted' = w

-----------------------------------------------------------------------------
(* proceed *)

ReadFallState ==
  /\ connector = "idle"
  /\ connector' = "read"
  /\ sawFall' = fallType
  /\ wanted' = "any"
  /\ UNCHANGED <<detectVars, currentMode, lastWalk, sameCount, standing, standAge, moving>>

\* handle_fallen_robot while the gyro still turns.
StillFalling ==
  /\ connector = "read" /\ sawFall = "FALLEN"
  /\ currentMode' = "kDamping"
  /\ sawFall' = "READY"
  /\ connector' = "idle"
  /\ UNCHANGED <<detectVars, lastWalk, sameCount, standing, standAge, moving, wanted>>

\* The robot lies: kPrepare, then a second of sleep.
PrepareToGetUp ==
  /\ connector = "read" /\ sawFall = "FALLEN"
  /\ currentMode' = "kPrepare"
  /\ sawFall' = "READY"
  /\ connector' = "sleep"
  /\ UNCHANGED <<detectVars, lastWalk, sameCount, standing, standAge, moving, wanted>>

RequestGetUp ==
  /\ connector = "sleep"
  /\ connector' = "idle"
  /\ IF body = "down"
     THEN body' = "rising" /\ sdkState' = 2 /\ moving' = "still"
     ELSE UNCHANGED <<body, sdkState, moving>>
  /\ UNCHANGED <<falls, failures, fallType, getUpAge, low, booster>>
  /\ UNCHANGED <<sawFall, currentMode, lastWalk, sameCount, standing, standAge, wanted>>

GettingUp ==
  /\ connector = "read" /\ sawFall = "GETTING_UP"
  /\ sawFall' = "READY"
  /\ connector' = "idle"
  /\ UNCHANGED <<detectVars, currentMode, lastWalk, sameCount, standing, standAge, moving, wanted>>

\* The game state forbids walking: Set, or one of Initial, Finished, Standby
\* and a penalty.  More than 5 s after the robot has stopped nothing is sent,
\* but in Set.
StandStill ==
  /\ connector = "read" /\ sawFall = "READY"
  /\ connector' = "idle"
  /\ standing' = TRUE
  /\ standAge' = (standing /\ standAge)
  /\ \E game \in {"set", "halt"} :
       IF game = "halt" /\ standing /\ standAge
       THEN UNCHANGED <<sameCount, moving, lastWalk>> /\ wanted' = "still"
       ELSE SendHighLevelMotion("still")
  /\ UNCHANGED <<detectVars, sawFall, currentMode>>

\* JOINT_CONTROL goes to the joints and leaves the last Move alone; a robot
\* that stands keeps its mode when AlwaysPlayGC takes the place of the referee.
Act ==
  /\ connector = "read" /\ sawFall = "READY"
  /\ connector' = "idle"
  /\ standing' = FALSE
  /\ standAge' = FALSE
  /\ \E command \in {"JOINT_CONTROL", "NOTHING", "ahead", "aside"} :
       IF command = "JOINT_CONTROL"
       THEN currentMode' = "kCustom" /\ UNCHANGED <<sameCount, moving, lastWalk, wanted>>
       ELSE /\ SendHighLevelMotion(IF command = "NOTHING" THEN "still" ELSE command)
            /\ currentMode' \in {"kWalking"} \cup (IF command = "NOTHING" THEN {currentMode} ELSE {})
  /\ UNCHANGED <<detectVars, sawFall>>

Proceed == ReadFallState \/ StillFalling \/ PrepareToGetUp \/ RequestGetUp \/ GettingUp \/ StandStill \/ Act

-----------------------------------------------------------------------------
(* The rest of the program and of the world *)

StandingTimePasses ==
  /\ standing /\ ~standAge
  /\ standAge' = TRUE
  /\ UNCHANGED <<detectVars, connector, sawFall, currentMode, lastWalk, sameCount, standing, moving, wanted>>

\* A robot that falls or is set up forgets the last Move.
BodyStep ==
  /\ DetectEnv
  /\ moving' = IF body' = body THEN moving ELSE "still"
  /\ wanted' = IF body' = body THEN wanted ELSE "any"
  /\ UNCHANGED <<connector, sawFall, currentMode, lastWalk, sameCount, standing, standAge>>

CallbackStep ==
  /\ LowStep \/ BoosterStep
  /\ UNCHANGED connectVars

T1Next == Proceed \/ StandingTimePasses \/ BodyStep \/ CallbackStep

T1Fairness ==
  /\ WF_t1Vars(Proceed)
  /\ SF_t1Vars(PrepareToGetUp)
  /\ WF_t1Vars(LowStep /\ CallbackStep)
  /\ WF_t1Vars(BoosterStep /\ CallbackStep)
  /\ WF_t1Vars(SdkNotices /\ BodyStep)
  /\ WF_t1Vars(GetUpTimePasses /\ BodyStep)
  /\ WF_t1Vars(GetUpSucceeds /\ BodyStep)

T1Spec == T1Init /\ [][T1Next]_t1Vars /\ T1Fairness

-----------------------------------------------------------------------------
(***************************************************************************)
(* After any of its falls, failed attempts and late or contradicting       *)
(* callbacks the robot ends on its feet and the program knows it: the two  *)
(* callbacks do not leave FALLEN or GETTING_UP behind, and the connector   *)
(* goes on asking until the SDK has got the robot up.                      *)
(***************************************************************************)
StandsUpAgain == <>[](body = "up" /\ fallType = "READY")

(***************************************************************************)
(* Requests that repeat are not sent, and the SDK forgets the last Move    *)
(* when the robot falls.  Still, after every round in which the robot may  *)
(* walk or has to stand the SDK walks as the round wanted: a walk goes on  *)
(* after a fall, and no robot walks on where it has to stand.              *)
(***************************************************************************)
FollowsRequest == connector = "idle" /\ wanted # "any" => moving = wanted

=============================================================================
