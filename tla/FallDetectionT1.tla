---------------------------- MODULE FallDetectionT1 ----------------------------
(***************************************************************************)
(* htwk::Sensor of the T1 and K1 builds (sensor/sensor.cpp): the callback  *)
(* of the low state and the callback of the robot's own fall detection run *)
(* in different threads; both read the fall-down state from its channel    *)
(* and publish it again, with no lock between.                             *)
(*                                                                         *)
(* The body and the Booster SDK are external.  While the SDK gets the      *)
(* robot up the motors work, so that the torque is not below its limit.    *)
(***************************************************************************)
EXTENDS Naturals

CONSTANTS
  MaxFalls,      \* bound: how often the robot falls
  MaxFailures    \* bound: how often getting up fails

ASSUME T1Assumption == MaxFalls \in Nat /\ MaxFailures \in Nat

VARIABLES
  body,          \* "up", "down", or "rising" while the SDK gets it up
  sdkState,      \* what the SDK publishes: 0 standing, 1 fallen, 2 getting up
  falls,         \* how often the robot has fallen
  failures,      \* how often the SDK has failed
  fallType,      \* type in fallen_channel
  getUpAge,      \* since last_getup_started: 0, 1 after 1 s, 2 after 6.5 s
  low,           \* lowHandler
  booster        \* update_fall_down_state_booster

detectVars == <<body, sdkState, falls, failures, fallType, getUpAge, low, booster>>
envVars == <<body, sdkState, falls, failures>>

FallTypes == {"READY", "FALLEN", "GETTING_UP"}

DetectTypeOK ==
  /\ body \in {"up", "down", "rising"}
  /\ sdkState \in 0 .. 2
  /\ falls \in 0 .. MaxFalls
  /\ failures \in 0 .. MaxFailures
  /\ fallType \in FallTypes
  /\ getUpAge \in 0 .. 2
  /\ low \in [pc : {"idle", "read"}, tilted : BOOLEAN, weak : BOOLEAN, saw : FallTypes]
  /\ booster \in [pc : {"idle", "read"}, state : 0 .. 2, saw : FallTypes]

LowIdle == [pc |-> "idle", tilted |-> FALSE, weak |-> FALSE, saw |-> "READY"]
BoosterIdle == [pc |-> "idle", state |-> 0, saw |-> "READY"]

DetectInit ==
  /\ body = "up"
  /\ sdkState = 0
  /\ falls = 0
  /\ failures = 0
  /\ fallType = "READY"
  /\ getUpAge = 2
  /\ low = LowIdle
  /\ booster = BoosterIdle

-----------------------------------------------------------------------------
(* The body and the SDK *)

Fall ==
  /\ body # "down" /\ falls < MaxFalls
  /\ body' = "down"
  /\ falls' = falls + 1
  /\ UNCHANGED <<sdkState, failures, fallType, getUpAge, low, booster>>

GetUpSucceeds ==
  /\ body = "rising"
  /\ body' = "up" /\ sdkState' = 0
  /\ UNCHANGED <<falls, failures, fallType, getUpAge, low, booster>>

GetUpFails ==
  /\ body = "rising" /\ failures < MaxFailures
  /\ body' = "down"
  /\ failures' = failures + 1
  /\ UNCHANGED <<sdkState, falls, fallType, getUpAge, low, booster>>

\* A referee or a helper sets the robot on its feet.
PickedUp ==
  /\ body = "down"
  /\ body' = "up" /\ sdkState' = 0
  /\ UNCHANGED <<falls, failures, fallType, getUpAge, low, booster>>

\* The SDK's own detection of the fall comes some time after it.
SdkNotices ==
  /\ body = "down" /\ sdkState # 1
  /\ sdkState' = 1
  /\ UNCHANGED <<body, falls, failures, fallType, getUpAge, low, booster>>

GetUpTimePasses ==
  /\ getUpAge < 2
  /\ getUpAge' = getUpAge + 1
  /\ UNCHANGED <<envVars, fallType, low, booster>>

-----------------------------------------------------------------------------
(* lowHandler *)

LowHandler ==
  /\ low.pc = "idle"
  /\ \E weak \in IF body = "rising" THEN {FALSE} ELSE BOOLEAN :
       low' = [pc |-> "read", tilted |-> (body # "up"), weak |-> weak, saw |-> fallType]
  /\ UNCHANGED <<envVars, fallType, getUpAge, booster>>

\* What update_fall_down_state publishes, or what it has read.
NextFallType(saw) ==
  CASE saw = "READY" /\ low.tilted -> "FALLEN"
    [] saw = "GETTING_UP" /\ getUpAge >= 1 /\ low.weak -> "FALLEN"
    [] saw = "GETTING_UP" /\ getUpAge = 2 /\ ~low.weak -> IF low.tilted THEN "FALLEN" ELSE "READY"
    [] OTHER -> saw

LowPublish ==
  LET type == NextFallType(low.saw)
  IN /\ low.pc = "read"
     /\ low' = LowIdle
     /\ fallType' = IF type # low.saw THEN type ELSE fallType
     /\ UNCHANGED <<envVars, getUpAge, booster>>

-----------------------------------------------------------------------------
(* update_fall_down_state_booster *)

BoosterHandler ==
  /\ booster.pc = "idle"
  /\ booster' = [pc |-> "read", state |-> sdkState, saw |-> fallType]
  /\ UNCHANGED <<envVars, fallType, getUpAge, low>>

(* Wrong: the robot's own READY is not taken over. *)
BoosterPublish_onlyGettingUp ==
  /\ booster.pc = "read"
  /\ booster' = BoosterIdle
  /\ LET rising == booster.state = 2 /\ booster.saw # "GETTING_UP"
     IN /\ fallType' = IF rising THEN "GETTING_UP" ELSE fallType
        /\ getUpAge' = IF rising THEN 0 ELSE getUpAge
  /\ UNCHANGED <<envVars, low>>

BoosterPublish ==
  /\ booster.pc = "read"
  /\ booster' = BoosterIdle
  /\ CASE booster.state = 2 /\ booster.saw # "GETTING_UP" ->
            fallType' = "GETTING_UP" /\ getUpAge' = 0
       [] booster.state = 0 /\ booster.saw # "READY" ->
            fallType' = "READY" /\ UNCHANGED getUpAge
       [] OTHER -> UNCHANGED <<fallType, getUpAge>>
  /\ UNCHANGED <<envVars, low>>

DetectEnv == Fall \/ GetUpSucceeds \/ GetUpFails \/ PickedUp \/ SdkNotices \/ GetUpTimePasses
LowStep == LowHandler \/ LowPublish
BoosterStep == BoosterHandler \/ BoosterPublish

=============================================================================
