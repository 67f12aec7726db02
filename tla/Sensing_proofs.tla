----------------------------- MODULE Sensing_proofs -----------------------------
(***************************************************************************)
(* Proofs about the G1's fall detection, the T1's motion connector, the    *)
(* G1's adapters, the localization and the tracker, for every value of     *)
(* their constants.                                                        *)
(*                                                                         *)
(* Fall detection: as long as the channel disagrees with the posture some  *)
(* IMU must still put it right: one that has not yet had a whole callback  *)
(* since the last change and is not about to leave the channel as it is.   *)
(*                                                                         *)
(* T1: two ways lead to a round in which nothing is sent, a request that   *)
(* repeats and a robot that has stood long enough.  Both are right because *)
(* only standing still repeats (a request is compared with the last dx),   *)
(* because of two equal requests the first has been sent, and because      *)
(* whatever makes the SDK forget a Move leaves the robot still.            *)
(*                                                                         *)
(* G1: what a callback publishes after the loop's check is young, since a  *)
(* callback takes no longer than a timeout; and the filter's candidate     *)
(* stands where the trail of locations ends and is no older than it.       *)
(*                                                                         *)
(* Tracker: the loop over mergeable keeps an invariant in every round, by  *)
(* which an object that is merged is missing or without confidence.        *)
(***************************************************************************)
EXTENDS MCSensing, FiniteSetTheorems, WellFoundedInduction, TLAPS

-----------------------------------------------------------------------------
(* The G1's fall detection *)

PostureType == IF down THEN "FALLEN" ELSE "READY"

\* A callback that began before the last change is not counted yet.
StaleNotFresh ==
  \A i \in Imu : callback[i].pc # "idle" /\ ~callback[i].recent => i \notin fresh

\* One that began after it has measured the posture.
RecentIsRight ==
  \A i \in Imu : callback[i].pc # "idle" /\ callback[i].recent => callback[i].tilted = down

\* A recent callback that has read the right type publishes nothing.
WillLeave(i) ==
  callback[i].pc = "read" /\ callback[i].recent /\ callback[i].saw = PostureType

Outstanding == fallen # PostureType => \E i \in Imu : i \notin fresh /\ ~WillLeave(i)

FallIInv == FallTypeOK /\ StaleNotFresh /\ RecentIsRight /\ Outstanding

(* A callback arrives at the type that it has measured, whatever it read. *)
LEMMA UpdatedTypeIsMeasured ==
  ASSUME NEW saw \in {"READY", "FALLEN"}, NEW tilted \in BOOLEAN
  PROVE  UpdatedType(saw, tilted) = IF tilted THEN "FALLEN" ELSE "READY"
BY DEF UpdatedType

LEMMA FallInitIInv == FallInit => FallIInv
<1> SUFFICES ASSUME FallInit PROVE FallIInv
  OBVIOUS
<1>1. FallTypeOK
  BY DEF FallInit, FallTypeOK, Callback, Idle
<1>2. \A i \in Imu : callback[i].pc = "idle"
  BY DEF FallInit, Idle
<1>3. Outstanding
  BY <1>2, ImuAssumption DEF FallInit, Outstanding, WillLeave
<1> QED
  BY <1>1, <1>2, <1>3 DEF FallIInv, StaleNotFresh, RecentIsRight

(* After a disturbance every IMU is outstanding, and there is one. *)
LEMMA DisturbKeeps ==
  ASSUME FallIInv, Disturb, down' \in BOOLEAN, fallen' \in {"READY", "FALLEN"}, constructed' \in BOOLEAN
  PROVE  FallIInv'
<1>1. callback' \in [Imu -> Callback] /\ \A i \in Imu : ~callback'[i].recent
  BY DEF FallIInv, FallTypeOK, Disturb, Callback
<1>2. fresh' = {}
  BY DEF Disturb
<1>3. FallTypeOK'
  BY <1>1, <1>2 DEF FallTypeOK
<1>4. Outstanding'
  BY <1>1, <1>2, ImuAssumption DEF Outstanding, WillLeave
<1> QED
  BY <1>1, <1>2, <1>3, <1>4 DEF FallIInv, StaleNotFresh, RecentIsRight

LEMMA HandlerKeeps ==
  ASSUME FallIInv, NEW k \in Imu, ImuHandler(k)
  PROVE  FallIInv'
<1> USE DEF FallIInv, FallTypeOK, ImuHandler
<1>1. callback'[k] \in Callback /\ callback'[k].pc = "sampled" /\ callback'[k].recent
      /\ callback'[k].tilted = down
  BY DEF Callback
<1>2. \A i \in Imu \ {k} : callback'[i] = callback[i]
  OBVIOUS
<1>3. FallTypeOK'
  BY <1>1, <1>2
<1>4. StaleNotFresh' /\ RecentIsRight'
  BY <1>1, <1>2 DEF StaleNotFresh, RecentIsRight
<1>5. Outstanding'
  <2>1. SUFFICES ASSUME fallen # PostureType
                 PROVE  \E i \in Imu : i \notin fresh /\ ~WillLeave(i)'
    BY DEF Outstanding, PostureType
  <2>2. PICK j \in Imu : j \notin fresh /\ ~WillLeave(j)
    BY <2>1 DEF Outstanding
  <2>3. ~WillLeave(j)'
    BY <1>1, <1>2, <2>2 DEF WillLeave, PostureType
  <2> QED
    BY <2>2, <2>3
<1> QED
  BY <1>3, <1>4, <1>5

LEMMA ReadKeeps ==
  ASSUME FallIInv, NEW k \in Imu, ReadFallen(k)
  PROVE  FallIInv'
<1> USE DEF FallIInv, FallTypeOK, ReadFallen
<1>1. /\ callback'[k] \in Callback /\ callback'[k].saw = fallen
      /\ callback[k].pc = "sampled"
      /\ callback'[k].recent = callback[k].recent /\ callback'[k].tilted = callback[k].tilted
  BY DEF Callback
<1>2. \A i \in Imu \ {k} : callback'[i] = callback[i]
  OBVIOUS
<1>3. FallTypeOK'
  BY <1>1, <1>2
<1>4. StaleNotFresh' /\ RecentIsRight'
  BY <1>1, <1>2 DEF StaleNotFresh, RecentIsRight
<1>5. Outstanding'
  <2>1. SUFFICES ASSUME fallen # PostureType
                 PROVE  \E i \in Imu : i \notin fresh /\ ~WillLeave(i)'
    BY DEF Outstanding, PostureType
  <2>2. PICK j \in Imu : j \notin fresh /\ ~WillLeave(j)
    BY <2>1 DEF Outstanding
  <2>3. ~WillLeave(j)'
    BY <1>1, <1>2, <2>1, <2>2 DEF WillLeave, PostureType
  <2> QED
    BY <2>2, <2>3
<1> QED
  BY <1>3, <1>4, <1>5

(* The step of the argument: who publishes the wrong type began before the  *)
(* change and stays outstanding; a recent callback corrects the channel.    *)
LEMMA PublishKeeps ==
  ASSUME FallIInv, NEW k \in Imu, PublishFallen(k)
  PROVE  FallIInv'
<1> DEFINE type == UpdatedType(callback[k].saw, callback[k].tilted)
<1> USE DEF FallIInv, FallTypeOK, PublishFallen
<1>1. callback'[k] \in Callback /\ callback'[k].pc = "idle" /\ callback[k].pc = "read"
  BY DEF Callback
<1>2. \A i \in Imu \ {k} : callback'[i] = callback[i]
  OBVIOUS
<1>3. type = IF callback[k].tilted THEN "FALLEN" ELSE "READY"
  BY UpdatedTypeIsMeasured DEF Callback
<1>4. fresh' \subseteq fresh \cup {k} /\ (~callback[k].recent => fresh' = fresh /\ k \notin fresh)
  BY <1>1 DEF StaleNotFresh
<1>5. fallen' = IF type # callback[k].saw THEN type ELSE fallen
  OBVIOUS
<1>6. FallTypeOK'
  BY <1>1, <1>2, <1>3, <1>4, <1>5
<1>7. StaleNotFresh' /\ RecentIsRight'
  BY <1>1, <1>2, <1>4 DEF StaleNotFresh, RecentIsRight
<1>8. Outstanding'
  <2>1. SUFFICES ASSUME fallen' # PostureType
                 PROVE  \E i \in Imu : i \notin fresh' /\ ~WillLeave(i)'
    BY DEF Outstanding, PostureType
  <2>2. CASE ~callback[k].recent
    BY <1>1, <1>4, <2>2 DEF WillLeave
  <2>3. CASE callback[k].recent
    <3>1. type = PostureType
      BY <1>1, <1>3, <2>3 DEF RecentIsRight, PostureType
    <3>2. fallen' = fallen /\ callback[k].saw = PostureType
      BY <1>5, <2>1, <3>1
    <3>3. PICK j \in Imu : j \notin fresh /\ ~WillLeave(j)
      BY <2>1, <3>2 DEF Outstanding
    <3>4. j # k
      BY <1>1, <2>3, <3>2, <3>3 DEF WillLeave
    <3> QED
      BY <1>2, <1>4, <3>3, <3>4 DEF WillLeave, PostureType
  <2> QED
    BY <2>2, <2>3
<1> QED
  BY <1>6, <1>7, <1>8

LEMMA FallInductive == FallIInv /\ [FallNext]_fallVars => FallIInv'
<1> SUFFICES ASSUME FallIInv, [FallNext]_fallVars PROVE FallIInv'
  OBVIOUS
<1>1. CASE ChangePosture
  BY <1>1, DisturbKeeps DEF ChangePosture, FallIInv, FallTypeOK
<1>2. CASE Construct
  BY <1>2, DisturbKeeps DEF Construct, FallIInv, FallTypeOK
<1>3. ASSUME NEW i \in Imu, ImuHandler(i) \/ ReadFallen(i) \/ PublishFallen(i) PROVE FallIInv'
  BY <1>3, HandlerKeeps, ReadKeeps, PublishKeeps
<1>4. CASE UNCHANGED fallVars
  BY <1>4 DEF fallVars, FallIInv, FallTypeOK, StaleNotFresh, RecentIsRight, Outstanding, WillLeave, PostureType
<1> QED
  BY <1>1, <1>2, <1>3, <1>4 DEF FallNext

LEMMA FallInvariance == FallSpec => []FallIInv
BY FallInitIInv, FallInductive, PTL DEF FallSpec

(***************************************************************************)
(* Every variable of the fall detection keeps its type.                    *)
(***************************************************************************)
THEOREM FallTypeCorrect == FallSpec => []FallTypeOK
<1>1. FallIInv => FallTypeOK
  BY DEF FallIInv
<1> QED
  BY <1>1, FallInvariance, PTL

(***************************************************************************)
(* sensor/sensor.cpp without a lock: however many IMUs there are and       *)
(* however their callbacks overwrite each other, the channel is right once *)
(* each of them has had one whole callback in the new posture.             *)
(***************************************************************************)
THEOREM FallIsSettled == FallSpec => []FallSettles
<1>1. FallIInv => FallSettles
  BY DEF FallIInv, Outstanding, FallSettles, PostureType
<1> QED
  BY <1>1, FallInvariance, PTL

-----------------------------------------------------------------------------
(* The T1's connector *)

\* Within a round nothing is wanted yet.
WantedBetweenRounds == connector # "idle" => wanted = "any"

\* A request that repeated was to stand still, and has been sent.
RepeatsAreStill == sameCount > 0 => moving = "still"

\* So it is with a robot that may not walk.
StandingIsStill == standing => moving = "still"

T1IInv == T1TypeOK /\ WantedBetweenRounds /\ RepeatsAreStill /\ StandingIsStill /\ FollowsRequest

(* Only the request to stand still can equal the last one. *)
LEMMA OnlyStillRepeats ==
  ASSUME lastWalk \in Walks, NEW w \in Walks, SameRequest(w)
  PROVE  w = "still"
<1>1. \A k \in 1 .. 3 : WalkRequest(w)[k] = WalkRequest(lastWalk)[1]
  BY DEF SameRequest
<1>2. WalkRequest(w)[1] = WalkRequest(w)[2]
  BY <1>1
<1>3. CASE w = "ahead"
  BY <1>2, <1>3 DEF WalkRequest
<1>4. CASE w = "aside"
  BY <1>2, <1>4 DEF WalkRequest
<1> QED
  BY <1>3, <1>4 DEF Walks

(* What is requested is walked afterwards, whether or not it was sent. *)
LEMMA RequestIsWalked ==
  ASSUME lastWalk \in Walks, sameCount \in 0 .. SameLimit, moving \in Walks, RepeatsAreStill,
         NEW w \in Walks, SendHighLevelMotion(w)
  PROVE  /\ moving' = w /\ lastWalk' = w /\ wanted' = w
         /\ sameCount' \in 0 .. SameLimit
         /\ RepeatsAreStill'
<1> DEFINE count == IF SameRequest(w) THEN CappedCount(sameCount + 1) ELSE 0
<1>1. /\ sameCount' = count /\ lastWalk' = w /\ wanted' = w
      /\ moving' = IF count < SameLimit THEN w ELSE moving
  BY DEF SendHighLevelMotion
<1>2. SameLimit \in Nat /\ SameLimit >= 2
  BY ConnectorAssumption
<1>3. count \in 0 .. SameLimit
  BY <1>2 DEF CappedCount
<1>4. count > 0 => w = "still"
  BY OnlyStillRepeats
<1>5. count = SameLimit => sameCount > 0
  BY <1>2 DEF CappedCount
<1> HIDE DEF count
<1>6. moving' = w
  BY <1>1, <1>2, <1>3, <1>4, <1>5 DEF RepeatsAreStill
<1> QED
  BY <1>1, <1>3, <1>4, <1>6 DEF RepeatsAreStill

LEMMA T1InitIInv == T1Init => T1IInv
<1> SUFFICES ASSUME T1Init PROVE T1IInv
  OBVIOUS
<1>1. DetectTypeOK
  BY T1Assumption DEF T1Init, DetectInit, DetectTypeOK, FallTypes, LowIdle, BoosterIdle
<1>2. standing \in BOOLEAN /\ standAge \in BOOLEAN
  BY DEF T1Init
<1>3. 0 \in 0 .. SameLimit
  BY ConnectorAssumption
<1>4. T1TypeOK
  BY <1>1, <1>2, <1>3 DEF T1Init, T1TypeOK, FallTypes, Walks
<1> QED
  BY <1>4 DEF T1Init, T1IInv, WantedBetweenRounds, RepeatsAreStill, StandingIsStill, FollowsRequest

(* The detection's own steps keep its types. *)
LEMMA DetectEnvTypes ==
  ASSUME DetectTypeOK, DetectEnv PROVE DetectTypeOK'
<1>1. CASE Fall
  BY <1>1, T1Assumption DEF Fall, DetectTypeOK
<1>2. CASE GetUpSucceeds
  BY <1>2 DEF GetUpSucceeds, DetectTypeOK
<1>3. CASE GetUpFails
  BY <1>3, T1Assumption DEF GetUpFails, DetectTypeOK
<1>4. CASE PickedUp
  BY <1>4 DEF PickedUp, DetectTypeOK
<1>5. CASE SdkNotices
  BY <1>5 DEF SdkNotices, DetectTypeOK
<1>6. CASE GetUpTimePasses
  BY <1>6 DEF GetUpTimePasses, envVars, DetectTypeOK
<1> QED
  BY <1>1, <1>2, <1>3, <1>4, <1>5, <1>6 DEF DetectEnv

LEMMA CallbackTypes ==
  ASSUME DetectTypeOK, LowStep \/ BoosterStep PROVE DetectTypeOK'
<1>1. CASE LowHandler
  <2>1. PICK weak \in BOOLEAN :
          low' = [pc |-> "read", tilted |-> (body # "up"), weak |-> weak, saw |-> fallType]
    BY <1>1 DEF LowHandler
  <2>2. low' \in [pc : {"idle", "read"}, tilted : BOOLEAN, weak : BOOLEAN, saw : FallTypes]
    <3>1. fallType \in FallTypes
      BY DEF DetectTypeOK
    <3>2. (body # "up") \in BOOLEAN
      OBVIOUS
    <3> QED
      BY <2>1, <3>1, <3>2
  <2> QED
    BY <1>1, <2>2 DEF LowHandler, envVars, DetectTypeOK
<1>2. CASE LowPublish
  <2>1. NextFallType(low.saw) \in FallTypes
    BY DEF DetectTypeOK, NextFallType, FallTypes
  <2>2. LowIdle \in [pc : {"idle", "read"}, tilted : BOOLEAN, weak : BOOLEAN, saw : FallTypes]
    BY DEF LowIdle, FallTypes
  <2> QED
    BY <1>2, <2>1, <2>2 DEF LowPublish, envVars, DetectTypeOK
<1>3. CASE BoosterHandler
  BY <1>3 DEF BoosterHandler, envVars, DetectTypeOK
<1>4. CASE BoosterPublish
  <2>1. BoosterIdle \in [pc : {"idle", "read"}, state : 0 .. 2, saw : FallTypes]
    BY DEF BoosterIdle, FallTypes
  <2>2. fallType' \in FallTypes /\ getUpAge' \in 0 .. 2
    BY <1>4 DEF BoosterPublish, DetectTypeOK, FallTypes
  <2> QED
    BY <1>4, <2>1, <2>2 DEF BoosterPublish, envVars, DetectTypeOK
<1> QED
  BY <1>1, <1>2, <1>3, <1>4 DEF LowStep, BoosterStep

(* A round of the connector, by the disjuncts of proceed. *)
LEMMA ProceedKeeps == T1IInv /\ Proceed => T1IInv'
<1> SUFFICES ASSUME T1IInv, Proceed PROVE T1IInv'
  OBVIOUS
<1> USE DEF T1IInv
<1>1. DetectTypeOK /\ lastWalk \in Walks /\ sameCount \in 0 .. SameLimit /\ moving \in Walks
  BY DEF T1TypeOK
<1>2. CASE ReadFallState
  <2>1. fallType \in FallTypes
    BY <1>1 DEF DetectTypeOK
  <2>2. T1TypeOK'
    BY <1>2, <2>1 DEF ReadFallState, detectVars, T1TypeOK, DetectTypeOK
  <2> QED
    BY <1>2, <2>2 DEF ReadFallState, WantedBetweenRounds, RepeatsAreStill, StandingIsStill, FollowsRequest
<1>3. CASE StillFalling \/ PrepareToGetUp \/ GettingUp
  <2>1. T1TypeOK'
    BY <1>3 DEF StillFalling, PrepareToGetUp, GettingUp, detectVars, T1TypeOK, DetectTypeOK, FallTypes
  <2> QED
    BY <1>3, <2>1 DEF StillFalling, PrepareToGetUp, GettingUp,
         WantedBetweenRounds, RepeatsAreStill, StandingIsStill, FollowsRequest
<1>4. CASE RequestGetUp
  <2>1. T1TypeOK'
    BY <1>4 DEF RequestGetUp, T1TypeOK, DetectTypeOK, Walks
  <2>2. wanted' = "any"
    BY <1>4 DEF RequestGetUp, WantedBetweenRounds
  <2>3. moving' \in {moving, "still"} /\ UNCHANGED <<sameCount, standing>>
    BY <1>4 DEF RequestGetUp
  <2> QED
    BY <2>1, <2>2, <2>3 DEF WantedBetweenRounds, RepeatsAreStill, StandingIsStill, FollowsRequest
<1>5. CASE StandStill
  <2>1. /\ moving' = "still" /\ wanted' = "still" /\ lastWalk' \in Walks
        /\ sameCount' \in 0 .. SameLimit /\ RepeatsAreStill'
    <3>1. PICK game \in {"set", "halt"} :
            IF game = "halt" /\ standing /\ standAge
            THEN UNCHANGED <<sameCount, moving, lastWalk>> /\ wanted' = "still"
            ELSE SendHighLevelMotion("still")
      BY <1>5 DEF StandStill
    <3>2. CASE game = "halt" /\ standing /\ standAge
      BY <1>1, <3>1, <3>2 DEF StandingIsStill, RepeatsAreStill
    <3>3. CASE ~(game = "halt" /\ standing /\ standAge)
      <4>1. "still" \in Walks
        BY DEF Walks
      <4> QED
        BY <1>1, <3>1, <3>3, <4>1, RequestIsWalked
    <3> QED
      BY <3>2, <3>3
  <2>2. standing' = TRUE /\ standAge' \in BOOLEAN
    BY <1>5 DEF StandStill
  <2>3. connector' = "idle" /\ UNCHANGED <<detectVars, sawFall, currentMode>>
    BY <1>5 DEF StandStill
  <2>4. T1TypeOK'
    BY <2>1, <2>2, <2>3 DEF detectVars, T1TypeOK, DetectTypeOK, Walks
  <2> QED
    BY <2>1, <2>2, <2>3, <2>4 DEF WantedBetweenRounds, StandingIsStill, FollowsRequest
<1>6. CASE Act
  <2>1. connector = "read" /\ connector' = "idle" /\ standing' = FALSE /\ standAge' = FALSE
        /\ UNCHANGED <<detectVars, sawFall>>
    BY <1>6 DEF Act
  <2>2. PICK command \in {"JOINT_CONTROL", "NOTHING", "ahead", "aside"} :
          IF command = "JOINT_CONTROL"
          THEN currentMode' = "kCustom" /\ UNCHANGED <<sameCount, moving, lastWalk, wanted>>
          ELSE /\ SendHighLevelMotion(IF command = "NOTHING" THEN "still" ELSE command)
               /\ currentMode' \in {"kWalking"} \cup (IF command = "NOTHING" THEN {currentMode} ELSE {})
    BY <1>6 DEF Act
  <2>3. currentMode' \in {"kCustom", "kWalking", currentMode}
    BY <2>2
  <2>4. /\ moving' \in Walks /\ lastWalk' \in Walks /\ wanted' \in {moving', "any"}
        /\ sameCount' \in 0 .. SameLimit /\ RepeatsAreStill'
    <3>1. CASE command = "JOINT_CONTROL"
      <4>1. wanted = "any"
        BY <2>1 DEF WantedBetweenRounds
      <4> QED
        BY <1>1, <2>2, <3>1, <4>1 DEF RepeatsAreStill
    <3>2. CASE command # "JOINT_CONTROL"
      <4> DEFINE w == IF command = "NOTHING" THEN "still" ELSE command
      <4>1. w \in Walks
        BY <3>2 DEF Walks
      <4>2. SendHighLevelMotion(w)
        BY <2>2, <3>2
      <4> HIDE DEF w
      <4> QED
        BY <1>1, <4>1, <4>2, RequestIsWalked
    <3> QED
      BY <3>1, <3>2
  <2>5. T1TypeOK'
    BY <2>1, <2>3, <2>4 DEF detectVars, T1TypeOK, DetectTypeOK
  <2> QED
    BY <2>1, <2>4, <2>5 DEF WantedBetweenRounds, StandingIsStill, FollowsRequest
<1> QED
  BY <1>2, <1>3, <1>4, <1>5, <1>6 DEF Proceed

(* Everything else: a body that moves makes the robot still and the wish void. *)
LEMMA WorldKeeps ==
  T1IInv /\ (StandingTimePasses \/ BodyStep \/ CallbackStep) => T1IInv'
<1> SUFFICES ASSUME T1IInv, StandingTimePasses \/ BodyStep \/ CallbackStep PROVE T1IInv'
  OBVIOUS
<1> USE DEF T1IInv
<1>1. CASE StandingTimePasses
  <2>1. T1TypeOK'
    <3>1. standing' \in BOOLEAN /\ standAge' \in BOOLEAN
      BY <1>1 DEF StandingTimePasses, T1TypeOK
    <3> QED
      BY <1>1, <3>1 DEF StandingTimePasses, detectVars, T1TypeOK, DetectTypeOK
  <2> QED
    BY <1>1, <2>1 DEF StandingTimePasses, WantedBetweenRounds, RepeatsAreStill, StandingIsStill, FollowsRequest
<1>2. CASE BodyStep
  <2>1. DetectTypeOK'
    BY <1>2, DetectEnvTypes DEF BodyStep, T1TypeOK
  <2>2. moving' \in {moving, "still"} /\ wanted' \in {wanted, "any"}
        /\ (moving' # moving => moving' = "still" /\ wanted' = "any")
    BY <1>2 DEF BodyStep
  <2>3. UNCHANGED <<connector, sawFall, currentMode, lastWalk, sameCount, standing, standAge>>
    BY <1>2 DEF BodyStep
  <2>4. T1TypeOK'
    BY <2>1, <2>2, <2>3 DEF T1TypeOK, Walks
  <2> QED
    BY <2>2, <2>3, <2>4 DEF WantedBetweenRounds, RepeatsAreStill, StandingIsStill, FollowsRequest
<1>3. CASE CallbackStep
  <2>1. DetectTypeOK'
    BY <1>3, CallbackTypes DEF CallbackStep, T1TypeOK
  <2> QED
    BY <1>3, <2>1 DEF CallbackStep, connectVars, T1TypeOK,
         WantedBetweenRounds, RepeatsAreStill, StandingIsStill, FollowsRequest
<1> QED
  BY <1>1, <1>2, <1>3

LEMMA T1Inductive == T1IInv /\ [T1Next]_t1Vars => T1IInv'
<1> SUFFICES ASSUME T1IInv, [T1Next]_t1Vars PROVE T1IInv'
  OBVIOUS
<1>1. CASE T1Next
  BY <1>1, ProceedKeeps, WorldKeeps DEF T1Next
<1>2. CASE UNCHANGED t1Vars
  BY <1>2 DEF t1Vars, detectVars, connectVars, T1IInv, T1TypeOK, DetectTypeOK,
       WantedBetweenRounds, RepeatsAreStill, StandingIsStill, FollowsRequest
<1> QED
  BY <1>1, <1>2

(* The connector's variables keep their types. *)
THEOREM T1TypeCorrect == T1Spec => []T1TypeOK
<1>1. T1IInv => T1TypeOK
  BY DEF T1IInv
<1> QED
  BY <1>1, T1InitIInv, T1Inductive, PTL DEF T1Spec

(* After every round that wants a walk the SDK walks just that, however    *)
(* often the request was withheld as equal to the last one and whatever    *)
(* the robot fell and stood up between (send_high_level_motion).           *)
THEOREM RobotFollows == T1Spec => []FollowsRequest
<1>1. T1IInv => FollowsRequest
  BY DEF T1IInv
<1> QED
  BY <1>1, T1InitIInv, T1Inductive, PTL DEF T1Spec

-----------------------------------------------------------------------------
(* The G1's adapters *)

\* What a callback is about to publish has not been waiting long.
PendingIsYoung ==
  /\ detecting # "idle" => detectionAge \in 0 .. MaxHandling
  /\ locating # None => locationAge \in 0 .. MaxHandling

\* The loop's checks hold on to the end of its round, which takes less than a tick.
BallIsChecked ==
  loop \in {"checked ball", "late location", "strategy"} =>
    (ball => ~TooOld(detectionAge, DetectionTimeout))
LocationIsChecked ==
  loop = "strategy" => (location.good => ~TooOld(locationAge, LocationTimeout))

\* The candidate is where the trail ends, which has lasted at least as long.
CandidateOnTrail ==
  enabled /\ candidate # None =>
    trail # None /\ trail.place = candidate.place /\ candidate.for <= trail.for

AdapterIInv ==
  AdaptersTypeOK /\ PendingIsYoung /\ BallIsChecked /\ LocationIsChecked
    /\ CandidateOnTrail /\ JumpNeedsConfirmation

\* The parts of the state that the loop leaves alone but for its channels.
FilterOK == enabled \in BOOLEAN /\ published \in Places \cup {None}
  /\ stableFor \in 0 .. StableRequired /\ candidate \in Trail \cup {None}
TrailOK == trail \in Trail \cup {None} /\ jumped \in 0 .. StableRequired

LEMMA AdaptersInitIInv == AdaptersInit => AdapterIInv
<1> SUFFICES ASSUME AdaptersInit PROVE AdapterIInv
  OBVIOUS
<1>1. StableRequired \in Nat /\ StableRequired > 0
  BY AdapterAssumption
<1>2. location \in Located
  BY DEF AdaptersInit, NoLocation, Located
<1>3. enabled \in BOOLEAN /\ ball \in BOOLEAN
  BY DEF AdaptersInit
<1>4. AdaptersTypeOK
  BY <1>1, <1>2, <1>3 DEF AdaptersInit, AdaptersTypeOK, Age
<1> QED
  BY <1>4 DEF AdaptersInit, AdapterIInv, PendingIsYoung, BallIsChecked, LocationIsChecked,
       CandidateOnTrail, JumpNeedsConfirmation

(* A location that is accepted or held back leaves the filter well typed. *)
LEMMA FilterTypes ==
  ASSUME FilterOK, NEW raw \in Places \cup {NaN}, Filter(raw), UNCHANGED enabled
  PROVE  FilterOK' /\ location' \in Located
<1>1. StableRequired \in Nat /\ StableRequired > 0
  BY AdapterAssumption
<1>2. NoLocation \in Located
  BY DEF NoLocation, Located
<1>3. ASSUME NEW p \in Places, NEW age \in 0 .. StableRequired, NEW good \in BOOLEAN,
             Accept(p, age, good)
      PROVE  FilterOK' /\ location' \in Located
  <2>1. [place |-> p, good |-> good] \in Located
    BY DEF Located
  <2> QED
    BY <1>3, <2>1 DEF Accept, FilterOK
<1>4. ASSUME Reject
      PROVE  location' \in Located /\ UNCHANGED <<published, stableFor>>
  BY <1>4 DEF Reject, Located, FilterOK
<1>5. CASE ~enabled /\ raw = NaN
  BY <1>1, <1>2, <1>5 DEF Filter, FilterOK
<1>6. CASE ~enabled /\ raw # NaN
  <2>1. Accept(raw, 0, TRUE)
    BY <1>6 DEF Filter
  <2>2. raw \in Places /\ 0 \in 0 .. StableRequired
    BY <1>1, <1>6
  <2> QED
    BY <1>3, <2>1, <2>2
<1>7. CASE enabled /\ raw = NaN
  BY <1>4, <1>7 DEF Filter, FilterOK
<1>8. CASE enabled /\ raw # NaN
  <2>1. CASE published = None
    <3>1. Accept(raw, 0, FALSE)
      BY <1>8, <2>1 DEF Filter
    <3>2. raw \in Places /\ 0 \in 0 .. StableRequired
      BY <1>1, <1>8
    <3> QED
      BY <1>3, <3>1, <3>2
  <2>2. CASE published # None /\ IsJump(raw, published)
    <3> DEFINE follows == candidate # None /\ IsStableStep(raw, candidate.place)
    <3>1. HandleJumpCandidate(raw)
      BY <1>8, <2>2 DEF Filter
    <3>2. CASE follows /\ candidate.for = StableRequired
      <4>1. Accept(raw, StableRequired, TRUE)
        BY <3>1, <3>2 DEF HandleJumpCandidate
      <4>2. raw \in Places /\ StableRequired \in 0 .. StableRequired
        BY <1>1, <1>8
      <4> QED
        BY <1>3, <4>1, <4>2
    <3>3. CASE ~(follows /\ candidate.for = StableRequired)
      <4>1. Reject /\ candidate' = [place |-> raw, for |-> IF follows THEN candidate.for ELSE 0]
        BY <3>1, <3>3 DEF HandleJumpCandidate
      <4>2. (IF follows THEN candidate.for ELSE 0) \in 0 .. StableRequired
        BY <1>1 DEF FilterOK, Trail
      <4> HIDE DEF follows
      <4>3. candidate' \in Trail
        BY <1>8, <4>1, <4>2 DEF Trail
      <4> QED
        BY <1>4, <4>1, <4>3 DEF FilterOK
    <3> QED
      BY <3>2, <3>3
  <2>3. CASE published # None /\ ~IsJump(raw, published)
    <3> DEFINE age == IF IsStableStep(raw, published) THEN stableFor ELSE 0
    <3>1. Accept(raw, age, age = StableRequired)
      BY <1>8, <2>3 DEF Filter
    <3>2. age \in 0 .. StableRequired
      BY <1>1 DEF FilterOK
    <3> HIDE DEF age
    <3>3. (age = StableRequired) \in BOOLEAN
      OBVIOUS
    <3> QED
      BY <1>3, <1>8, <3>1, <3>2, <3>3
  <2> QED
    BY <2>1, <2>2, <2>3
<1> QED
  BY <1>5, <1>6, <1>7, <1>8

(* What comes of a location: whether the place that is handed on jumps.    *)
JumpedNext ==
  IF published # None /\ published' # None /\ IsJump(published', published)
  THEN trail'.for ELSE jumped

(* Without the filter's help: a location that is a number ends the trail.  *)
LEMMA TrailTypes ==
  ASSUME FilterOK, TrailOK, NEW raw \in Places \cup {NaN}, Filter(raw), UNCHANGED enabled,
         trail' = Extend(raw), jumped' = JumpedNext
  PROVE  TrailOK' /\ (raw # NaN => trail' \in Trail /\ trail'.place = raw)
<1>1. StableRequired \in Nat /\ JumpDist \in Nat /\ Places \subseteq Int
  BY AdapterAssumption
<1>2. ASSUME raw # NaN PROVE trail' \in Trail /\ trail'.place = raw
  <2>1. CASE trail # None /\ IsStableStep(raw, trail.place)
    <3>1. trail \in Trail /\ trail' = [trail EXCEPT !.place = raw]
      BY <1>2, <2>1 DEF TrailOK, Extend
    <3> QED
      BY <1>2, <3>1 DEF Trail
  <2>2. CASE ~(trail # None /\ IsStableStep(raw, trail.place))
    <3>1. trail' = [place |-> raw, for |-> 0]
      BY <1>2, <2>2 DEF Extend
    <3> QED
      BY <1>1, <1>2, <3>1 DEF Trail
  <2> QED
    BY <2>1, <2>2
<1>3. CASE raw # NaN
  BY <1>2, <1>3 DEF JumpedNext, TrailOK, Trail
<1>4. CASE raw = NaN
  <2>1. trail' = trail
    BY <1>4 DEF Extend
  <2>2. published' = None \/ published' = published
    BY <1>4 DEF Filter, Reject, FilterOK
  <2>3. jumped' = jumped
    BY <1>1, <2>2 DEF JumpedNext, IsJump, Distance, FilterOK
  <2> QED
    BY <1>4, <2>1, <2>3 DEF TrailOK
<1> QED
  BY <1>2, <1>3, <1>4

(* The step of a jump is taken from a candidate that has followed the      *)
(* trail for the whole of StableRequired.                                  *)
LEMMA FilterConfirms ==
  ASSUME FilterOK, TrailOK, CandidateOnTrail, JumpNeedsConfirmation,
         NEW raw \in Places \cup {NaN}, Filter(raw), UNCHANGED enabled,
         trail' = Extend(raw), jumped' = JumpedNext
  PROVE  CandidateOnTrail' /\ JumpNeedsConfirmation'
<1> SUFFICES ASSUME enabled PROVE CandidateOnTrail' /\ JumpNeedsConfirmation'
  BY DEF CandidateOnTrail, JumpNeedsConfirmation
<1>1. StableRequired \in Nat /\ JumpDist \in Nat /\ Places \subseteq Int
  BY AdapterAssumption
<1>2. jumped = StableRequired
  BY DEF JumpNeedsConfirmation
<1>3. ASSUME published' = None \/ published' = published \/ ~IsJump(published', published) \/ published = None
      PROVE  JumpNeedsConfirmation'
  BY <1>1, <1>2, <1>3 DEF JumpNeedsConfirmation, JumpedNext, IsJump, Distance, FilterOK
<1>4. CASE raw = NaN
  <2>1. UNCHANGED <<published, candidate, trail>>
    BY <1>4 DEF Filter, Reject, Extend
  <2> QED
    BY <1>3, <2>1 DEF CandidateOnTrail
<1>5. CASE raw # NaN /\ (published = None \/ ~IsJump(raw, published))
  <2>1. candidate' = None /\ published' = raw
    BY <1>5 DEF Filter, Accept
  <2> QED
    BY <1>3, <1>5, <2>1 DEF CandidateOnTrail
<1>6. CASE raw # NaN /\ published # None /\ IsJump(raw, published)
  <2> DEFINE follows == candidate # None /\ IsStableStep(raw, candidate.place)
  <2>1. HandleJumpCandidate(raw)
    BY <1>6 DEF Filter
  <2>2. trail' \in Trail /\ trail'.place = raw
    BY <1>6, TrailTypes
  <2>3. follows => trail'.for = trail.for /\ candidate.for <= trail.for /\ trail \in Trail
    BY <1>6 DEF CandidateOnTrail, Extend, TrailOK, Trail
  <2>4. CASE follows /\ candidate.for = StableRequired
    <3>1. candidate' = None
      BY <2>1, <2>4 DEF HandleJumpCandidate, Accept
    <3>2. trail'.for = StableRequired
      BY <1>1, <2>3, <2>4 DEF Trail
    <3> QED
      BY <1>2, <3>1, <3>2 DEF CandidateOnTrail, JumpNeedsConfirmation, JumpedNext
  <2>5. CASE ~(follows /\ candidate.for = StableRequired)
    <3>1. /\ published' = published
          /\ candidate' = [place |-> raw, for |-> IF follows THEN candidate.for ELSE 0]
      BY <2>1, <2>5 DEF HandleJumpCandidate, Reject
    <3>2. candidate'.place = raw /\ candidate'.for = IF follows THEN candidate.for ELSE 0
      BY <3>1
    <3>3. candidate'.for <= trail'.for
      <4>1. trail'.for \in 0 .. StableRequired
        BY <2>2 DEF Trail
      <4>2. CASE follows
        BY <2>3, <3>2, <4>2
      <4>3. CASE ~follows
        BY <1>1, <3>2, <4>1, <4>3
      <4> QED
        BY <4>2, <4>3
    <3>4. trail' # None
      BY <2>2, AdapterAssumption DEF Trail
    <3> QED
      BY <1>3, <2>2, <3>1, <3>2, <3>3, <3>4 DEF CandidateOnTrail
  <2> QED
    BY <2>4, <2>5
<1> QED
  BY <1>4, <1>5, <1>6

\* The variables of the channels and of the loop.
ChannelsOK ==
  /\ ball \in BOOLEAN
  /\ location \in Located
  /\ detectionAge \in Age(DetectionTimeout)
  /\ locationAge \in Age(LocationTimeout)
  /\ detecting \in {"idle", "ball", "no ball"}
  /\ locating \in Places \cup {NaN, None}
  /\ loop \in {"sleep", "proceed", "late ball", "checked ball", "late location", "strategy"}

LEMMA AdapterTypeParts == AdaptersTypeOK <=> FilterOK /\ TrailOK /\ ChannelsOK
BY DEF AdaptersTypeOK, FilterOK, TrailOK, ChannelsOK

(* The detection's callback: its age is young when it publishes.           *)
LEMMA DetectionKeeps == AdapterIInv /\ (HandleDetection \/ PublishBall) => AdapterIInv'
<1> SUFFICES ASSUME AdapterIInv, HandleDetection \/ PublishBall PROVE AdapterIInv'
  OBVIOUS
<1> USE DEF AdapterIInv
<1>1. /\ DetectionTimeout \in Nat /\ LocationTimeout \in Nat
      /\ MaxHandling \in 0 .. DetectionTimeout /\ MaxHandling \in 0 .. LocationTimeout
  BY AdapterAssumption
<1>2. FilterOK /\ TrailOK /\ ChannelsOK
  BY AdapterTypeParts
<1>3. /\ UNCHANGED filterVars /\ UNCHANGED <<location, locationAge, locating, loop, trail, jumped>>
  BY DEF HandleDetection, PublishBall
<1>4. FilterOK' /\ TrailOK' /\ CandidateOnTrail' /\ JumpNeedsConfirmation'
  BY <1>2, <1>3 DEF filterVars, FilterOK, TrailOK, CandidateOnTrail, JumpNeedsConfirmation
<1>5. LocationIsChecked'
  BY <1>3 DEF LocationIsChecked
<1>6. CASE HandleDetection
  <2>1. detectionAge' = 0
    BY <1>6 DEF HandleDetection
  <2>2. ChannelsOK'
    <3>1. ball' \in BOOLEAN
      BY <1>2, <1>6 DEF HandleDetection, ChannelsOK
    <3>2. detectionAge' \in Age(DetectionTimeout)
      BY <1>1, <2>1 DEF Age
    <3>3. detecting' \in {"idle", "ball", "no ball"}
      BY <1>6 DEF HandleDetection
    <3> QED
      BY <1>2, <1>3, <3>1, <3>2, <3>3 DEF ChannelsOK
  <2>3. PendingIsYoung'
    BY <1>1, <1>3, <2>1 DEF PendingIsYoung
  <2>4. ~TooOld(detectionAge', DetectionTimeout)
    BY <1>1, <2>1 DEF TooOld
  <2>5. BallIsChecked'
    BY <2>4 DEF BallIsChecked
  <2> QED
    BY <1>4, <1>5, <2>2, <2>3, <2>5 DEF AdaptersTypeOK, FilterOK, TrailOK, ChannelsOK
<1>7. CASE PublishBall
  <2>1. detecting # "idle" /\ detecting' = "idle" /\ detectionAge' = detectionAge
    BY <1>7 DEF PublishBall
  <2>2. ball' \in BOOLEAN
    BY <1>7 DEF PublishBall
  <2>3. ~TooOld(detectionAge', DetectionTimeout)
    BY <1>1, <2>1 DEF PendingIsYoung, TooOld
  <2>4. ChannelsOK' /\ BallIsChecked' /\ PendingIsYoung'
    BY <1>2, <1>3, <2>1, <2>2, <2>3 DEF ChannelsOK, BallIsChecked, PendingIsYoung
  <2> QED
    BY <1>4, <1>5, <2>4 DEF AdaptersTypeOK, FilterOK, TrailOK, ChannelsOK
<1> QED
  BY <1>6, <1>7

(* The location's callback: it is young too, and the filter confirms jumps. *)
LEMMA LocationKeeps == AdapterIInv /\ (HandleLocation \/ PublishLocation) => AdapterIInv'
<1> SUFFICES ASSUME AdapterIInv, HandleLocation \/ PublishLocation PROVE AdapterIInv'
  OBVIOUS
<1> USE DEF AdapterIInv
<1>1. /\ DetectionTimeout \in Nat /\ LocationTimeout \in Nat
      /\ MaxHandling \in 0 .. DetectionTimeout /\ MaxHandling \in 0 .. LocationTimeout
  BY AdapterAssumption
<1>2. FilterOK /\ TrailOK /\ ChannelsOK
  BY AdapterTypeParts
<1>3. UNCHANGED <<enabled, ball, detectionAge, detecting, loop>>
  BY DEF HandleLocation, PublishLocation, filterVars
<1>4. BallIsChecked'
  BY <1>3 DEF BallIsChecked
<1>5. CASE HandleLocation
  <2>1. locating' \in Places \cup {NaN} /\ locationAge' = 0
        /\ UNCHANGED filterVars /\ UNCHANGED <<location, trail, jumped>>
    BY <1>5 DEF HandleLocation
  <2>2. FilterOK' /\ TrailOK' /\ CandidateOnTrail' /\ JumpNeedsConfirmation'
    BY <1>2, <2>1 DEF filterVars, FilterOK, TrailOK, CandidateOnTrail, JumpNeedsConfirmation
  <2>3. ChannelsOK'
    <3>1. ball' \in BOOLEAN
      BY <1>2, <1>3 DEF ChannelsOK
    <3>2. locationAge' \in Age(LocationTimeout)
      BY <1>1, <2>1 DEF Age
    <3> QED
      BY <1>2, <1>3, <2>1, <3>1, <3>2 DEF ChannelsOK
  <2>4. PendingIsYoung'
    BY <1>1, <1>3, <2>1 DEF PendingIsYoung
  <2>5. ~TooOld(locationAge', LocationTimeout)
    BY <1>1, <2>1 DEF TooOld
  <2>6. LocationIsChecked'
    BY <2>5 DEF LocationIsChecked
  <2> QED
    BY <1>4, <2>2, <2>3, <2>4, <2>6 DEF AdaptersTypeOK, FilterOK, TrailOK, ChannelsOK
<1>6. CASE PublishLocation
  <2>1. locating # None /\ locating' = None /\ locationAge' = locationAge
        /\ Filter(locating) /\ trail' = Extend(locating) /\ jumped' = JumpedNext
    BY <1>6 DEF PublishLocation, JumpedNext
  <2>2. locating \in Places \cup {NaN}
    BY <1>2, <2>1 DEF ChannelsOK
  <2>3. FilterOK' /\ location' \in Located
    BY <1>2, <1>3, <2>1, <2>2, FilterTypes
  <2>4. TrailOK'
    BY <1>2, <1>3, <2>1, <2>2, TrailTypes
  <2>5. CandidateOnTrail' /\ JumpNeedsConfirmation'
    BY <1>2, <1>3, <2>1, <2>2, FilterConfirms
  <2>6. ~TooOld(locationAge', LocationTimeout)
    BY <1>1, <2>1 DEF PendingIsYoung, TooOld
  <2>7. ChannelsOK' /\ LocationIsChecked' /\ PendingIsYoung'
    BY <1>2, <1>3, <2>1, <2>3, <2>6 DEF ChannelsOK, LocationIsChecked, PendingIsYoung
  <2> QED
    BY <1>4, <2>3, <2>4, <2>5, <2>7 DEF AdaptersTypeOK, FilterOK, TrailOK, ChannelsOK
<1> QED
  BY <1>5, <1>6

(* The strategy's loop: what it has checked it has either left or withdrawn. *)
LEMMA LoopKeeps ==
  AdapterIInv /\ (StartRound \/ CheckBall \/ WithdrawBall \/ CheckLocation \/ WithdrawLocation \/ EndRound)
    => AdapterIInv'
<1> SUFFICES ASSUME AdapterIInv, StartRound \/ CheckBall \/ WithdrawBall \/ CheckLocation
                                   \/ WithdrawLocation \/ EndRound
             PROVE  AdapterIInv'
  OBVIOUS
<1> USE DEF AdapterIInv
<1>1. FilterOK /\ TrailOK /\ ChannelsOK
  BY AdapterTypeParts
<1>2. UNCHANGED filterVars /\ UNCHANGED <<detectionAge, locationAge, detecting, locating, trail, jumped>>
  BY DEF StartRound, CheckBall, WithdrawBall, CheckLocation, WithdrawLocation, EndRound
<1>3. FilterOK' /\ TrailOK' /\ CandidateOnTrail' /\ JumpNeedsConfirmation' /\ PendingIsYoung'
  BY <1>1, <1>2 DEF filterVars, FilterOK, TrailOK, CandidateOnTrail, JumpNeedsConfirmation, PendingIsYoung
<1>4. ball' \in {ball, FALSE} /\ location' \in {location, NoLocation}
  BY DEF StartRound, CheckBall, WithdrawBall, CheckLocation, WithdrawLocation, EndRound
<1>5. loop' \in {"sleep", "proceed", "late ball", "checked ball", "late location", "strategy"}
  BY DEF StartRound, CheckBall, WithdrawBall, CheckLocation, WithdrawLocation, EndRound
<1>6. ChannelsOK'
  <2>1. NoLocation \in Located /\ ball' \in BOOLEAN
    BY <1>1, <1>4 DEF NoLocation, Located, ChannelsOK
  <2> QED
    BY <1>1, <1>2, <1>4, <1>5, <2>1 DEF ChannelsOK
<1>7. BallIsChecked'
  BY <1>2 DEF StartRound, CheckBall, WithdrawBall, CheckLocation, WithdrawLocation, EndRound, BallIsChecked
<1>8. LocationIsChecked'
  <2>1. CASE WithdrawLocation
    <3>1. location'.good = FALSE
      BY <2>1 DEF WithdrawLocation, NoLocation
    <3> QED
      BY <3>1 DEF LocationIsChecked
  <2>2. CASE CheckLocation
    BY <1>2, <2>2 DEF CheckLocation, LocationIsChecked
  <2>3. CASE StartRound \/ CheckBall \/ WithdrawBall \/ EndRound
    BY <2>3 DEF StartRound, CheckBall, WithdrawBall, EndRound, LocationIsChecked
  <2> QED
    BY <2>1, <2>2, <2>3
<1> QED
  BY <1>3, <1>6, <1>7, <1>8 DEF AdaptersTypeOK, FilterOK, TrailOK, ChannelsOK

(* Time passes between the rounds, and candidate and trail age together.   *)
LEMMA TickKeeps == AdapterIInv /\ Tick => AdapterIInv'
<1> SUFFICES ASSUME AdapterIInv, Tick PROVE AdapterIInv'
  OBVIOUS
<1> USE DEF AdapterIInv
<1>1. /\ DetectionTimeout \in Nat /\ LocationTimeout \in Nat
      /\ MaxHandling \in 0 .. DetectionTimeout /\ MaxHandling \in 0 .. LocationTimeout
      /\ StableRequired \in Nat
  BY AdapterAssumption
<1>2. FilterOK /\ TrailOK /\ ChannelsOK
  BY AdapterTypeParts
<1>3. UNCHANGED <<enabled, published, ball, location, detecting, locating, loop, jumped>>
  BY DEF Tick
<1>4. loop = "sleep"
  BY DEF Tick
<1>5. /\ BallIsChecked' /\ LocationIsChecked' /\ JumpNeedsConfirmation'
  BY <1>3, <1>4 DEF BallIsChecked, LocationIsChecked, JumpNeedsConfirmation
<1>6. \A n \in 0 .. StableRequired : Longer(n) \in 0 .. StableRequired
  BY <1>1 DEF Longer
<1>7. ASSUME NEW t \in Trail
      PROVE  /\ [t EXCEPT !.for = Longer(t.for)] \in Trail
             /\ [t EXCEPT !.for = Longer(t.for)].place = t.place
             /\ [t EXCEPT !.for = Longer(t.for)].for = Longer(t.for)
  BY <1>6 DEF Trail
<1>8. /\ candidate' = IF candidate = None THEN None ELSE [candidate EXCEPT !.for = Longer(candidate.for)]
      /\ trail' = IF trail = None THEN None ELSE [trail EXCEPT !.for = Longer(trail.for)]
  BY DEF Tick, LongerTrail
<1>9. FilterOK' /\ TrailOK'
  BY <1>2, <1>3, <1>6, <1>7, <1>8 DEF Tick, FilterOK, TrailOK
<1>10. ASSUME NEW limit \in Nat, NEW age \in Age(limit) PROVE Older(age, limit) \in Age(limit)
  BY DEF Age, Older
<1>11. ChannelsOK'
  BY <1>1, <1>2, <1>3, <1>10 DEF Tick, ChannelsOK
<1>12. PendingIsYoung'
  BY <1>1, <1>3 DEF Tick, PendingIsYoung, Older
<1>13. CandidateOnTrail'
  <2>1. SUFFICES ASSUME enabled, candidate' # None
                 PROVE  trail' # None /\ trail'.place = candidate'.place /\ candidate'.for <= trail'.for
    BY <1>3 DEF CandidateOnTrail
  <2>2. candidate # None /\ candidate \in Trail
    BY <1>2, <1>8, <2>1 DEF FilterOK
  <2>3. /\ trail # None /\ trail \in Trail
        /\ trail.place = candidate.place /\ candidate.for <= trail.for
    BY <1>2, <2>1, <2>2 DEF CandidateOnTrail, TrailOK
  <2>4. /\ trail' \in Trail /\ trail'.place = trail.place /\ trail'.for = Longer(trail.for)
        /\ candidate'.place = candidate.place /\ candidate'.for = Longer(candidate.for)
    BY <1>7, <1>8, <2>2, <2>3
  <2>5. trail' # None
    BY <2>4, AdapterAssumption DEF Trail
  <2>6. candidate.for \in 0 .. StableRequired /\ trail.for \in 0 .. StableRequired
    BY <2>2, <2>3 DEF Trail
  <2>7. Longer(candidate.for) <= Longer(trail.for)
    BY <1>1, <2>3, <2>6 DEF Longer
  <2> QED
    BY <2>3, <2>4, <2>5, <2>7
<1> QED
  BY <1>5, <1>9, <1>11, <1>12, <1>13 DEF AdaptersTypeOK, FilterOK, TrailOK, ChannelsOK

LEMMA AdapterInductive == AdapterIInv /\ [AdaptersNext]_adapterVars => AdapterIInv'
<1> SUFFICES ASSUME AdapterIInv, [AdaptersNext]_adapterVars PROVE AdapterIInv'
  OBVIOUS
<1>1. CASE AdaptersNext
  BY <1>1, DetectionKeeps, LocationKeeps, LoopKeeps, TickKeeps DEF AdaptersNext
<1>2. CASE UNCHANGED adapterVars
  <2>1. FilterOK' /\ TrailOK' /\ ChannelsOK'
    <3>1. FilterOK /\ TrailOK /\ ChannelsOK
      BY AdapterTypeParts DEF AdapterIInv
    <3> QED
      BY <1>2, <3>1 DEF adapterVars, filterVars, FilterOK, TrailOK, ChannelsOK
  <2>2. PendingIsYoung' /\ CandidateOnTrail' /\ JumpNeedsConfirmation'
    BY <1>2 DEF adapterVars, filterVars, AdapterIInv, PendingIsYoung, CandidateOnTrail, JumpNeedsConfirmation
  <2>3. BallIsChecked' /\ LocationIsChecked'
    BY <1>2 DEF adapterVars, filterVars, AdapterIInv, BallIsChecked, LocationIsChecked
  <2> QED
    BY <2>1, <2>2, <2>3 DEF AdapterIInv, AdaptersTypeOK, FilterOK, TrailOK, ChannelsOK
<1> QED
  BY <1>1, <1>2

(* The adapters' variables keep their types.                               *)
THEOREM AdaptersTypeCorrect == AdaptersSpec => []AdaptersTypeOK
<1>1. AdapterIInv => AdaptersTypeOK
  BY DEF AdapterIInv
<1> QED
  BY <1>1, AdaptersInitIInv, AdapterInductive, PTL DEF AdaptersSpec

(* The strategy never sees an old ball or a good location that is old,     *)
(* wherever the callbacks come in its round (proceed, handleDetection,     *)
(* handleLocation).                                                        *)
THEOREM NothingStale == AdaptersSpec => []StaleIsWithdrawn
<1>1. AdapterIInv => StaleIsWithdrawn
  BY DEF AdapterIInv, BallIsChecked, LocationIsChecked, StaleIsWithdrawn
<1> QED
  BY <1>1, AdaptersInitIInv, AdapterInductive, PTL DEF AdaptersSpec

(* The filter hands a jump on only when the locations have gone in small   *)
(* steps to where it leads for as long as it demands (handleJumpCandidate). *)
THEOREM JumpsAreConfirmed == AdaptersSpec => []JumpNeedsConfirmation
<1>1. AdapterIInv => JumpNeedsConfirmation
  BY DEF AdapterIInv
<1> QED
  BY <1>1, AdaptersInitIInv, AdapterInductive, PTL DEF AdaptersSpec

-----------------------------------------------------------------------------
(* The localization *)

\* A robot that has been put down in its own half has found its place or none.
PlacedIsNear == out /\ placed /\ initialized /\ real \in Start => Near(position, real)

\* In play a robot without a place still stands where it may.
UnknownAtStart == ~out /\ ~initialized => real \in Start

LocIInv == LocTypeOK /\ KnowsItsSide /\ PlacedIsNear /\ UnknownAtStart

(* A place within the noise of the truth looks the same way.               *)
LEMMA NearLooksAlike ==
  ASSUME NEW p \in Place, NEW q \in Place
  PROVE  /\ PoseDist(p, q) <= Noise => p.dir = q.dir /\ AbsX(p.x - q.x) <= Noise
         /\ p.dir = q.dir => PoseDist(p, q) = AbsX(p.x - q.x)
         /\ p.dir # q.dir => PoseDist(p, q) >= 4 * FieldLength
<1>1. FieldLength \in Nat /\ Noise \in Nat /\ 2 * Noise < FieldLength
  BY LocalizationAssumption
<1>2. p.x \in Int /\ q.x \in Int
  BY DEF Place
<1>3. AbsX(p.x - q.x) \in Nat
  BY <1>2 DEF AbsX
<1> QED
  BY <1>1, <1>3 DEF PoseDist

(* The odometry moves the belief and the robot alike.                      *)
LEMMA MovedStaysNear ==
  ASSUME NEW p \in Place, NEW q \in Place, PoseDist(p, q) <= Noise, NEW odo \in Odometry
  PROVE  /\ Moved(p, odo) \in Place /\ Moved(q, odo) \in Place
         /\ PoseDist(Moved(p, odo), Moved(q, odo)) <= Noise
<1>1. p.dir = q.dir /\ AbsX(p.x - q.x) <= Noise
  BY NearLooksAlike
<1>2. /\ p.x \in Int /\ q.x \in Int /\ p.dir \in {1, -1} /\ q.dir \in {1, -1}
      /\ odo.x \in {-1, 0, 1}
  BY DEF Place, Odometry
<1>3. ASSUME NEW s \in Place
      PROVE  /\ Moved(s, odo) \in Place
             /\ Moved(s, odo).x = s.x + s.dir * odo.x
             /\ Moved(s, odo).dir = IF odo.turned THEN -s.dir ELSE s.dir
  <2>1. s.x \in Int /\ s.dir \in {1, -1}
    BY DEF Place
  <2>2. s.x + s.dir * odo.x \in Int
    BY <1>2, <2>1
  <2>3. (IF odo.turned THEN -s.dir ELSE s.dir) \in {1, -1}
    BY <2>1
  <2> QED
    BY <2>2, <2>3 DEF Moved, Place
<1>4. Moved(p, odo).x - Moved(q, odo).x = p.x - q.x
  BY <1>1, <1>2, <1>3
<1>5. Moved(p, odo).dir = Moved(q, odo).dir
  BY <1>1, <1>3
<1> QED
  BY <1>1, <1>3, <1>4, <1>5, NearLooksAlike

(* The closest of the trusted hypotheses is on the right side: its image   *)
(* on the wrong side is further away than the one that is as trusted.      *)
LEMMA ClosestIsNear ==
  ASSUME ReadingsFit, NEW r \in Readings, r.at \in Place,
         NEW belief \in Place, PoseDist(belief, r.at) <= Noise,
         NEW goal \in Closest(Trusted(r.found.places, belief), belief)
  PROVE  Near(goal, r.at)
<1>1. FieldLength \in Nat /\ Noise \in Nat /\ 2 * Noise < FieldLength /\ TrustDist \in Nat
  BY LocalizationAssumption
<1>2. PICK h \in Trusted(r.found.places, belief) :
         /\ goal = h.p
         /\ \A f \in Trusted(r.found.places, belief) : PoseDist(h.p, belief) <= PoseDist(f.p, belief)
  BY DEF Closest
<1>3. h \in r.found.places /\ (h.trust = "high" \/ PoseDist(h.p, belief) <= TrustDist)
  BY DEF Trusted
<1>4. SUFFICES ASSUME ~Near(h.p, r.at) PROVE FALSE
  BY <1>2
<1>5. h.p \in Place /\ h.p.dir = -r.at.dir
  BY <1>3, <1>4 DEF ReadingsFit
<1>6. PICK g \in r.found.places : g.trust = h.trust /\ Near(g.p, r.at)
  BY <1>3, <1>4 DEF ReadingsFit
<1>7. g.p \in Place /\ g.p.dir = belief.dir /\ h.p.dir # belief.dir
  BY <1>5, <1>6, NearLooksAlike DEF Near, Place
<1>8. PoseDist(g.p, belief) <= 2 * Noise /\ PoseDist(g.p, belief) \in Nat
  <2>1. AbsX(g.p.x - r.at.x) <= Noise /\ AbsX(belief.x - r.at.x) <= Noise
    BY <1>6, <1>7, NearLooksAlike DEF Near
  <2>2. g.p.x \in Int /\ r.at.x \in Int /\ belief.x \in Int
    BY <1>7 DEF Place
  <2>3. AbsX(g.p.x - belief.x) <= 2 * Noise /\ AbsX(g.p.x - belief.x) \in Nat
    BY <1>1, <2>1, <2>2 DEF AbsX
  <2> QED
    BY <1>7, <2>3, NearLooksAlike
<1>9. PoseDist(h.p, belief) >= 4 * FieldLength /\ PoseDist(h.p, belief) \in Nat
  <2>1. h.p.x \in Int /\ belief.x \in Int
    BY <1>5 DEF Place
  <2>2. PoseDist(h.p, belief) \in Nat
    BY <1>1, <2>1 DEF PoseDist, AbsX
  <2> QED
    BY <1>5, <1>7, <2>2, NearLooksAlike
<1>10. g \in Trusted(r.found.places, belief)
  BY <1>1, <1>3, <1>6, <1>8, <1>9 DEF Trusted
<1> QED
  BY <1>1, <1>2, <1>8, <1>9, <1>10

(* Between two places that are near everything is near.                    *)
LEMMA TowardsStaysNear ==
  ASSUME NEW truth \in Place, NEW belief \in Place, PoseDist(belief, truth) <= Noise,
         NEW goal, Near(goal, truth), NEW p \in Towards(belief, goal)
  PROVE  Near(p, truth)
<1>1. goal \in Place
  BY DEF Near
<1>2. /\ belief.x \in Int /\ goal.x \in Int /\ truth.x \in Int
      /\ belief.dir = truth.dir /\ goal.dir = truth.dir /\ truth.dir \in {1, -1}
      /\ AbsX(belief.x - truth.x) <= Noise /\ AbsX(goal.x - truth.x) <= Noise
  BY <1>1, NearLooksAlike DEF Near, Place
<1>3. /\ p.dir = truth.dir
      /\ p.x = belief.x \/ (p.x = belief.x + 1 /\ goal.x > belief.x)
                        \/ (p.x = belief.x - 1 /\ goal.x < belief.x)
      /\ p = [x |-> p.x, dir |-> p.dir]
  BY <1>2 DEF Towards
<1>4. p.x \in Int /\ AbsX(p.x - truth.x) <= Noise
  BY <1>2, <1>3, LocalizationAssumption DEF AbsX
<1>5. p \in Place
  BY <1>2, <1>3, <1>4 DEF Place
<1> QED
  BY <1>3, <1>4, <1>5, NearLooksAlike DEF Near

LEMMA LocInitIInv == LocInit => LocIInv
<1> SUFFICES ASSUME LocInit PROVE LocIInv
  OBVIOUS
<1>1. real \in Place
  BY LocalizationAssumption DEF LocInit, Start, Place
<1>2. position \in Place
  BY DEF LocInit, Place
<1>3. {out, placed, initialized} \subseteq BOOLEAN
  BY DEF LocInit
<1> QED
  BY <1>1, <1>2, <1>3 DEF LocInit, LocIInv, LocTypeOK, KnowsItsSide, PlacedIsNear, UnknownAtStart

(* An image: either the belief is corrected, or it is found from a clear   *)
(* pair, which is right where the robot may start from.                    *)
LEMMA ImageKeeps ==
  ASSUME ReadingsFit, LocIInv, NEW odo \in Odometry, Image(odo)
  PROVE  LocIInv'
<1> USE DEF LocIInv
<1>1. /\ real \in Place /\ position \in Place
      /\ out \in BOOLEAN /\ placed \in BOOLEAN /\ initialized \in BOOLEAN
  BY DEF LocTypeOK
<1>2. PICK r \in Readings : r.at = real' /\ Localize(r.found, odo)
  BY DEF Image
<1>3. real' = Moved(real, odo) /\ placed' = TRUE /\ out' = out
  BY DEF Image
<1>4. real' \in Place
  <2>1. PoseDist(real, real) <= Noise
    BY <1>1, LocalizationAssumption DEF PoseDist, AbsX, Place
  <2> QED
    BY <1>1, <1>3, <2>1, MovedStaysNear
<1>5. CASE StillInitialized
  <2> DEFINE belief == Moved(position, odo)
             goals == Closest(Trusted(r.found.places, belief), belief)
  <2>1. initialized /\ ~out
    BY <1>5 DEF StillInitialized
  <2>2. PoseDist(position, real) <= Noise
    BY <2>1 DEF KnowsItsSide
  <2>3. belief \in Place /\ PoseDist(belief, real') <= Noise
    BY <1>1, <1>3, <2>2, MovedStaysNear
  <2>4. /\ initialized' = TRUE
        /\ IF goals = {} THEN position' = belief
           ELSE \E goal \in goals : position' \in Towards(belief, goal)
    BY <1>2, <1>5 DEF Localize
  <2>5. \A goal \in goals : Near(goal, real')
    BY <1>2, <1>4, <2>3, ClosestIsNear
  <2> HIDE DEF belief, goals
  <2>6. Near(position', real')
    <3>1. CASE goals = {}
      BY <2>3, <2>4, <3>1 DEF Near
    <3>2. CASE goals # {}
      <4>1. PICK goal \in goals : position' \in Towards(belief, goal)
        BY <2>4, <3>2
      <4> QED
        BY <1>4, <2>3, <2>5, <4>1, TowardsStaysNear
    <3> QED
      BY <3>1, <3>2
  <2>7. position' \in Place /\ PoseDist(position', real') <= Noise
    BY <2>6 DEF Near
  <2>8. out' = FALSE /\ initialized' = TRUE
    BY <1>1, <1>3, <2>1, <2>4
  <2>9. LocTypeOK'
    BY <1>3, <1>4, <2>7, <2>8 DEF LocTypeOK
  <2> QED
    BY <2>7, <2>8, <2>9 DEF KnowsItsSide, PlacedIsNear, UnknownAtStart
<1>6. CASE ~StillInitialized
  <2>1. /\ initialized' = (r.found.start # {})
        /\ IF r.found.start = {} THEN UNCHANGED position ELSE position' \in r.found.start
    BY <1>2, <1>6 DEF Localize
  <2>2. position' \in Place /\ initialized' \in BOOLEAN
    BY <1>1, <2>1 DEF ReadingsFit
  <2>3. initialized' /\ real' \in Start => Near(position', real')
    BY <1>2, <2>1 DEF ReadingsFit
  <2>4. ~out => real' \in Start
    <3>1. SUFFICES ASSUME ~out PROVE real' \in Start
      OBVIOUS
    <3>2. ~initialized /\ real \in Start
      BY <1>6, <3>1 DEF StillInitialized, UnknownAtStart
    <3>3. odo.x = 0 \/ real' \in Start
      BY <3>2 DEF Image
    <3>4. CASE odo.x = 0
      <4>1. real.x \in -FieldLength .. -(Noise + 1) /\ real.dir \in {1, -1}
        BY <3>2 DEF Start
      <4>2. real.x + real.dir * odo.x = real.x
        BY <1>1, <3>4, <4>1 DEF Place
      <4>3. (IF odo.turned THEN -real.dir ELSE real.dir) \in {1, -1}
        BY <4>1
      <4> QED
        BY <1>3, <4>1, <4>2, <4>3 DEF Moved, Start
    <3> QED
      BY <3>3, <3>4
  <2>5. LocTypeOK'
    BY <1>1, <1>3, <1>4, <2>2 DEF LocTypeOK
  <2>6. KnowsItsSide'
    BY <1>3, <2>3, <2>4 DEF KnowsItsSide, Near
  <2>7. PlacedIsNear' /\ UnknownAtStart'
    BY <1>3, <2>3, <2>4 DEF PlacedIsNear, UnknownAtStart
  <2> QED
    BY <2>5, <2>6, <2>7
<1> QED
  BY <1>5, <1>6

(* The referee and whoever carries the robot.                              *)
LEMMA RefereeKeeps ==
  ASSUME LocIInv, TakeOut \/ Carry \/ LetIn
  PROVE  LocIInv'
<1> USE DEF LocIInv
<1>1. /\ real \in Place /\ position \in Place
      /\ out \in BOOLEAN /\ placed \in BOOLEAN /\ initialized \in BOOLEAN
  BY DEF LocTypeOK
<1>2. CASE TakeOut
  <2>1. LocTypeOK'
    BY <1>1, <1>2 DEF TakeOut, LocTypeOK
  <2>2. PlacedIsNear'
    BY <1>1, <1>2 DEF TakeOut, PlacedIsNear, KnowsItsSide, Near
  <2> QED
    BY <1>2, <2>1, <2>2 DEF TakeOut, KnowsItsSide, UnknownAtStart
<1>3. CASE Carry
  <2>1. real' \in Place
    BY <1>3, LocalizationAssumption DEF Carry, Place
  <2>2. LocTypeOK'
    BY <1>1, <1>3, <2>1 DEF Carry, LocTypeOK
  <2> QED
    BY <1>3, <2>2 DEF Carry, KnowsItsSide, PlacedIsNear, UnknownAtStart
<1>4. CASE LetIn
  <2>1. LocTypeOK'
    BY <1>1, <1>4 DEF LetIn, LocTypeOK
  <2>2. KnowsItsSide'
    BY <1>4 DEF LetIn, PlacedIsNear, KnowsItsSide, Near
  <2> QED
    BY <1>4, <2>1, <2>2 DEF LetIn, PlacedIsNear, UnknownAtStart
<1> QED
  BY <1>2, <1>3, <1>4

LEMMA LocInductive ==
  ASSUME ReadingsFit
  PROVE  LocIInv /\ [LocNext]_locVars => LocIInv'
<1> SUFFICES ASSUME LocIInv, [LocNext]_locVars PROVE LocIInv'
  OBVIOUS
<1>1. CASE LocNext
  BY <1>1, ImageKeeps, RefereeKeeps DEF LocNext
<1>2. CASE UNCHANGED locVars
  <2>1. LocTypeOK'
    BY <1>2 DEF locVars, LocIInv, LocTypeOK
  <2> QED
    BY <1>2, <2>1 DEF locVars, LocIInv, KnowsItsSide, PlacedIsNear, UnknownAtStart
<1> QED
  BY <1>1, <1>2

(* A robot in play that knows its place has the right half, for every      *)
(* field and every noise with which the images give what ReadingsFit says; *)
(* MCSensing evaluates it for the hypotheses that proceed() computes.      *)
THEOREM SideIsKnown ==
  ASSUME ReadingsFit
  PROVE  LocSpec => []KnowsItsSide
<1>1. LocIInv => KnowsItsSide
  BY DEF LocIInv
<1> QED
  BY <1>1, LocInitIInv, LocInductive, PTL DEF LocSpec

-----------------------------------------------------------------------------
(* The tracker *)

Object == [pos : Cells, confidence : 0 .. MaxConf]

\* Where an object has gone is an older one.
MergedFit(merged, ids) ==
  /\ DOMAIN merged \subseteq ids
  /\ \A i \in DOMAIN merged : merged[i] \in ids /\ merged[i] < i

\* Only objects that have been merged are missing, and those that operator[] has made
\* again have no confidence.
ListFits(list, merged, ids) ==
  /\ list \in [DOMAIN list -> Object]
  /\ ids \ DOMAIN merged \subseteq DOMAIN list
  /\ DOMAIN list \subseteq ids
  /\ \A id \in DOMAIN list \cap DOMAIN merged : list[id].confidence = 0

\* The entries of a rank from n on are still to be visited.
EntriesFit(entries, merged, ids, n) ==
  /\ entries \in [Pairs(ids) -> -MaxApart .. MergeAt]
  /\ \A p \in Pairs(ids) : entries[p] = MergeAt => p[2] \in DOMAIN merged /\ Rank(p) < n

\* What holds before round n of the loop over mergeable.
LoopFits(acc, ids, n) ==
  /\ acc = [list |-> acc.list, entries |-> acc.entries, merged |-> acc.merged]
  /\ MergedFit(acc.merged, ids)
  /\ ListFits(acc.list, acc.merged, ids)
  /\ EntriesFit(acc.entries, acc.merged, ids, n)

\* Ids are not used again, and surviving objects have not been merged.
IdsAreNew == removed \subseteq 0 .. next_id - 1
NotMergedYet == \A p \in Pairs(DOMAIN mtList) : mergeable[p] < MergeAt

TrackerIInv == TrackerTypeOK /\ NoGhosts /\ IdsAreNew /\ NotMergedYet

(* A set of natural numbers that is not empty has a least element.         *)
LEMMA LeastExists ==
  ASSUME NEW S, S \subseteq Nat, S # {}
  PROVE  \E s \in S : \A o \in S : s <= o
<1> DEFINE R == OpToRel(<, Nat)
<1>1. IsWellFoundedOn(R, Nat)
  BY NatLessThanWellFounded
<1>2. \A x, y \in Nat : ~(<<y, x>> \in R) => x <= y
  BY DEF OpToRel
<1> HIDE DEF R
<1>3. \E x \in S : \A y \in S : ~(<<y, x>> \in R)
  BY <1>1, WFMin
<1> QED
  BY <1>2, <1>3

(* Following the merged objects ends at one that is still there.           *)
LEMMA TargetIsThere ==
  ASSUME NEW ids \in SUBSET (0 .. MaxId), NEW merged, MergedFit(merged, ids), NEW id \in ids
  PROVE  Target(merged, id) \in ids \ DOMAIN merged /\ Target(merged, id) <= id
<1> DEFINE Ends(f, n) == f = [i \in 0 .. n |-> IF i \in DOMAIN merged THEN f[merged[i]] ELSE i]
           end == CHOOSE f : Ends(f, MaxId)
<1>0. MaxId \in Nat /\ (\A i \in ids : i \in 0 .. MaxId) /\ \A i \in ids : i \in Nat
  <2>1. MaxId \in Nat
    BY TrackerAssumption
  <2> QED
    BY <2>1
<1>1. /\ DOMAIN merged \subseteq ids
      /\ \A i \in DOMAIN merged : merged[i] \in ids /\ merged[i] \in Nat /\ merged[i] < i
  BY <1>0 DEF MergedFit
<1>2. \A n \in Nat : \E f : Ends(f, n)
  <2> DEFINE Bad == {n \in Nat : ~\E f : Ends(f, n)}
  <2>1. SUFFICES ASSUME Bad # {} PROVE FALSE
    OBVIOUS
  <2>2. PICK n \in Bad : \A o \in Bad : n <= o
    BY <2>1, LeastExists
  <2>3. n # 0
    <3> DEFINE f == [i \in 0 .. 0 |-> i]
    <3>1. 0 \notin DOMAIN merged
      BY <1>0, <1>1
    <3>2. Ends(f, 0)
      BY <3>1
    <3> QED
      BY <3>2
  <2>4. PICK f : Ends(f, n - 1)
    <3>1. n - 1 \in Nat /\ ~(n <= n - 1)
      BY <2>3
    <3> QED
      BY <2>2, <3>1
  <2> DEFINE g == [i \in 0 .. n |-> IF i < n THEN f[i] ELSE IF n \in DOMAIN merged THEN f[merged[n]] ELSE n]
  <2>5. Ends(g, n)
    <3> SUFFICES ASSUME NEW i \in 0 .. n
                 PROVE  g[i] = IF i \in DOMAIN merged THEN g[merged[i]] ELSE i
      OBVIOUS
    <3>1. CASE i < n
      <4>1. i \in 0 .. n - 1 /\ g[i] = f[i]
        BY <3>1
      <4>2. f[i] = IF i \in DOMAIN merged THEN f[merged[i]] ELSE i
        BY <2>4, <4>1
      <4>3. i \in DOMAIN merged => merged[i] \in 0 .. n /\ merged[i] < n
        BY <1>1, <3>1
      <4>4. i \in DOMAIN merged => g[merged[i]] = f[merged[i]]
        BY <4>3
      <4> QED
        BY <4>1, <4>2, <4>4
    <3>2. CASE i = n
      <4>1. i \in DOMAIN merged => merged[i] \in 0 .. n /\ merged[i] < n
        BY <1>1, <3>2
      <4> QED
        BY <3>2, <4>1
    <3> QED
      BY <3>1, <3>2
  <2> HIDE DEF g
  <2> QED
    BY <2>5
<1>3. Ends(end, MaxId)
  <2> HIDE DEF Ends
  <2> QED
    BY <1>0, <1>2
<1>4. Target(merged, id) = end[id]
  BY DEF Target
<1> HIDE DEF end
<1>5. \A i \in ids : end[i] = IF i \in DOMAIN merged THEN end[merged[i]] ELSE i
  BY <1>0, <1>3
<1> HIDE DEF Ends
<1> DEFINE Bad == {i \in ids : ~(end[i] \in ids \ DOMAIN merged /\ end[i] <= i)}
<1>6. Bad = {}
  <2>1. SUFFICES ASSUME Bad # {} PROVE FALSE
    OBVIOUS
  <2>2. Bad \subseteq Nat
    BY <1>0
  <2>3. PICK i \in Bad : \A o \in Bad : i <= o
    <3> HIDE DEF Bad
    <3> QED
      BY <2>1, <2>2, LeastExists
  <2>4. CASE i \in DOMAIN merged
    <3>1. merged[i] \in ids /\ merged[i] \in Nat /\ merged[i] < i /\ i \in Nat
      BY <1>1, <2>2, <2>3, <2>4
    <3>2. merged[i] \notin Bad
      BY <2>3, <3>1
    <3>3. end[merged[i]] \in ids \ DOMAIN merged /\ end[merged[i]] <= merged[i]
      BY <3>1, <3>2
    <3>4. end[merged[i]] \in Nat
      BY <1>0, <3>3
    <3>5. end[i] = end[merged[i]]
      BY <1>5, <2>3, <2>4
    <3>6. end[i] <= i
      BY <3>1, <3>3, <3>4, <3>5
    <3> QED
      BY <2>3, <3>3, <3>5, <3>6
  <2>5. CASE i \notin DOMAIN merged
    <3>1. end[i] = i /\ i \in ids /\ i \in Nat
      BY <1>5, <2>2, <2>3, <2>5
    <3> QED
      BY <2>3, <2>5, <3>1
  <2> QED
    BY <2>4, <2>5
<1> QED
  BY <1>4, <1>6

(* The greater of two numbers, and the less.                               *)
LEMMA MaxOfTwo == \A a, b \in Int : Max({a, b}) = IF a <= b THEN b ELSE a
<1> SUFFICES ASSUME NEW a \in Int, NEW b \in Int PROVE Max({a, b}) = IF a <= b THEN b ELSE a
  OBVIOUS
<1>1. \E x \in {a, b} : \A y \in {a, b} : x >= y
  OBVIOUS
<1>2. Max({a, b}) \in {a, b} /\ \A y \in {a, b} : Max({a, b}) >= y
  BY <1>1 DEF Max
<1> QED
  BY <1>2

LEMMA MinOfTwo == \A a, b \in Int : Min({a, b}) = IF a <= b THEN a ELSE b
<1> SUFFICES ASSUME NEW a \in Int, NEW b \in Int PROVE Min({a, b}) = IF a <= b THEN a ELSE b
  OBVIOUS
<1>1. \E x \in {a, b} : \A y \in {a, b} : x <= y
  OBVIOUS
<1>2. Min({a, b}) \in {a, b} /\ \A y \in {a, b} : Min({a, b}) <= y
  BY <1>1 DEF Min
<1> QED
  BY <1>2

-----------------------------------------------------------------------------
(* A round of the loop over mergeable *)

LEMMA RankIsNat ==
  ASSUME NEW ids \in SUBSET Nat, NEW p \in Pairs(ids)
  PROVE  Rank(p) \in Nat /\ p[1] \in ids /\ p[2] \in ids /\ p[1] < p[2]
<1>1. p[1] \in ids /\ p[2] \in ids /\ p[1] < p[2]
  BY DEF Pairs
<1>2. MaxId \in Nat
  BY TrackerAssumption
<1>3. \A a, b \in Nat : a * b \in Nat
  OBVIOUS
<1>4. p[1] * MaxId \in Nat
  BY <1>1, <1>2, <1>3
<1>5. p[2] \in Nat
  BY <1>1
<1>6. \A a, b \in Nat : a + b \in Nat
  OBVIOUS
<1> QED
  BY <1>1, <1>4, <1>5, <1>6 DEF Rank

(* Only the entry that is visited changes.                                 *)
LEMMA EntryChanges ==
  ASSUME NEW ids \in SUBSET Nat, NEW n \in Nat, NEW entries, NEW merged, NEW merged2,
         EntriesFit(entries, merged, ids, n), DOMAIN merged \subseteq DOMAIN merged2,
         NEW p \in Pairs(ids), Rank(p) = n, NEW v \in -MaxApart .. MergeAt,
         v = MergeAt => p[2] \in DOMAIN merged2
  PROVE  EntriesFit([entries EXCEPT ![p] = v], merged2, ids, n + 1)
<1> DEFINE changed == [entries EXCEPT ![p] = v]
<1>1. changed \in [Pairs(ids) -> -MaxApart .. MergeAt]
  BY DEF EntriesFit
<1>2. ASSUME NEW q \in Pairs(ids), changed[q] = MergeAt
      PROVE  q[2] \in DOMAIN merged2 /\ Rank(q) < n + 1
  <2>1. CASE q = p
    <3>1. changed[p] = v
      BY DEF EntriesFit
    <3> QED
      BY <1>2, <2>1, <3>1
  <2>2. CASE q # p
    <3>1. entries[q] = MergeAt
      BY <1>2, <2>2 DEF EntriesFit
    <3>2. q[2] \in DOMAIN merged /\ Rank(q) < n
      BY <3>1 DEF EntriesFit
    <3>3. Rank(q) \in Nat
      BY RankIsNat
    <3> QED
      BY <3>2, <3>3
  <2> QED
    BY <2>1, <2>2
<1> QED
  BY <1>1, <1>2 DEF EntriesFit

(* Entries of a later rank are not concerned.                              *)
LEMMA EntriesWait ==
  ASSUME NEW ids \in SUBSET Nat, NEW n \in Nat, NEW entries, NEW merged,
         EntriesFit(entries, merged, ids, n)
  PROVE  EntriesFit(entries, merged, ids, n + 1)
<1>1. \A q \in Pairs(ids) : Rank(q) \in Nat
  BY RankIsNat
<1> QED
  BY <1>1 DEF EntriesFit

(* operator[] makes only objects that have been merged.                    *)
LEMMA DefaultFits ==
  ASSUME NEW ids, NEW merged, NEW list, ListFits(list, merged, ids), NEW first \in ids
  PROVE  ListFits(WithDefault(list, first), merged, ids) /\ first \in DOMAIN WithDefault(list, first)
<1>1. CASE first \in DOMAIN list
  BY <1>1 DEF WithDefault
<1>2. CASE first \notin DOMAIN list
  <2> DEFINE made == With(list, first, DefaultObject)
  <2>1. first \in DOMAIN merged
    BY <1>2 DEF ListFits
  <2>2. DefaultObject \in Object /\ DefaultObject.confidence = 0
    BY TrackerAssumption DEF DefaultObject, Object
  <2>3. /\ DOMAIN made = DOMAIN list \cup {first} /\ made = [id \in DOMAIN made |-> made[id]]
        /\ \A id \in DOMAIN made : made[id] = IF id = first THEN DefaultObject ELSE list[id]
    BY DEF With
  <2>4. WithDefault(list, first) = made
    BY <1>2 DEF WithDefault
  <2> HIDE DEF made
  <2>5. made \in [DOMAIN made -> Object]
    BY <2>2, <2>3 DEF ListFits
  <2> QED
    BY <2>1, <2>2, <2>3, <2>4, <2>5 DEF ListFits
<1> QED
  BY <1>1, <1>2

(* Merging takes one object out of the list and changes one that stays.    *)
LEMMA MergeFits ==
  ASSUME NEW ids, NEW merged, NEW list, ListFits(list, merged, ids),
         NEW from \in DOMAIN list, NEW to \in ids \ DOMAIN merged, to # from
  PROVE  ListFits(MergeInto(list, from, to), With(merged, from, to), ids)
<1> DEFINE joined == Joined(list[to], list[from])
           rest == MergeInto(list, from, to)
<1>1. to \in DOMAIN list /\ list[to] \in Object /\ list[from] \in Object
  BY DEF ListFits
<1>2. joined \in Object
  <2>1. (list[to].pos + list[from].pos) \div 2 \in Cells
    BY <1>1, TrackerAssumption DEF Object
  <2>2. \A o \in Object : o.confidence \in 0 .. MaxConf /\ o.confidence \in Int
    BY TrackerAssumption DEF Object
  <2>3. Max({list[to].confidence, list[from].confidence}) \in 0 .. MaxConf
    BY <1>1, <2>2, MaxOfTwo
  <2> QED
    BY <2>1, <2>3 DEF Joined, Object
<1>3. /\ DOMAIN rest = DOMAIN list \ {from} /\ rest = [id \in DOMAIN rest |-> rest[id]]
      /\ \A id \in DOMAIN rest : rest[id] = IF id = to THEN joined ELSE list[id]
  BY <1>1 DEF MergeInto, Without
<1>4. DOMAIN With(merged, from, to) = DOMAIN merged \cup {from}
  BY DEF With
<1> HIDE DEF rest, joined
<1>5. rest \in [DOMAIN rest -> Object]
  BY <1>2, <1>3 DEF ListFits
<1>6. ids \ (DOMAIN merged \cup {from}) \subseteq DOMAIN rest /\ DOMAIN rest \subseteq ids
  BY <1>3 DEF ListFits
<1>7. \A id \in DOMAIN rest \cap (DOMAIN merged \cup {from}) : rest[id].confidence = 0
  <2> SUFFICES ASSUME NEW id \in DOMAIN rest \cap (DOMAIN merged \cup {from})
               PROVE  rest[id].confidence = 0
    OBVIOUS
  <2>1. id \in DOMAIN list /\ id \in DOMAIN merged /\ id # to
    BY <1>3
  <2> QED
    BY <1>3, <2>1 DEF ListFits
<1> QED
  BY <1>4, <1>5, <1>6, <1>7 DEF ListFits, rest

(* A round that visits a pair.                                             *)
LEMMA VisitKeeps ==
  ASSUME NEW ids \in SUBSET (0 .. MaxId), NEW n \in Nat, NEW acc, LoopFits(acc, ids, n),
         NEW p \in Pairs(ids), Rank(p) = n, NEW seen
  PROVE  LoopFits(Visit(acc, p, seen), ids, n + 1)
<1> DEFINE first == p[1]
           second == p[2]
           list == WithDefault(acc.list, first)
           m == acc.entries[p]
           to == Target(acc.merged, first)
           visited == Visit(acc, p, seen)
<1>0. MaxId \in Nat /\ MergeAt \in Nat \ {0} /\ MaxApart \in Nat
  BY TrackerAssumption
<1>1. ids \in SUBSET Nat
  BY <1>0
<1>2. first \in ids /\ second \in ids /\ first \in Nat /\ second \in Nat /\ first < second
  BY <1>1, RankIsNat
<1>3. /\ acc = [list |-> acc.list, entries |-> acc.entries, merged |-> acc.merged]
      /\ MergedFit(acc.merged, ids) /\ ListFits(acc.list, acc.merged, ids)
      /\ EntriesFit(acc.entries, acc.merged, ids, n)
  BY DEF LoopFits
<1>4. ListFits(list, acc.merged, ids) /\ first \in DOMAIN list
  BY <1>2, <1>3, DefaultFits
<1>5. m \in -MaxApart .. MergeAt /\ m < MergeAt
  <2>1. m \in -MaxApart .. MergeAt /\ m # MergeAt
    BY <1>3 DEF EntriesFit
  <2> QED
    BY <1>0, <2>1
<1>6. \A v \in -MaxApart .. MergeAt : v # MergeAt =>
        EntriesFit([acc.entries EXCEPT ![p] = v], acc.merged, ids, n + 1)
  BY <1>1, <1>3, EntryChanges
<1>7. EntriesFit(acc.entries, acc.merged, ids, n + 1)
  BY <1>1, <1>3, EntriesWait
<1>8. CASE second \notin DOMAIN acc.list
  <2>1. visited = acc
    BY <1>8 DEF Visit
  <2> QED
    BY <1>3, <1>7, <2>1 DEF LoopFits
<1>9. CASE second \in DOMAIN acc.list /\ {first, second} \subseteq seen
  <2>1. visited = [acc EXCEPT !.entries[p] = 0]
    BY <1>9 DEF Visit
  <2>2. /\ visited = [list |-> visited.list, entries |-> visited.entries, merged |-> visited.merged]
        /\ visited.list = acc.list /\ visited.merged = acc.merged
        /\ visited.entries = [acc.entries EXCEPT ![p] = 0]
    BY <1>3, <2>1
  <2>3. EntriesFit([acc.entries EXCEPT ![p] = 0], acc.merged, ids, n + 1)
    BY <1>0, <1>6
  <2> HIDE DEF visited
  <2> QED
    BY <1>3, <2>2, <2>3 DEF LoopFits, visited
<1>10. CASE /\ second \in DOMAIN acc.list /\ ~({first, second} \subseteq seen)
            /\ ~Close(list[first].pos, list[second].pos)
  <2>1. visited = [acc EXCEPT !.list = list, !.entries[p] = Lower(m)]
    BY <1>10 DEF Visit
  <2>2. /\ visited = [list |-> visited.list, entries |-> visited.entries, merged |-> visited.merged]
        /\ visited.list = list /\ visited.merged = acc.merged
        /\ visited.entries = [acc.entries EXCEPT ![p] = Lower(m)]
    BY <1>3, <2>1
  <2>3. Lower(m) \in -MaxApart .. MergeAt /\ Lower(m) # MergeAt
    BY <1>0, <1>5, MaxOfTwo DEF Lower
  <2>4. EntriesFit([acc.entries EXCEPT ![p] = Lower(m)], acc.merged, ids, n + 1)
    BY <1>6, <2>3
  <2> HIDE DEF visited, list, m
  <2> QED
    BY <1>3, <1>4, <2>2, <2>4 DEF LoopFits, visited
<1>11. CASE /\ second \in DOMAIN acc.list /\ ~({first, second} \subseteq seen)
            /\ Close(list[first].pos, list[second].pos) /\ m + 1 < MergeAt
  <2>1. visited = [acc EXCEPT !.list = list, !.entries[p] = m + 1]
    BY <1>11 DEF Visit
  <2>2. /\ visited = [list |-> visited.list, entries |-> visited.entries, merged |-> visited.merged]
        /\ visited.list = list /\ visited.merged = acc.merged
        /\ visited.entries = [acc.entries EXCEPT ![p] = m + 1]
    BY <1>3, <2>1
  <2>3. m + 1 \in -MaxApart .. MergeAt /\ m + 1 # MergeAt
    BY <1>0, <1>5, <1>11
  <2>4. EntriesFit([acc.entries EXCEPT ![p] = m + 1], acc.merged, ids, n + 1)
    BY <1>6, <2>3
  <2> HIDE DEF visited, list, m
  <2> QED
    BY <1>3, <1>4, <2>2, <2>4 DEF LoopFits, visited
<1>12. CASE /\ second \in DOMAIN acc.list /\ ~({first, second} \subseteq seen)
            /\ Close(list[first].pos, list[second].pos) /\ ~(m + 1 < MergeAt)
  <2> DEFINE merged2 == With(acc.merged, second, to)
  <2>1. visited = [list |-> MergeInto(list, second, to),
                   entries |-> [acc.entries EXCEPT ![p] = m + 1], merged |-> merged2]
    BY <1>12 DEF Visit
  <2>2. to \in ids \ DOMAIN acc.merged /\ to <= first
    BY <1>2, <1>3, TargetIsThere
  <2>3. to \in Nat /\ to < second
    <3> HIDE DEF to, first, second
    <3>1. to \in Nat
      BY <1>1, <2>2
    <3>2. to <= first /\ first < second /\ first \in Nat /\ second \in Nat
      BY <1>2, <2>2
    <3> QED
      BY <3>1, <3>2
  <2>4. second \in DOMAIN list
    BY <1>12 DEF WithDefault, With
  <2>5. ListFits(MergeInto(list, second, to), merged2, ids)
    <3> HIDE DEF to, first, second, list
    <3> QED
      BY <1>2, <1>4, <2>2, <2>3, <2>4, MergeFits
  <2>6. /\ DOMAIN merged2 = DOMAIN acc.merged \cup {second} /\ merged2[second] = to
        /\ \A i \in DOMAIN acc.merged : i # second => merged2[i] = acc.merged[i]
    BY DEF With
  <2> HIDE DEF merged2
  <2>7. MergedFit(merged2, ids)
    <3> HIDE DEF to, first, second, list
    <3> QED
      BY <1>2, <1>3, <2>2, <2>3, <2>6 DEF MergedFit
  <2>8. m + 1 \in -MaxApart .. MergeAt
    BY <1>0, <1>5
  <2>9. EntriesFit([acc.entries EXCEPT ![p] = m + 1], merged2, ids, n + 1)
    BY <1>1, <1>3, <2>6, <2>8, EntryChanges
  <2> QED
    BY <2>1, <2>5, <2>7, <2>9 DEF LoopFits
<1> HIDE DEF first, second, list, m, visited
<1> QED
  BY <1>8, <1>9, <1>10, <1>11, <1>12 DEF visited

(* The whole loop.                                                         *)
LEMMA MergeAllFits ==
  ASSUME NEW ids \in SUBSET (0 .. MaxId), NEW list \in [ids -> Object], NEW seen,
         NEW entries \in [Pairs(ids) -> -MaxApart .. MergeAt],
         \A p \in Pairs(ids) : entries[p] # MergeAt
  PROVE  \E n \in Nat : LoopFits(MergeAll(list, entries, seen), ids, n)
<1> DEFINE start == [list |-> list, entries |-> entries, merged |-> <<>>]
           Round(acc, n) == IF \E p \in DOMAIN entries : Rank(p) = n
                            THEN Visit(acc, CHOOSE p \in DOMAIN entries : Rank(p) = n, seen)
                            ELSE acc
           Rounds(f, n) == f = [k \in 0 .. n |-> IF k = 0 THEN start ELSE Round(f[k - 1], k - 1)]
           last == MaxId * MaxId
           round == CHOOSE f : Rounds(f, last)
<1>1. MergeAll(list, entries, seen) = round[last]
  BY DEF MergeAll
<1>2. last \in Nat
  <2>1. MaxId \in Nat /\ \A a, b \in Nat : a * b \in Nat
    BY TrackerAssumption
  <2> QED
    BY <2>1
<1>3. LoopFits(start, ids, 0)
  <2>1. /\ DOMAIN <<>> = {} /\ start = [list |-> start.list, entries |-> start.entries, merged |-> start.merged]
        /\ start.list = list /\ start.entries = entries /\ start.merged = <<>>
    OBVIOUS
  <2> HIDE DEF start
  <2> QED
    BY <2>1 DEF LoopFits, MergedFit, ListFits, EntriesFit
<1>4. ASSUME NEW acc, NEW n \in Nat, LoopFits(acc, ids, n) PROVE LoopFits(Round(acc, n), ids, n + 1)
  <2>1. CASE \E p \in DOMAIN entries : Rank(p) = n
    <3> DEFINE p == CHOOSE p \in DOMAIN entries : Rank(p) = n
    <3>1. p \in Pairs(ids) /\ Rank(p) = n
      BY <2>1
    <3>2. Round(acc, n) = Visit(acc, p, seen)
      BY <2>1
    <3> HIDE DEF p
    <3> QED
      BY <1>4, <3>1, <3>2, VisitKeeps
  <2>2. CASE ~\E p \in DOMAIN entries : Rank(p) = n
    <3>1. ids \in SUBSET Nat
      BY TrackerAssumption
    <3>2. EntriesFit(acc.entries, acc.merged, ids, n + 1)
      BY <1>4, <3>1, EntriesWait DEF LoopFits
    <3> QED
      BY <1>4, <2>2, <3>2 DEF LoopFits
  <2> QED
    BY <2>1, <2>2
<1> HIDE DEF Round, start
<1>5. \A n \in Nat : \E f : Rounds(f, n)
  <2> DEFINE Bad == {n \in Nat : ~\E f : Rounds(f, n)}
  <2>1. SUFFICES ASSUME Bad # {} PROVE FALSE
    OBVIOUS
  <2>2. PICK n \in Bad : \A o \in Bad : n <= o
    BY <2>1, LeastExists
  <2>3. n # 0
    <3>1. Rounds([k \in 0 .. 0 |-> start], 0)
      OBVIOUS
    <3> QED
      BY <3>1
  <2>4. PICK f : Rounds(f, n - 1)
    <3>1. n - 1 \in Nat /\ ~(n <= n - 1)
      BY <2>3
    <3> QED
      BY <2>2, <3>1
  <2> DEFINE g == [k \in 0 .. n |-> IF k < n THEN f[k] ELSE Round(f[n - 1], n - 1)]
  <2>5. Rounds(g, n)
    <3> SUFFICES ASSUME NEW k \in 0 .. n
                 PROVE  g[k] = IF k = 0 THEN start ELSE Round(g[k - 1], k - 1)
      OBVIOUS
    <3>1. k # 0 => g[k - 1] = f[k - 1]
      OBVIOUS
    <3>2. CASE k < n
      <4>1. k \in 0 .. n - 1 /\ g[k] = f[k]
        BY <3>2
      <4>2. f[k] = IF k = 0 THEN start ELSE Round(f[k - 1], k - 1)
        BY <2>4, <4>1
      <4> QED
        BY <3>1, <4>1, <4>2
    <3>3. CASE k = n
      BY <2>3, <3>1, <3>3
    <3> QED
      BY <3>2, <3>3
  <2> HIDE DEF g
  <2> QED
    BY <2>5
<1>6. Rounds(round, last)
  <2> HIDE DEF Rounds, last
  <2> QED
    BY <1>2, <1>5
<1> HIDE DEF round
<1>7. /\ round[0] = start
      /\ \A k \in 0 .. last : k # 0 => round[k] = Round(round[k - 1], k - 1)
  <2> HIDE DEF last
  <2> QED
    BY <1>2, <1>6
<1> HIDE DEF Rounds, last
<1> DEFINE Bad == {n \in 0 .. last : ~LoopFits(round[n], ids, n)}
<1>8. Bad = {}
  <2>1. SUFFICES ASSUME Bad # {} PROVE FALSE
    OBVIOUS
  <2>2. PICK n \in Bad : \A o \in Bad : n <= o
    <3>1. Bad \subseteq Nat
      OBVIOUS
    <3> HIDE DEF Bad
    <3> QED
      BY <2>1, <3>1, LeastExists
  <2>3. n \in 0 .. last /\ ~LoopFits(round[n], ids, n)
    BY <2>2
  <2>4. n # 0
    BY <1>3, <1>7, <2>3
  <2>5. n - 1 \in Nat /\ n - 1 \in 0 .. last /\ ~(n <= n - 1)
    BY <1>2, <2>3, <2>4
  <2>6. LoopFits(round[n - 1], ids, n - 1)
    BY <2>2, <2>5
  <2>7. LoopFits(Round(round[n - 1], n - 1), ids, n - 1 + 1)
    BY <1>4, <2>5, <2>6
  <2>8. n - 1 + 1 = n /\ round[n] = Round(round[n - 1], n - 1)
    BY <1>2, <1>7, <2>3, <2>4
  <2> QED
    BY <2>3, <2>7, <2>8
<1>9. last \in 0 .. last
  BY <1>2
<1> QED
  BY <1>1, <1>2, <1>8, <1>9

-----------------------------------------------------------------------------
(* The objects of a frame *)

LEMMA PerceptsFit ==
  ASSUME NEW percepts \in BoundedSeq(Cells, MaxPercepts)
  PROVE  percepts \in [DOMAIN percepts -> Cells] /\ IsFiniteSet(DOMAIN percepts) /\ DOMAIN percepts \subseteq Nat
<1>1. MaxPercepts \in Nat
  BY TrackerAssumption
<1>2. PICK m \in 0 .. MaxPercepts : percepts \in [1 .. m -> Cells]
  BY DEF BoundedSeq, SeqOf
<1>3. IsFiniteSet(1 .. m)
  BY <1>1, <1>2, FS_Interval
<1> QED
  BY <1>1, <1>2, <1>3

LEMMA UpdatedFits ==
  ASSUME NEW percepts \in BoundedSeq(Cells, MaxPercepts), NEW known, known \in [DOMAIN known -> Object],
         NEW A \in Assignments(percepts, known)
  PROVE  Updated(percepts, known, A) \in [DOMAIN known -> Object]
<1>1. \A c \in A : c[1] \in DOMAIN percepts
  BY DEF Assignments, Candidates
<1>2. ASSUME NEW o \in Object, NEW pos \in Cells PROVE Matched(o, pos) \in Object
  <2>1. o.confidence \in Int /\ o.confidence >= 0 /\ Gain \in Nat /\ MaxConf \in Nat
    BY TrackerAssumption DEF Object
  <2>2. Min({MaxConf, o.confidence + Gain}) \in 0 .. MaxConf
    <3>1. o.confidence + Gain \in Int /\ o.confidence + Gain >= 0 /\ MaxConf \in Int /\ MaxConf >= 0
      BY <2>1
    <3> DEFINE sum == o.confidence + Gain
    <3> HIDE DEF sum
    <3>2. Min({MaxConf, sum}) = IF MaxConf <= sum THEN MaxConf ELSE sum
      BY <3>1, MinOfTwo DEF sum
    <3>3. Min({MaxConf, sum}) \in 0 .. MaxConf
      BY <3>1, <3>2 DEF sum
    <3> QED
      BY <3>3 DEF sum
  <2> QED
    BY <2>2 DEF Matched, Object
<1>3. ASSUME NEW o \in Object PROVE Unmatched(o) \in Object
  <2>1. o.confidence \in 0 .. MaxConf /\ MaxConf \in Nat
    BY TrackerAssumption DEF Object
  <2>2. Max({0, o.confidence - 1}) \in 0 .. MaxConf
    <3> DEFINE less == o.confidence - 1
    <3>1. less \in Int /\ less <= MaxConf /\ MaxConf \in Int /\ MaxConf >= 0
      BY <2>1
    <3> HIDE DEF less
    <3>2. Max({0, less}) = IF 0 <= less THEN less ELSE 0
      BY <3>1, MaxOfTwo
    <3>3. Max({0, less}) \in 0 .. MaxConf
      BY <3>1, <3>2
    <3> QED
      BY <3>3 DEF less
  <2> QED
    BY <2>2 DEF Unmatched, Object
<1>4. ASSUME NEW id \in DOMAIN known PROVE Updated(percepts, known, A)[id] \in Object
  <2>1. CASE \E c \in A : c[2] = id
    <3>1. percepts[(CHOOSE c \in A : c[2] = id)[1]] \in Cells
      BY <1>1, <2>1, PerceptsFit
    <3> QED
      BY <1>2, <2>1, <3>1 DEF Updated
  <2>2. CASE ~\E c \in A : c[2] = id
    BY <1>3, <2>2 DEF Updated
  <2> QED
    BY <2>1, <2>2
<1> QED
  BY <1>4 DEF Updated

LEMMA NewFits ==
  ASSUME NEW percepts \in BoundedSeq(Cells, MaxPercepts), NEW left \in SUBSET DOMAIN percepts,
         next_id \in Nat
  PROVE  /\ Cardinality(left) \in Nat
         /\ NewObjects(percepts, left) \in [DOMAIN NewObjects(percepts, left) -> Object]
         /\ DOMAIN NewObjects(percepts, left) \subseteq next_id .. next_id + Cardinality(left) - 1
<1> DEFINE new == NewObjects(percepts, left)
<1>1. IsFiniteSet(left) /\ left \subseteq Nat /\ percepts \in [DOMAIN percepts -> Cells]
  BY PerceptsFit, FS_Subset
<1>2. Cardinality(left) \in Nat
  BY <1>1, FS_CardinalityType
<1>3. ASSUME NEW i \in left PROVE NewId(left, i) \in next_id .. next_id + Cardinality(left) - 1
  <2> DEFINE before == {j \in left : j < i}
  <2>1. before \subseteq left \ {i}
    BY <1>1
  <2>2. IsFiniteSet(left \ {i}) /\ Cardinality(left \ {i}) = Cardinality(left) - 1
    BY <1>1, FS_RemoveElement
  <2>3. Cardinality(before) \in Nat /\ Cardinality(before) <= Cardinality(left) - 1
    BY <2>1, <2>2, FS_Subset, FS_CardinalityType
  <2> QED
    BY <1>2, <2>3 DEF NewId
<1>4. DOMAIN new = {NewId(left, i) : i \in left}
  BY DEF NewObjects
<1>5. ASSUME NEW id \in DOMAIN new PROVE new[id] \in Object
  <2>1. (CHOOSE i \in left : NewId(left, i) = id) \in DOMAIN percepts
    BY <1>4
  <2>2. Gain \in 0 .. MaxConf
    BY TrackerAssumption
  <2> QED
    BY <1>1, <1>4, <2>1, <2>2 DEF NewObjects, Object
<1>6. new = [id \in DOMAIN new |-> new[id]]
  BY DEF NewObjects
<1> QED
  BY <1>2, <1>3, <1>4, <1>5, <1>6

-----------------------------------------------------------------------------
(* A frame *)

(* Pairs grow with the ids.                                                *)
LEMMA PairsGrow ==
  ASSUME NEW small, NEW large, small \subseteq large
  PROVE  Pairs(small) \subseteq Pairs(large)
BY DEF Pairs

(* An object that survives the loop and the erasing has never been merged, *)
(* and no pair of survivors is due to be merged.                           *)
LEMMA SurvivorsFit ==
  ASSUME NEW ids, NEW n \in Nat, NEW acc, LoopFits(acc, ids, n)
  PROVE  LET survivors == Without(acc.list, Lost(acc.list)) IN
         /\ survivors \in [DOMAIN survivors -> [pos : Cells, confidence : 1 .. MaxConf]]
         /\ DOMAIN survivors \subseteq ids \ DOMAIN acc.merged
         /\ \A p \in Pairs(DOMAIN survivors) :
              acc.entries[p] \in -MaxApart .. MergeAt /\ acc.entries[p] < MergeAt
<1> DEFINE survivors == Without(acc.list, Lost(acc.list))
<1>1. ListFits(acc.list, acc.merged, ids) /\ EntriesFit(acc.entries, acc.merged, ids, n)
  BY DEF LoopFits
<1>2. /\ DOMAIN survivors = {id \in DOMAIN acc.list : acc.list[id].confidence # 0}
      /\ survivors = [id \in DOMAIN survivors |-> acc.list[id]]
  BY DEF Without, Lost
<1>3. MaxConf \in Nat /\ MergeAt \in Nat /\ MaxApart \in Nat
  BY TrackerAssumption
<1> HIDE DEF survivors
<1>4. \A o \in Object : o.confidence # 0 => o \in [pos : Cells, confidence : 1 .. MaxConf]
  BY <1>3 DEF Object
<1>5. DOMAIN survivors \subseteq ids \ DOMAIN acc.merged
  BY <1>1, <1>2 DEF ListFits
<1>6. survivors \in [DOMAIN survivors -> [pos : Cells, confidence : 1 .. MaxConf]]
  BY <1>1, <1>2, <1>4 DEF ListFits
<1>7. ASSUME NEW p \in Pairs(DOMAIN survivors)
      PROVE  acc.entries[p] \in -MaxApart .. MergeAt /\ acc.entries[p] < MergeAt
  <2>1. p \in Pairs(ids) /\ p[2] \notin DOMAIN acc.merged
    BY <1>5 DEF Pairs
  <2>2. acc.entries[p] \in -MaxApart .. MergeAt /\ acc.entries[p] # MergeAt
    BY <1>1, <2>1 DEF EntriesFit
  <2> QED
    BY <1>3, <2>2
<1> QED
  BY <1>5, <1>6, <1>7 DEF survivors

LEMMA FrameKeeps ==
  ASSUME TrackerIInv, NEW percepts \in BoundedSeq(Cells, MaxPercepts), NEW aged \in SUBSET MayBeAged,
         NEW ready \in BOOLEAN, TrackFrame(percepts, aged, ready)
  PROVE  TrackerIInv'
<1> DEFINE known == Without(mtList, aged)
<1>1. PICK A \in Assignments(percepts, known) :
        LET left == Left(percepts, A)
            new == NewObjects(percepts, left)
            old == Updated(percepts, known, A)
            list == [id \in DOMAIN old \cup DOMAIN new |-> IF id \in DOMAIN new THEN new[id] ELSE old[id]]
            seen == DOMAIN new \cup {c[2] : c \in A}
            acc == MergeAll(list, EntriesFor(DOMAIN list, DOMAIN new), seen)
        IN /\ next_id' = next_id + Cardinality(left) /\ next_id' <= MaxId
           /\ mtList' = IF ready THEN Without(acc.list, Lost(acc.list)) ELSE <<>>
           /\ mergeable' = acc.entries
           /\ removed' = removed \cup DOMAIN acc.merged
                           \cup ((DOMAIN mtList \cup DOMAIN new) \ DOMAIN mtList')
  BY DEF TrackFrame
<1> DEFINE left == Left(percepts, A)
           new == NewObjects(percepts, left)
           old == Updated(percepts, known, A)
           list == [id \in DOMAIN old \cup DOMAIN new |-> IF id \in DOMAIN new THEN new[id] ELSE old[id]]
           ids == DOMAIN list
           seen == DOMAIN new \cup {c[2] : c \in A}
           entries == EntriesFor(ids, DOMAIN new)
           acc == MergeAll(list, entries, seen)
           survivors == Without(acc.list, Lost(acc.list))
<1>2. /\ next_id' = next_id + Cardinality(left) /\ next_id' <= MaxId
      /\ mtList' = IF ready THEN survivors ELSE <<>>
      /\ mergeable' = acc.entries
      /\ removed' = removed \cup DOMAIN acc.merged \cup ((DOMAIN mtList \cup DOMAIN new) \ DOMAIN mtList')
  BY <1>1
<1>3. TrackerTypeOK /\ NoGhosts /\ IdsAreNew /\ NotMergedYet
  BY DEF TrackerIInv
<1>4. /\ MaxId \in Nat /\ MaxConf \in Nat /\ MergeAt \in Nat \ {0} /\ MaxApart \in Nat
      /\ next_id \in Nat /\ DOMAIN mtList \subseteq 0 .. next_id - 1
  BY <1>3, TrackerAssumption DEF TrackerTypeOK
<1>5. known \in [DOMAIN known -> Object] /\ DOMAIN known \subseteq DOMAIN mtList
  <2>1. mtList \in [DOMAIN mtList -> Object]
    BY <1>3, <1>4 DEF TrackerTypeOK, Object
  <2> QED
    BY <2>1 DEF Without
<1>6. old \in [DOMAIN known -> Object]
  BY <1>5, UpdatedFits
<1>7. /\ Cardinality(left) \in Nat /\ new \in [DOMAIN new -> Object]
      /\ DOMAIN new \subseteq next_id .. next_id + Cardinality(left) - 1
  BY <1>4, NewFits DEF Left
<1>8. /\ ids = DOMAIN known \cup DOMAIN new
      /\ list \in [ids -> Object]
  <2> HIDE DEF old, new, known
  <2> QED
    BY <1>6, <1>7
<1> HIDE DEF left, new, old, list, known
<1>9. next_id' \in Nat /\ next_id' <= MaxId /\ next_id <= next_id' /\ ids \subseteq 0 .. next_id' - 1
  BY <1>2, <1>4, <1>5, <1>7, <1>8
<1>10. /\ entries \in [Pairs(ids) -> -MaxApart .. MergeAt]
       /\ \A p \in Pairs(ids) : entries[p] # MergeAt
  <2>1. ASSUME NEW p \in Pairs(ids), p[1] \notin DOMAIN new, p[2] \notin DOMAIN new
        PROVE  mergeable[p] \in -MaxApart .. MergeAt /\ mergeable[p] # MergeAt
    <3>1. p \in Pairs(DOMAIN mtList)
      BY <1>5, <1>8, <2>1 DEF Pairs
    <3>2. mergeable[p] \in -MaxApart .. MergeAt
      BY <1>3, <3>1 DEF TrackerTypeOK, NoGhosts
    <3> QED
      BY <1>3, <1>4, <3>1, <3>2 DEF NotMergedYet
  <2>2. 0 \in -MaxApart .. MergeAt /\ 0 # MergeAt
    BY <1>4
  <2> HIDE DEF ids
  <2> QED
    BY <2>1, <2>2 DEF EntriesFor
<1> HIDE DEF entries, seen
<1>11. PICK n \in Nat : LoopFits(acc, ids, n)
  <2>1. ids \in SUBSET (0 .. MaxId)
    BY <1>4, <1>9
  <2> HIDE DEF ids
  <2> QED
    BY <1>8, <1>10, <2>1, MergeAllFits
<1> HIDE DEF acc, ids
<1>12. /\ survivors \in [DOMAIN survivors -> [pos : Cells, confidence : 1 .. MaxConf]]
       /\ DOMAIN survivors \subseteq ids \ DOMAIN acc.merged
       /\ \A p \in Pairs(DOMAIN survivors) :
            acc.entries[p] \in -MaxApart .. MergeAt /\ acc.entries[p] < MergeAt
  BY <1>11, SurvivorsFit
<1>13. acc.entries \in [Pairs(ids) -> -MaxApart .. MergeAt] /\ DOMAIN acc.merged \subseteq ids
  BY <1>11 DEF LoopFits, EntriesFit, MergedFit
<1> HIDE DEF survivors
<1>14. /\ mtList' \in [DOMAIN mtList' -> [pos : Cells, confidence : 1 .. MaxConf]]
       /\ DOMAIN mtList' \subseteq ids \ DOMAIN acc.merged
       /\ \A p \in Pairs(DOMAIN mtList') : mergeable'[p] < MergeAt
  <2>1. CASE ready
    BY <1>2, <1>12, <2>1
  <2>2. CASE ~ready
    <3>1. mtList' = <<>> /\ DOMAIN mtList' = {} /\ Pairs(DOMAIN mtList') = {}
      BY <1>2, <2>2 DEF Pairs
    <3> QED
      BY <3>1
  <2> QED
    BY <2>1, <2>2
<1>15. TrackerTypeOK'
  <2>1. next_id' \in 0 .. MaxId /\ DOMAIN mtList' \subseteq 0 .. next_id' - 1
    BY <1>4, <1>9, <1>14
  <2>2. \A p \in DOMAIN mergeable' : mergeable'[p] \in -MaxApart .. MergeAt
    BY <1>2, <1>13
  <2> QED
    BY <1>14, <2>1, <2>2 DEF TrackerTypeOK
<1>16. DOMAIN mtList' \cap removed' = {}
  <2>1. ids \cap removed = {}
    <3>1. DOMAIN known \cap removed = {}
      BY <1>3, <1>5 DEF NoGhosts
    <3>2. DOMAIN new \cap removed = {}
      BY <1>3, <1>4, <1>7 DEF IdsAreNew
    <3> QED
      BY <1>8, <3>1, <3>2
  <2> QED
    BY <1>2, <1>14, <2>1
<1>17. Pairs(DOMAIN mtList') \subseteq DOMAIN mergeable'
  BY <1>2, <1>13, <1>14, PairsGrow
<1>18. IdsAreNew'
  <2>1. removed \subseteq 0 .. next_id' - 1
    <3>1. removed \subseteq 0 .. next_id - 1
      BY <1>3 DEF IdsAreNew
    <3>2. next_id \in Int /\ next_id' \in Int /\ next_id <= next_id'
      BY <1>4, <1>9
    <3>3. \A a, b \in Int : a <= b => 0 .. a - 1 \subseteq 0 .. b - 1
      OBVIOUS
    <3> QED
      BY <3>1, <3>2, <3>3
  <2>2. DOMAIN mtList \cup DOMAIN new \subseteq 0 .. next_id' - 1
    BY <1>4, <1>8, <1>9
  <2> QED
    BY <1>2, <1>9, <1>13, <2>1, <2>2 DEF IdsAreNew
<1> QED
  BY <1>14, <1>15, <1>16, <1>17, <1>18 DEF TrackerIInv, NoGhosts, NotMergedYet

LEMMA TrackerInductive == TrackerIInv /\ [TrackerNext]_trackerVars => TrackerIInv'
<1> SUFFICES ASSUME TrackerIInv, [TrackerNext]_trackerVars PROVE TrackerIInv'
  OBVIOUS
<1>1. CASE TrackerNext
  BY <1>1, FrameKeeps DEF TrackerNext
<1>2. CASE UNCHANGED trackerVars
  BY <1>2 DEF trackerVars, TrackerIInv, TrackerTypeOK, NoGhosts, IdsAreNew, NotMergedYet
<1> QED
  BY <1>1, <1>2

LEMMA TrackerInitIInv == TrackerInit => TrackerIInv
<1> SUFFICES ASSUME TrackerInit PROVE TrackerIInv
  OBVIOUS
<1>1. mtList = <<>> /\ mergeable = <<>> /\ next_id = 0 /\ removed = {} /\ DOMAIN <<>> = {}
  BY DEF TrackerInit
<1>2. Pairs(DOMAIN mtList) = {}
  BY <1>1 DEF Pairs
<1> QED
  BY <1>1, <1>2, TrackerAssumption DEF TrackerIInv, TrackerTypeOK, NoGhosts, IdsAreNew, NotMergedYet

LEMMA TrackerInvariance == TrackerSpec => []TrackerIInv
BY TrackerInitIInv, TrackerInductive, PTL DEF TrackerSpec

(***************************************************************************)
(* The objects, their confidence and how mergeable they are keep their     *)
(* types; none of those tracked is without confidence.                     *)
(***************************************************************************)
THEOREM TrackerTypeCorrect == TrackerSpec => []TrackerTypeOK
<1>1. TrackerIInv => TrackerTypeOK
  BY DEF TrackerIInv
<1> QED
  BY <1>1, TrackerInvariance, PTL

(***************************************************************************)
(* Whatever is seen, and although operator[] makes merged objects again,   *)
(* none of them nor any that was given up is tracked after the frame, and  *)
(* each pair of tracked objects has its entry in mergeable.                *)
(***************************************************************************)
THEOREM MergedStayAway == TrackerSpec => []NoGhosts
<1>1. TrackerIInv => NoGhosts
  BY DEF TrackerIInv
<1> QED
  BY <1>1, TrackerInvariance, PTL

-----------------------------------------------------------------------------
(* The parts side by side *)

PartsIInv == FallIInv /\ T1IInv /\ AdapterIInv /\ LocIInv /\ TrackerIInv

LEMMA PartsInit == Init => PartsIInv
BY FallInitIInv, T1InitIInv, AdaptersInitIInv, LocInitIInv, TrackerInitIInv DEF Init, PartsIInv

LEMMA PartsInductive ==
  PartsIInv /\ [Next]_<<part, fallVars, t1Vars, adapterVars, locVars, trackerVars>> => PartsIInv'
<1> SUFFICES ASSUME PartsIInv, [Next]_<<part, fallVars, t1Vars, adapterVars, locVars, trackerVars>>
             PROVE  PartsIInv'
  OBVIOUS
<1>1. [FallNext]_fallVars /\ [T1Next]_t1Vars /\ [AdaptersNext]_adapterVars
  BY Zenon DEF Next
<1>2. [LocNext]_locVars /\ [TrackerNext]_trackerVars
  BY Zenon DEF Next
<1> QED
  BY <1>1, <1>2, FallInductive, T1Inductive, AdapterInductive, LocInductive, TrackerInductive,
     ReadingsAssumption DEF PartsIInv

(***************************************************************************)
(* All of the variables keep their types, for images that fit              *)
(* (ReadingsAssumption of MCSensing).                                      *)
(***************************************************************************)
THEOREM TypeCorrect == Spec => []TypeOK
<1>1. PartsIInv => TypeOK
  BY DEF PartsIInv, TypeOK, FallIInv, T1IInv, AdapterIInv, LocIInv, TrackerIInv
<1> QED
  BY <1>1, PartsInit, PartsInductive, PTL DEF Spec

=============================================================================
