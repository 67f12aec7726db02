---------------------------- MODULE FallDetectionG1 ----------------------------
(***************************************************************************)
(* htwk::Sensor of the G1 build (sensor/sensor.cpp): two DDS subscribers,  *)
(* for the low state and for the secondary IMU, each in a thread of its    *)
(* own, read the fall-down state from its channel, decide and publish it   *)
(* again, with no lock around the three.  The constructor publishes READY  *)
(* after the subscribers have started.                                     *)
(*                                                                         *)
(* The IMUs measure one posture; what is abstracted is the angles, and     *)
(* the side of the fall, which the G1 never reads.                         *)
(***************************************************************************)
EXTENDS Naturals

CONSTANT Imu     \* the IMUs with a subscriber

ASSUME ImuAssumption == Imu # {}

VARIABLES
  down,          \* whether the posture is beyond 0.6 rad
  fallen,        \* type in fallen_channel
  callback,      \* the callback each IMU's thread is in
  constructed,   \* whether the constructor has returned
  fresh          \* history: IMUs with a whole callback since the last change

fallVars == <<down, fallen, callback, constructed, fresh>>

\* recent: history, whether the callback began after the last change.
Callback ==
  [pc : {"idle", "sampled", "read"}, tilted : BOOLEAN, saw : {"READY", "FALLEN"},
   recent : BOOLEAN]

FallTypeOK ==
  /\ down \in BOOLEAN
  /\ fallen \in {"READY", "FALLEN"}
  /\ callback \in [Imu -> Callback]
  /\ constructed \in BOOLEAN
  /\ fresh \subseteq Imu

Idle == [pc |-> "idle", tilted |-> FALSE, saw |-> "READY", recent |-> FALSE]

FallInit ==
  /\ down \in BOOLEAN
  /\ fallen = "READY"
  /\ callback = [i \in Imu |-> Idle]
  /\ constructed = FALSE
  /\ fresh = {}

\* The history forgets: callbacks under way do not count as recent any more.
Disturb ==
  /\ callback' = [i \in Imu |-> [callback[i] EXCEPT !.recent = FALSE]]
  /\ fresh' = {}

\* External: the robot falls, or it is set upright.
ChangePosture ==
  /\ down' = ~down
  /\ Disturb
  /\ UNCHANGED <<fallen, constructed>>

Construct ==
  /\ ~constructed
  /\ constructed' = TRUE
  /\ fallen' = "READY"
  /\ Disturb
  /\ UNCHANGED down

\* lowHandler or secondaryImuHandler is called with a message.
ImuHandler(i) ==
  /\ callback[i].pc = "idle"
  /\ callback' = [callback EXCEPT ![i] =
                    [@ EXCEPT !.pc = "sampled", !.tilted = down, !.recent = TRUE]]
  /\ UNCHANGED <<down, fallen, constructed, fresh>>

ReadFallen(i) ==
  /\ callback[i].pc = "sampled"
  /\ callback' = [callback EXCEPT ![i] = [@ EXCEPT !.pc = "read", !.saw = fallen]]
  /\ UNCHANGED <<down, fallen, constructed, fresh>>

\* The type that follows from what the callback has read and measured.
(* Wrong: READY comes back only with a new fall. *)
UpdatedType_stays(saw, tilted) == IF tilted THEN "FALLEN" ELSE saw

UpdatedType(saw, tilted) ==
  CASE saw = "READY" /\ tilted -> "FALLEN"
    [] saw = "FALLEN" /\ ~tilted -> "READY"
    [] OTHER -> saw

\* Nothing is published when the type stays what was read.
PublishFallen(i) ==
  LET c == callback[i]
      type == UpdatedType(c.saw, c.tilted)
  IN /\ c.pc = "read"
     /\ fallen' = IF type # c.saw THEN type ELSE fallen
     /\ callback' = [callback EXCEPT ![i] = [@ EXCEPT !.pc = "idle"]]
     /\ fresh' = IF c.recent THEN fresh \cup {i} ELSE fresh
     /\ UNCHANGED <<down, constructed>>

FallNext ==
  \/ ChangePosture
  \/ Construct
  \/ \E i \in Imu : ImuHandler(i) \/ ReadFallen(i) \/ PublishFallen(i)

FallSpec == FallInit /\ [][FallNext]_fallVars

(***************************************************************************)
(* The two callbacks overwrite each other: one that began before the robot *)
(* fell can publish READY over the FALLEN of the other, and the motion     *)
(* thread then walks a robot that lies.  The loss is short: once each IMU  *)
(* has had one whole callback in the new posture, the channel is right and *)
(* stays so until the posture changes.                                     *)
(***************************************************************************)
FallSettles == fresh = Imu => fallen = (IF down THEN "FALLEN" ELSE "READY")

=============================================================================
