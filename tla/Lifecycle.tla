------------------------------- MODULE Lifecycle -------------------------------
(***************************************************************************)
(* main() from its first thread to its return: the threads it starts and   *)
(* those that its members start, their loops, the SIGINT, and the shutdown *)
(* in the order of the joins and destructors.  A thread is at a label, the *)
(* name of what it does next.                                              *)
(*                                                                         *)
(* The strategy and, in the T1 and K1 builds, the obstacle tracker live in *)
(* the vision thread.  They register callbacks that nobody removes, in     *)
(* vectors that other threads iterate over without a lock.  An iteration   *)
(* during a registration and a call into an object that is gone are        *)
(* undefined: the model notes them and stops.  A plain bool that another   *)
(* thread reads in a loop with locks in it is read anew in every round.    *)
(***************************************************************************)
EXTENDS Naturals, Sequences, SequencesExt

CONSTANTS MaxMessages   \* bound: messages that the strategy broadcasts

ASSUME LifecycleAssumption == MaxMessages \in Nat

Wake == 0               \* the sample that ~TeamComNetwork publishes
Messages == 1 .. MaxMessages
Nothing == MaxMessages + 1

VARIABLES
  build,      \* "G1", or "T1" for T1 and K1: with a camera
  referee,    \* whether gc_interface is a GameController
  running,    \* the flag that SIGINT resets
  main, vision, motion, sender, receiver, gc, camera,   \* labels of the threads
  connector,  \* whether the camera's connector runs
  capturing,  \* Camera::running
  newFrame,   \* the connector has a frame that get_image() has not seen
  newImage,   \* images has a sample that visionLoop has not seen
  tcShutdown, gcShutdown,
  queue,      \* tc_internal::broadcast
  holding,    \* what the sender took from it
  objects,    \* the objects of the vision thread: "none", "alive", "gone"
  undefined,  \* whether the behaviour is undefined
  published,  \* history: messages broadcast by the strategy
  sent        \* history: what went over the network

kinds == <<build, referee>>
cameraVars == <<camera, connector, capturing, newFrame>>
teamComVars == <<sender, tcShutdown, queue, holding, sent>>
threads == <<main, vision, motion, receiver, gc>>
vars == <<kinds, running, threads, cameraVars, newImage, teamComVars, gcShutdown,
          objects, undefined, published>>

MainLabels == {"start gc", "start camera", "start team com", "start loops", "wait",
  "stop connector", "stop camera", "join vision", "join motion", "end team com",
  "wake sender", "join sender", "join receiver", "end gc", "join gc", "end camera",
  "returned", "terminated"}

TypeOK ==
  /\ build \in {"G1", "T1"} /\ referee \in BOOLEAN /\ running \in BOOLEAN
  /\ main \in MainLabels
  /\ vision \in {"none", "construct", "test", "next", "round", "leave", "ended"}
  /\ motion \in {"none", "test", "ended"}
  /\ sender \in {"none", "test", "next", "retest", "send", "ended"}
  /\ receiver \in {"none", "open", "test", "recv", "calling", "ended"}
  /\ gc \in {"none", "test", "publish", "calling", "ended"}
  /\ camera \in {"none", "get", "wait", "publish", "ended"}
  /\ connector \in BOOLEAN /\ capturing \in BOOLEAN
  /\ newFrame \in BOOLEAN /\ newImage \in BOOLEAN
  /\ tcShutdown \in BOOLEAN /\ gcShutdown \in BOOLEAN
  /\ queue \in Seq(Messages \cup {Wake}) /\ sent \in Seq(Messages \cup {Wake})
  /\ holding \in Messages \cup {Wake, Nothing}
  /\ holding # Nothing <=> sender \in {"retest", "send"}
  /\ objects \in {"none", "alive", "gone"}
  /\ undefined \in BOOLEAN
  /\ published \in Seq(Messages)

Init ==
  /\ build \in {"G1", "T1"} /\ referee \in BOOLEAN /\ running = TRUE
  /\ main = "start gc"
  /\ vision = "none" /\ motion = "none" /\ sender = "none"
  /\ receiver = "none" /\ gc = "none" /\ camera = "none"
  /\ connector = FALSE /\ capturing = FALSE /\ newFrame = FALSE /\ newImage = FALSE
  /\ tcShutdown = FALSE /\ gcShutdown = FALSE
  /\ queue = <<>> /\ holding = Nothing
  /\ objects = "none" /\ undefined = FALSE
  /\ published = <<>> /\ sent = <<>>

-----------------------------------------------------------------------------
(* The main thread *)

Runs(thread, label) == ~undefined /\ thread = label

At(here, there) == Runs(main, here) /\ main' = there

HasCamera == build = "T1"

StartGc ==
  /\ At("start gc", IF HasCamera THEN "start camera" ELSE "start team com")
  /\ gc' = "test"
  /\ UNCHANGED <<kinds, running, vision, motion, receiver, cameraVars, newImage, teamComVars,
                 gcShutdown, objects, undefined, published>>

StartCamera ==
  /\ At("start camera", "start team com")
  /\ connector' = TRUE /\ capturing' = TRUE /\ camera' = "get"
  /\ UNCHANGED <<kinds, running, vision, motion, receiver, gc, newFrame, newImage, teamComVars,
                 gcShutdown, objects, undefined, published>>

StartTeamCom ==
  /\ At("start team com", "start loops")
  /\ sender' = "test" /\ receiver' = "open"
  /\ UNCHANGED <<kinds, running, vision, motion, gc, cameraVars, newImage, tcShutdown, queue,
                 holding, sent, gcShutdown, objects, undefined, published>>

StartLoops ==
  /\ At("start loops", "wait")
  /\ vision' = "construct" /\ motion' = "test"
  /\ UNCHANGED <<kinds, running, receiver, gc, cameraVars, newImage, teamComVars,
                 gcShutdown, objects, undefined, published>>

\* A step of main that changes nothing but its label.
JustMain == UNCHANGED <<kinds, running, vision, motion, receiver, gc, cameraVars, newImage,
                        teamComVars, gcShutdown, objects, undefined, published>>

AwaitInterrupt ==
  /\ ~running
  /\ At("wait", IF HasCamera THEN "stop connector" ELSE "join vision")
  /\ JustMain

\* Booster_Camera::stop joins its own two threads: no frame comes after it.
StopConnector ==
  /\ At("stop connector", "stop camera")
  /\ connector' = FALSE
  /\ UNCHANGED <<kinds, running, vision, motion, receiver, gc, camera, capturing, newFrame,
                 newImage, teamComVars, gcShutdown, objects, undefined, published>>

StopCamera ==
  /\ At("stop camera", "join vision")
  /\ capturing' = FALSE
  /\ UNCHANGED <<kinds, running, vision, motion, receiver, gc, camera, connector, newFrame,
                 newImage, teamComVars, gcShutdown, objects, undefined, published>>

JoinVision == vision = "ended" /\ At("join vision", "join motion") /\ JustMain
JoinMotion == motion = "ended" /\ At("join motion", "end team com") /\ JustMain

\* ~TeamComNetwork resets the flag and then wakes the sender.
EndTeamCom ==
  /\ At("end team com", "wake sender")
  /\ tcShutdown' = TRUE
  /\ UNCHANGED <<kinds, running, vision, motion, receiver, gc, cameraVars, newImage, sender, queue,
                 holding, sent, gcShutdown, objects, undefined, published>>

(* Wrong: the sender is not woken. *)
WakeSample_none == <<>>

WakeSample == <<Wake>>

WakeSender ==
  /\ At("wake sender", "join sender")
  /\ queue' = queue \o WakeSample
  /\ UNCHANGED <<kinds, running, vision, motion, receiver, gc, cameraVars, newImage, sender,
                 tcShutdown, holding, sent, gcShutdown, objects, undefined, published>>

JoinSender == sender = "ended" /\ At("join sender", "join receiver") /\ JustMain
JoinReceiver == receiver = "ended" /\ At("join receiver", "end gc") /\ JustMain

EndGc ==
  /\ At("end gc", "join gc")
  /\ gcShutdown' = TRUE
  /\ UNCHANGED <<kinds, running, vision, motion, receiver, gc, cameraVars, newImage, teamComVars,
                 objects, undefined, published>>

JoinGc == gc = "ended" /\ At("join gc", "end camera") /\ JustMain

\* ~Camera destroys a thread that nobody joined: std::terminate.
EndCamera == At("end camera", IF HasCamera THEN "terminated" ELSE "returned") /\ JustMain

MainStep ==
  \/ StartGc \/ StartCamera \/ StartTeamCom \/ StartLoops \/ AwaitInterrupt
  \/ StopConnector \/ StopCamera \/ JoinVision \/ JoinMotion
  \/ EndTeamCom \/ WakeSender \/ JoinSender \/ JoinReceiver \/ EndGc \/ JoinGc \/ EndCamera

Interrupt ==
  /\ ~undefined /\ running /\ running' = FALSE
  /\ UNCHANGED <<kinds, threads, cameraVars, newImage, teamComVars, gcShutdown,
                 objects, undefined, published>>

-----------------------------------------------------------------------------
(* The loops of main.cpp *)

\* The threads that are iterating over a vector of callbacks; the G1 registers
\* none for the GameController.
Calling == receiver = "calling" \/ (HasCamera /\ gc = "calling")

Construct ==
  /\ Runs(vision, "construct") /\ vision' = "test"
  /\ objects' = "alive"
  /\ undefined' = Calling
  /\ UNCHANGED <<kinds, running, main, motion, receiver, gc, cameraVars, newImage, teamComVars,
                 gcShutdown, published>>

VisionTest ==
  /\ Runs(vision, "test")
  /\ vision' = IF ~running THEN "leave" ELSE IF HasCamera THEN "next" ELSE "round"
  /\ UNCHANGED <<kinds, running, main, motion, receiver, gc, cameraVars, newImage, teamComVars,
                 gcShutdown, objects, undefined, published>>

\* image_subscriber.next() of visionLoop.
NextImage ==
  /\ Runs(vision, "next") /\ newImage
  /\ vision' = "round" /\ newImage' = FALSE
  /\ UNCHANGED <<kinds, running, main, motion, receiver, gc, cameraVars, teamComVars,
                 gcShutdown, objects, undefined, published>>

\* Of a round only the message of TeamComManager::send is kept.
Round ==
  /\ Runs(vision, "round") /\ vision' = "test"
  /\ \/ UNCHANGED <<queue, published>>
     \/ LET m == Len(published) + 1
        IN /\ m \in Messages
           /\ queue' = Append(queue, m) /\ published' = Append(published, m)
  /\ UNCHANGED <<kinds, running, main, motion, receiver, gc, cameraVars, newImage, sender,
                 tcShutdown, holding, sent, gcShutdown, objects, undefined>>

Leave ==
  /\ Runs(vision, "leave") /\ vision' = "ended"
  /\ objects' = "gone"
  /\ undefined' = Calling
  /\ UNCHANGED <<kinds, running, main, motion, receiver, gc, cameraVars, newImage, teamComVars,
                 gcShutdown, published>>

VisionStep == Construct \/ VisionTest \/ NextImage \/ Round \/ Leave

MotionStep ==
  /\ Runs(motion, "test") /\ ~running
  /\ motion' = "ended"
  /\ UNCHANGED <<kinds, running, main, vision, receiver, gc, cameraVars, newImage, teamComVars,
                 gcShutdown, objects, undefined, published>>

-----------------------------------------------------------------------------
(* TeamComNetwork's threads *)

SenderFrame == UNCHANGED <<kinds, running, threads, cameraVars, newImage, tcShutdown, gcShutdown,
                           objects, undefined, published>>

SenderTest ==
  /\ Runs(sender, "test")
  /\ sender' = IF tcShutdown THEN "ended" ELSE "next"
  /\ UNCHANGED <<queue, holding, sent>> /\ SenderFrame

SenderNext ==
  /\ Runs(sender, "next") /\ queue # <<>>
  /\ sender' = "retest" /\ holding' = Head(queue) /\ queue' = Tail(queue)
  /\ UNCHANGED sent /\ SenderFrame

(* Wrong: the flag is not read again after the wait. *)
SenderRetest_not ==
  /\ Runs(sender, "retest")
  /\ sender' = "send"
  /\ UNCHANGED <<queue, holding, sent>> /\ SenderFrame

SenderRetest ==
  /\ Runs(sender, "retest")
  /\ IF tcShutdown
     THEN sender' = "ended" /\ holding' = Nothing
     ELSE sender' = "send" /\ UNCHANGED holding
  /\ UNCHANGED <<queue, sent>> /\ SenderFrame

SendBroadcast ==
  /\ Runs(sender, "send") /\ sender' = "test"
  /\ sent' = Append(sent, holding) /\ holding' = Nothing
  /\ UNCHANGED queue /\ SenderFrame

SenderStep == SenderTest \/ SenderNext \/ SenderRetest \/ SendBroadcast

ReceiverFrame == UNCHANGED <<kinds, running, main, vision, motion, gc, cameraVars, newImage,
                             teamComVars, gcShutdown, objects, published>>

\* Without a socket the thread ends at once.
OpenSocket ==
  /\ Runs(receiver, "open") /\ receiver' \in {"test", "ended"}
  /\ UNCHANGED undefined /\ ReceiverFrame

ReceiverTest ==
  /\ Runs(receiver, "test")
  /\ receiver' = IF tcShutdown THEN "ended" ELSE "recv"
  /\ UNCHANGED undefined /\ ReceiverFrame

\* A time-out, an error, a stranger or a broken message; or a message for the
\* callbacks.
Receive ==
  /\ Runs(receiver, "recv")
  /\ \/ receiver' = "test" /\ UNCHANGED undefined
     \/ receiver' = "calling" /\ undefined' = (objects = "gone")
  /\ ReceiverFrame

EndReceive ==
  /\ Runs(receiver, "calling") /\ receiver' = "test"
  /\ UNCHANGED undefined /\ ReceiverFrame

ReceiverStep == OpenSocket \/ ReceiverTest \/ Receive \/ EndReceive

-----------------------------------------------------------------------------
(* AlwaysPlayGC, or the receiving thread of a GameController *)

GcFrame == UNCHANGED <<kinds, running, main, vision, motion, receiver, cameraVars, newImage,
                       teamComVars, gcShutdown, objects, published>>

GcTest ==
  /\ Runs(gc, "test")
  /\ gc' = IF gcShutdown THEN "ended" ELSE "publish"
  /\ UNCHANGED undefined /\ GcFrame

\* Only the GameController calls on_gc_state_change, when something changed.
PublishGcState ==
  /\ Runs(gc, "publish")
  /\ \/ gc' = "test" /\ UNCHANGED undefined
     \/ referee /\ gc' = "calling" /\ undefined' = (HasCamera /\ objects = "gone")
  /\ GcFrame

EndGcCalls ==
  /\ Runs(gc, "calling") /\ gc' = "test"
  /\ UNCHANGED undefined /\ GcFrame

GcStep == GcTest \/ PublishGcState \/ EndGcCalls

-----------------------------------------------------------------------------
(* The camera of the T1 and K1 *)

CameraFrame == UNCHANGED <<kinds, running, threads, connector, capturing, teamComVars, gcShutdown,
                           objects, published>>

FrameArrives ==
  /\ ~undefined /\ connector /\ ~newFrame
  /\ newFrame' = TRUE
  /\ UNCHANGED <<camera, newImage, undefined>> /\ CameraFrame

\* A connector that has stopped returns its last frame again; there may be none.
StaleFrame == camera' = "publish" /\ undefined' \in BOOLEAN

\* get_image() tests the connector, then waits for a frame.
GetImage ==
  /\ Runs(camera, "get")
  /\ IF connector THEN camera' = "wait" /\ UNCHANGED undefined ELSE StaleFrame
  /\ UNCHANGED <<newFrame, newImage>> /\ CameraFrame

\* It looks again while colour and depth are of different times.
MatchFrame ==
  /\ Runs(camera, "wait") /\ newFrame
  /\ newFrame' = FALSE
  /\ \/ camera' = "publish" /\ UNCHANGED undefined
     \/ camera' = "get" /\ UNCHANGED undefined
  /\ UNCHANGED newImage /\ CameraFrame

\* Nothing is published before the first sample of the joints.
PublishFrame ==
  /\ Runs(camera, "publish")
  /\ newImage' \in {newImage, TRUE}
  /\ camera' = IF capturing THEN "get" ELSE "ended"
  /\ UNCHANGED <<newFrame, undefined>> /\ CameraFrame

CameraStep == GetImage \/ MatchFrame \/ PublishFrame

-----------------------------------------------------------------------------
Next ==
  \/ MainStep \/ Interrupt \/ VisionStep \/ MotionStep \/ SenderStep \/ ReceiverStep
  \/ GcStep \/ FrameArrives \/ CameraStep

\* Every thread is scheduled, recvfrom times out after a second, rounds end;
\* neither a SIGINT nor a frame need ever come.
Fairness ==
  /\ WF_vars(MainStep) /\ WF_vars(VisionStep) /\ WF_vars(MotionStep)
  /\ WF_vars(SenderStep) /\ WF_vars(ReceiverStep) /\ WF_vars(GcStep) /\ WF_vars(CameraStep)

Spec == Init /\ [][Next]_vars /\ Fairness

-----------------------------------------------------------------------------
(***************************************************************************)
(* The queue between strategy and network: what is broadcast to the team   *)
(* is what the strategy published, in its order and each message once; the *)
(* sample that only wakes the sender at the end is never broadcast.        *)
(***************************************************************************)
SentInOrder == IsPrefix(sent, published)

(***************************************************************************)
(* After a SIGINT the G1's main returns: no thread waits for what will not *)
(* come, and each join and destructor gets its turn, as long as no message *)
(* of the team meets a strategy that is being made or already gone.        *)
(***************************************************************************)
MainReturns == (build = "G1" /\ ~running) ~> (main = "returned" \/ undefined)

(***************************************************************************)
(* main.cpp before camera->stop(): "First stop the camera to prevent       *)
(* threads from blocking on new images".  After it the vision thread of a  *)
(* T1 or K1 should end.                                                    *)
(***************************************************************************)
CameraStopFrees == (main = "join vision") ~> (vision = "ended" \/ undefined)
=============================================================================
