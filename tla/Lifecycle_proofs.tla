---------------------------- MODULE Lifecycle_proofs ----------------------------
(***************************************************************************)
(* Proofs about Lifecycle for any number of messages.                      *)
(*                                                                         *)
(* Seen from the sender, the samples of the channel are numbered: the k-th *)
(* is the k-th message of the strategy, and the one after the last is the  *)
(* sample of the destructor.  What has been sent, the sample in the        *)
(* sender's hands and the queue are consecutive pieces of these samples.   *)
(* That no message follows the destructor's sample is owed to the order of *)
(* the joins: the network ends after the vision thread.                    *)
(***************************************************************************)
EXTENDS Lifecycle, TLAPS

\* What each join has waited for, from the last one backwards.
PastGc == {"end camera", "returned", "terminated"}
PastReceiver == {"end gc", "join gc"} \cup PastGc
PastSender == {"join receiver"} \cup PastReceiver
PastWake == {"join sender"} \cup PastSender
PastEnd == {"wake sender"} \cup PastWake
PastMotion == {"end team com"} \cup PastEnd
PastVision == {"join motion"} \cup PastMotion

JoinedHaveEnded ==
  /\ main \in PastVision => vision = "ended"
  /\ main \in PastMotion => motion = "ended"
  /\ main \in PastSender => sender = "ended"
  /\ main \in PastReceiver => receiver = "ended"
  /\ main \in PastGc => gc = "ended"

BeforeNetwork == {"start gc", "start camera", "start team com"}

SenderStartsOnce == main \in BeforeNetwork => sender = "none"

EndIsKnown == tcShutdown <=> main \in PastEnd

Woken == IF main \in PastWake THEN 1 ELSE 0
Held == IF sender \in {"retest", "send"} THEN 1 ELSE 0

Sample(k) == IF k <= Len(published) THEN published[k] ELSE Wake

SentArePublished ==
  /\ Len(sent) <= Len(published)
  /\ \A i \in 1 .. Len(sent) : sent[i] = published[i]

HeldIsNext ==
  /\ sender = "retest" => holding = Sample(Len(sent) + 1)
  /\ sender = "send" => Len(sent) < Len(published) /\ holding = published[Len(sent) + 1]

QueueFollows ==
  sender # "ended" =>
    /\ Len(sent) + Held + Len(queue) = Len(published) + Woken
    /\ \A i \in 1 .. Len(queue) : queue[i] = Sample(Len(sent) + Held + i)

IInv ==
  /\ TypeOK
  /\ JoinedHaveEnded
  /\ SenderStartsOnce
  /\ EndIsKnown
  /\ SentArePublished
  /\ HeldIsNext
  /\ QueueFollows

-----------------------------------------------------------------------------
(* The samples *)

Samples == Messages \cup {Wake}

FlagsOK ==
  /\ referee \in BOOLEAN /\ running \in BOOLEAN
  /\ connector \in BOOLEAN /\ capturing \in BOOLEAN
  /\ newFrame \in BOOLEAN /\ newImage \in BOOLEAN
  /\ tcShutdown \in BOOLEAN /\ gcShutdown \in BOOLEAN
  /\ undefined \in BOOLEAN

LabelsOK ==
  /\ build \in {"G1", "T1"}
  /\ main \in MainLabels
  /\ vision \in {"none", "construct", "test", "next", "round", "leave", "ended"}
  /\ motion \in {"none", "test", "ended"}
  /\ receiver \in {"none", "open", "test", "recv", "calling", "ended"}
  /\ gc \in {"none", "test", "publish", "calling", "ended"}
  /\ camera \in {"none", "get", "wait", "publish", "ended"}
  /\ objects \in {"none", "alive", "gone"}

SamplesOK ==
  /\ sender \in {"none", "test", "next", "retest", "send", "ended"}
  /\ queue \in Seq(Messages \cup {Wake}) /\ sent \in Seq(Messages \cup {Wake})
  /\ holding \in Messages \cup {Wake, Nothing}
  /\ holding # Nothing <=> sender \in {"retest", "send"}
  /\ published \in Seq(Messages)

LEMMA TypeParts == TypeOK <=> FlagsOK /\ LabelsOK /\ SamplesOK
BY DEF TypeOK, FlagsOK, LabelsOK, SamplesOK

LEMMA SampleType ==
  ASSUME TypeOK, NEW k \in Nat \ {0}
  PROVE  Sample(k) \in Samples
<1>1. \A j \in 1 .. Len(published) : published[j] \in Messages
  BY DEF TypeOK
<1>2. Len(published) \in Nat
  BY DEF TypeOK
<1> QED
  BY <1>1, <1>2 DEF Sample, Samples

-----------------------------------------------------------------------------
(* The main thread *)

LEMMA InitIInv == Init => IInv
<1> SUFFICES ASSUME Init PROVE IInv
  OBVIOUS
<1>1. TypeOK
  <2>1. FlagsOK
    BY DEF Init, FlagsOK
  <2>2. LabelsOK
    BY DEF Init, LabelsOK, MainLabels
  <2>3. SamplesOK
    <3>1. queue = <<>> /\ sent = <<>> /\ published = <<>>
      BY DEF Init
    <3>2. \A S : <<>> \in Seq(S)
      OBVIOUS
    <3> QED
      BY <3>1, <3>2 DEF Init, SamplesOK
  <2> QED
    BY <2>1, <2>2, <2>3, TypeParts
<1>2. JoinedHaveEnded /\ SenderStartsOnce /\ EndIsKnown /\ Woken = 0 /\ Held = 0
  BY DEF Init, JoinedHaveEnded, SenderStartsOnce, EndIsKnown, Woken, Held, BeforeNetwork,
         PastVision, PastMotion, PastEnd, PastWake, PastSender, PastReceiver, PastGc
<1>3. Len(sent) = 0 /\ Len(queue) = 0 /\ Len(published) = 0
  BY DEF Init
<1>4. SentArePublished
  BY <1>3 DEF SentArePublished
<1>5. HeldIsNext
  BY DEF Init, HeldIsNext
<1>6. QueueFollows
  BY <1>2, <1>3 DEF QueueFollows
<1> QED
  BY <1>1, <1>2, <1>4, <1>5, <1>6 DEF IInv

-----------------------------------------------------------------------------
(* Types *)

LEMMA FlagsType ==
  ASSUME FlagsOK, [Next]_vars
  PROVE  FlagsOK'
<1> USE DEF FlagsOK, kinds, threads, cameraVars, teamComVars
<1>1. CASE MainStep
  <2>1. /\ UNCHANGED <<referee, running, newFrame, newImage, undefined>>
        /\ connector' \in {connector, TRUE, FALSE} /\ capturing' \in {capturing, TRUE, FALSE}
        /\ tcShutdown' \in {tcShutdown, TRUE} /\ gcShutdown' \in {gcShutdown, TRUE}
    BY <1>1
    DEF MainStep, StartGc, StartCamera, StartTeamCom, StartLoops, AwaitInterrupt,
        StopConnector, StopCamera, JoinVision, JoinMotion, EndTeamCom, WakeSender, JoinSender,
        JoinReceiver, EndGc, JoinGc, EndCamera, JustMain
  <2> QED
    BY <2>1
<1>2. CASE Interrupt
  BY <1>2 DEF Interrupt
<1>3. CASE VisionStep
  BY <1>3 DEF VisionStep, Construct, VisionTest, NextImage, Round, Leave, Calling
<1>4. CASE MotionStep
  BY <1>4 DEF MotionStep
<1>5. CASE SenderStep
  BY <1>5 DEF SenderStep, SenderTest, SenderNext, SenderRetest, SendBroadcast, SenderFrame
<1>6. CASE ReceiverStep
  BY <1>6 DEF ReceiverStep, OpenSocket, ReceiverTest, Receive, EndReceive, ReceiverFrame
<1>7. CASE GcStep
  BY <1>7 DEF GcStep, GcTest, PublishGcState, EndGcCalls, GcFrame, HasCamera
<1>8. CASE FrameArrives
  BY <1>8 DEF FrameArrives, CameraFrame
<1>9. CASE CameraStep
  BY <1>9 DEF CameraStep, GetImage, StaleFrame, MatchFrame, PublishFrame, CameraFrame
<1>10. CASE UNCHANGED vars
  BY <1>10 DEF vars
<1> QED
  BY <1>1, <1>2, <1>3, <1>4, <1>5, <1>6, <1>7, <1>8, <1>9, <1>10 DEF Next

LEMMA LabelsType ==
  ASSUME LabelsOK, [Next]_vars
  PROVE  LabelsOK'
<1> USE DEF LabelsOK, Runs, kinds, threads, cameraVars, teamComVars
<1>1. CASE MainStep
  BY <1>1
  DEF MainStep, StartGc, StartCamera, StartTeamCom, StartLoops, AwaitInterrupt, StopConnector,
      StopCamera, JoinVision, JoinMotion, EndTeamCom, WakeSender, JoinSender, JoinReceiver,
      EndGc, JoinGc, EndCamera, JustMain, At, MainLabels
<1>2. CASE Interrupt
  BY <1>2 DEF Interrupt
<1>3. CASE VisionStep
  BY <1>3 DEF VisionStep, Construct, VisionTest, NextImage, Round, Leave
<1>4. CASE MotionStep
  BY <1>4 DEF MotionStep
<1>5. CASE SenderStep
  BY <1>5 DEF SenderStep, SenderTest, SenderNext, SenderRetest, SendBroadcast, SenderFrame
<1>6. CASE ReceiverStep
  BY <1>6 DEF ReceiverStep, OpenSocket, ReceiverTest, Receive, EndReceive, ReceiverFrame
<1>7. CASE GcStep
  BY <1>7 DEF GcStep, GcTest, PublishGcState, EndGcCalls, GcFrame
<1>8. CASE FrameArrives
  BY <1>8 DEF FrameArrives, CameraFrame
<1>9. CASE CameraStep
  BY <1>9 DEF CameraStep, GetImage, StaleFrame, MatchFrame, PublishFrame, CameraFrame
<1>10. CASE UNCHANGED vars
  BY <1>10 DEF vars
<1> QED
  BY <1>1, <1>2, <1>3, <1>4, <1>5, <1>6, <1>7, <1>8, <1>9, <1>10 DEF Next

-----------------------------------------------------------------------------
(* The order of the joins *)

(* A join gives way only to a thread that has ended, and no thread begins   *)
(* again.                                                                   *)
LEMMA JoinsStay ==
  ASSUME JoinedHaveEnded, [Next]_vars
  PROVE  JoinedHaveEnded'
<1> USE DEF JoinedHaveEnded, PastVision, PastMotion, PastEnd, PastWake, PastSender,
            PastReceiver, PastGc, Runs, kinds, threads, cameraVars, teamComVars
<1>1. CASE MainStep
  BY <1>1
  DEF MainStep, StartGc, StartCamera, StartTeamCom, StartLoops, AwaitInterrupt, StopConnector,
      StopCamera, JoinVision, JoinMotion, EndTeamCom, WakeSender, JoinSender, JoinReceiver,
      EndGc, JoinGc, EndCamera, JustMain, At
<1>2. CASE Interrupt
  BY <1>2 DEF Interrupt
<1>3. CASE VisionStep
  BY <1>3 DEF VisionStep, Construct, VisionTest, NextImage, Round, Leave
<1>4. CASE MotionStep
  BY <1>4 DEF MotionStep
<1>5. CASE SenderStep
  BY <1>5 DEF SenderStep, SenderTest, SenderNext, SenderRetest, SendBroadcast, SenderFrame
<1>6. CASE ReceiverStep
  BY <1>6 DEF ReceiverStep, OpenSocket, ReceiverTest, Receive, EndReceive, ReceiverFrame
<1>7. CASE GcStep
  BY <1>7 DEF GcStep, GcTest, PublishGcState, EndGcCalls, GcFrame
<1>8. CASE FrameArrives
  BY <1>8 DEF FrameArrives, CameraFrame
<1>9. CASE CameraStep
  BY <1>9 DEF CameraStep, GetImage, StaleFrame, MatchFrame, PublishFrame, CameraFrame
<1>10. CASE UNCHANGED vars
  BY <1>10 DEF vars
<1> QED
  BY <1>1, <1>2, <1>3, <1>4, <1>5, <1>6, <1>7, <1>8, <1>9, <1>10 DEF Next

(* Steps outside the channel of broadcasts, the sender and the shutdown.    *)
LEMMA OutsideSteps ==
  ASSUME \/ StartGc \/ StartCamera \/ StartLoops \/ AwaitInterrupt
         \/ StopConnector \/ StopCamera \/ JoinVision \/ JoinMotion
         \/ JoinSender \/ JoinReceiver \/ EndGc \/ JoinGc \/ EndCamera
         \/ Interrupt \/ Construct \/ VisionTest \/ NextImage \/ Leave \/ MotionStep
         \/ ReceiverStep \/ GcStep \/ FrameArrives \/ CameraStep \/ UNCHANGED vars
  PROVE  /\ UNCHANGED <<tcShutdown, sender, queue, holding, sent, published>>
         /\ main' \in PastWake <=> main \in PastWake
         /\ main' \in PastEnd <=> main \in PastEnd
         /\ main' \in BeforeNetwork => main \in BeforeNetwork
<1> USE DEF BeforeNetwork, PastEnd, PastWake, PastSender, PastReceiver, PastGc, At, Runs, JustMain, kinds,
            threads, cameraVars, teamComVars
<1>1. CASE \/ StartGc \/ StartCamera \/ StartLoops \/ AwaitInterrupt
           \/ StopConnector \/ StopCamera \/ JoinVision \/ JoinMotion
           \/ JoinSender \/ JoinReceiver \/ EndGc \/ JoinGc \/ EndCamera
  BY <1>1
  DEF StartGc, StartCamera, StartLoops, AwaitInterrupt, StopConnector, StopCamera, JoinVision,
      JoinMotion, JoinSender, JoinReceiver, EndGc, JoinGc, EndCamera
<1>2. CASE Interrupt \/ Construct \/ VisionTest \/ NextImage \/ Leave \/ MotionStep
  BY <1>2 DEF Interrupt, Construct, VisionTest, NextImage, Leave, MotionStep
<1>3. CASE ReceiverStep
  BY <1>3 DEF ReceiverStep, OpenSocket, ReceiverTest, Receive, EndReceive, ReceiverFrame
<1>4. CASE GcStep
  BY <1>4 DEF GcStep, GcTest, PublishGcState, EndGcCalls, GcFrame
<1>5. CASE FrameArrives \/ CameraStep
  BY <1>5 DEF FrameArrives, CameraStep, GetImage, StaleFrame, MatchFrame, PublishFrame,
              CameraFrame
<1>6. CASE UNCHANGED vars
  BY <1>6 DEF vars
<1> QED
  BY <1>1, <1>2, <1>3, <1>4, <1>5, <1>6

-----------------------------------------------------------------------------
(* The samples *)

SampleIInv ==
  SamplesOK /\ SenderStartsOnce /\ EndIsKnown /\ SentArePublished /\ HeldIsNext /\ QueueFollows

LEMMA OutsideKeeps ==
  ASSUME SampleIInv,
         UNCHANGED <<tcShutdown, sender, queue, holding, sent, published>>,
         main' \in PastWake <=> main \in PastWake,
         main' \in PastEnd <=> main \in PastEnd,
         main' \in BeforeNetwork => main \in BeforeNetwork
  PROVE  SampleIInv'
<1>1. SamplesOK'
  BY DEF SampleIInv, SamplesOK
<1>2. SenderStartsOnce' /\ EndIsKnown'
  BY DEF SampleIInv, SenderStartsOnce, EndIsKnown
<1>3. SentArePublished' /\ HeldIsNext' /\ QueueFollows'
  BY DEF SampleIInv, SentArePublished, HeldIsNext, QueueFollows, Woken, Held, Sample
<1> QED
  BY <1>1, <1>2, <1>3 DEF SampleIInv

(* The sender begins with nothing in its hands. *)
LEMMA StartTeamComKeeps ==
  ASSUME SampleIInv, StartTeamCom
  PROVE  SampleIInv'
<1>1. /\ sender = "none" /\ sender' = "test" /\ main' \notin BeforeNetwork
      /\ main \notin PastEnd /\ main' \notin PastEnd
      /\ main \notin PastWake /\ main' \notin PastWake
      /\ UNCHANGED <<tcShutdown, queue, holding, sent, published>>
  BY DEF SampleIInv, SenderStartsOnce, StartTeamCom, At, Runs, BeforeNetwork, PastEnd,
         PastWake, PastSender, PastReceiver, PastGc
<1>2. SamplesOK'
  BY <1>1 DEF SampleIInv, SamplesOK
<1>3. SenderStartsOnce' /\ EndIsKnown'
  BY <1>1 DEF SampleIInv, SenderStartsOnce, EndIsKnown
<1>4. SentArePublished' /\ HeldIsNext' /\ QueueFollows'
  BY <1>1 DEF SampleIInv, SentArePublished, HeldIsNext, QueueFollows, Woken, Held, Sample
<1> QED
  BY <1>2, <1>3, <1>4 DEF SampleIInv

(* The vision thread has ended before the network does, so that the sample  *)
(* of ~TeamComNetwork is the last one.                                      *)
LEMMA EndTeamComKeeps ==
  ASSUME SampleIInv, EndTeamCom
  PROVE  SampleIInv'
<1>1. /\ main' \in PastEnd /\ main \notin PastEnd /\ main' \notin BeforeNetwork
      /\ main \notin PastWake /\ main' \notin PastWake
      /\ tcShutdown' = TRUE
      /\ UNCHANGED <<sender, queue, holding, sent, published>>
  BY DEF EndTeamCom, At, Runs, BeforeNetwork, PastEnd, PastWake, PastSender, PastReceiver,
         PastGc
<1>2. SamplesOK'
  BY <1>1 DEF SampleIInv, SamplesOK
<1>3. SenderStartsOnce' /\ EndIsKnown'
  BY <1>1 DEF SenderStartsOnce, EndIsKnown
<1>4. SentArePublished' /\ HeldIsNext' /\ QueueFollows'
  BY <1>1 DEF SampleIInv, SentArePublished, HeldIsNext, QueueFollows, Woken, Held, Sample
<1> QED
  BY <1>2, <1>3, <1>4 DEF SampleIInv

LEMMA WakeSenderKeeps ==
  ASSUME SampleIInv, WakeSender
  PROVE  SampleIInv'
<1>1. /\ main \in PastEnd /\ main' \in PastEnd /\ main' \notin BeforeNetwork
      /\ main \notin PastWake /\ main' \in PastWake
      /\ queue' = queue \o <<Wake>>
      /\ UNCHANGED <<tcShutdown, sender, holding, sent, published>>
  BY DEF WakeSender, WakeSample, At, Runs, BeforeNetwork, PastEnd, PastWake, PastSender,
         PastReceiver, PastGc
<1>2. /\ queue \in Seq(Samples) /\ queue' \in Seq(Samples)
      /\ Len(queue') = Len(queue) + 1
      /\ \A i \in 1 .. Len(queue) : queue'[i] = queue[i]
      /\ queue'[Len(queue) + 1] = Wake
  BY <1>1 DEF SampleIInv, SamplesOK, Samples
<1>3. SamplesOK'
  BY <1>1, <1>2 DEF SampleIInv, SamplesOK, Samples
<1>4. SenderStartsOnce' /\ EndIsKnown'
  BY <1>1 DEF SampleIInv, SenderStartsOnce, EndIsKnown
<1>5. SentArePublished' /\ HeldIsNext'
  BY <1>1 DEF SampleIInv, SentArePublished, HeldIsNext, Sample
<1>6. QueueFollows'
  <2> SUFFICES ASSUME sender # "ended" PROVE QueueFollows'
    BY <1>1 DEF QueueFollows
  <2>1. Held \in Nat /\ Held' = Held /\ Woken = 0 /\ Woken' = 1
    BY <1>1 DEF Held, Woken
  <2>2. Len(sent) \in Nat /\ Len(queue) \in Nat /\ Len(published) \in Nat
    BY DEF SampleIInv, SamplesOK
  <2>3. Len(sent) + Held + Len(queue) = Len(published)
    BY <2>1, <2>2 DEF SampleIInv, QueueFollows
  <2>4. Sample(Len(sent) + Held + Len(queue) + 1) = Wake
    BY <2>1, <2>2, <2>3 DEF Sample
  <2>5. \A i \in 1 .. Len(queue') : queue'[i] = Sample(Len(sent) + Held + i)
    BY <1>2, <2>1, <2>2, <2>4 DEF SampleIInv, QueueFollows
  <2> QED
    BY <1>1, <1>2, <2>1, <2>2, <2>3, <2>5 DEF QueueFollows, Sample
<1> QED
  BY <1>3, <1>4, <1>5, <1>6 DEF SampleIInv

(* A message of the strategy comes behind all others: the sample of the     *)
(* destructor is not there yet.                                             *)
LEMMA RoundKeeps ==
  ASSUME SampleIInv, JoinedHaveEnded, Round
  PROVE  SampleIInv'
<1>1. /\ main \notin PastEnd /\ main \notin PastWake /\ main' = main
      /\ UNCHANGED <<tcShutdown, sender, holding, sent>>
  BY DEF Round, Runs, JoinedHaveEnded, PastVision, PastMotion, PastEnd, PastWake
<1>2. CASE UNCHANGED <<queue, published>>
  BY <1>1, <1>2, OutsideKeeps
<1>3. CASE ~UNCHANGED <<queue, published>>
  <2> DEFINE m == Len(published) + 1
  <2>1. m \in Messages /\ queue' = Append(queue, m) /\ published' = Append(published, m)
    BY <1>3 DEF Round
  <2>2. /\ Len(sent) \in Nat /\ Len(queue) \in Nat /\ Len(published) \in Nat
        /\ queue \in Seq(Samples) /\ published \in Seq(Messages) /\ m \in Samples
    BY <2>1 DEF SampleIInv, SamplesOK, Samples
  <2>3. /\ queue' \in Seq(Samples) /\ published' \in Seq(Messages)
        /\ Len(queue') = Len(queue) + 1 /\ Len(published') = Len(published) + 1
        /\ \A i \in 1 .. Len(queue) : queue'[i] = queue[i]
        /\ \A i \in 1 .. Len(published) : published'[i] = published[i]
        /\ queue'[Len(queue) + 1] = m /\ published'[Len(published) + 1] = m
    BY <2>1, <2>2
  <2> HIDE DEF m
  <2>4. \A k \in 1 .. Len(published) : Sample(k)' = Sample(k)
    BY <2>2, <2>3 DEF Sample
  <2>5. SamplesOK'
    BY <1>1, <2>3 DEF SampleIInv, SamplesOK, Samples
  <2>6. SenderStartsOnce' /\ EndIsKnown'
    BY <1>1 DEF SampleIInv, SenderStartsOnce, EndIsKnown
  <2>7. SentArePublished'
    BY <1>1, <2>2, <2>3 DEF SampleIInv, SentArePublished
  <2>8. HeldIsNext'
    <3>1. sender = "retest" => Len(sent) + 1 \in 1 .. Len(published)
      BY <1>1, <2>2 DEF SampleIInv, QueueFollows, Held, Woken
    <3>2. sender = "send" => Len(sent) + 1 \in 1 .. Len(published)
      BY <2>2 DEF SampleIInv, HeldIsNext
    <3> QED
      BY <1>1, <2>2, <2>3, <2>4, <3>1, <3>2 DEF SampleIInv, HeldIsNext
  <2>9. QueueFollows'
    <3> SUFFICES ASSUME sender # "ended" PROVE QueueFollows'
      BY <1>1 DEF QueueFollows
    <3>1. Held \in Nat /\ Held' = Held /\ Woken = 0 /\ Woken' = 0
      BY <1>1 DEF Held, Woken
    <3>2. Len(sent) + Held + Len(queue) = Len(published)
      BY <2>2, <3>1 DEF SampleIInv, QueueFollows
    <3>3. \A i \in 1 .. Len(queue) : queue'[i] = Sample(Len(sent) + Held + i)'
      <4> SUFFICES ASSUME NEW i \in 1 .. Len(queue)
                   PROVE  queue'[i] = Sample(Len(sent) + Held + i)'
        OBVIOUS
      <4>1. Len(sent) + Held + i \in 1 .. Len(published)
        BY <2>2, <3>1, <3>2
      <4>2. Sample(Len(sent) + Held + i)' = Sample(Len(sent) + Held + i)
        BY <1>1, <2>3, <3>1, <4>1 DEF Sample
      <4>3. queue[i] = Sample(Len(sent) + Held + i)
        BY DEF SampleIInv, QueueFollows
      <4> QED
        BY <2>3, <4>2, <4>3
    <3>4. \A k \in {Len(published) + 1} : Sample(k)' = m
      BY <2>2, <2>3 DEF Sample
    <3>5. \A i \in 1 .. Len(queue') : queue'[i] = Sample(Len(sent) + Held + i)'
      <4> SUFFICES ASSUME NEW i \in {Len(queue) + 1}
                   PROVE  queue'[i] = Sample(Len(sent) + Held + i)'
        BY <2>2, <2>3, <3>3
      <4>1. Len(sent)' + Held' + i = Len(published) + 1
        BY <1>1, <2>2, <3>1, <3>2
      <4> QED
        BY <2>3, <3>4, <4>1
    <3>6. Len(sent)' + Held' + Len(queue') = Len(published') + Woken'
      BY <1>1, <2>2, <2>3, <3>1, <3>2
    <3> QED
      BY <3>5, <3>6 DEF QueueFollows
  <2> QED
    BY <2>5, <2>6, <2>7, <2>8, <2>9 DEF SampleIInv
<1> QED
  BY <1>1, <1>2, <1>3

LEMMA SenderTestKeeps ==
  ASSUME SampleIInv, SenderTest
  PROVE  SampleIInv'
<1>1. /\ sender = "test" /\ sender' \in {"next", "ended"}
      /\ UNCHANGED <<main, tcShutdown, queue, holding, sent, published>>
  BY DEF SenderTest, SenderFrame, Runs, threads
<1>2. SamplesOK'
  BY <1>1 DEF SampleIInv, SamplesOK
<1>3. SenderStartsOnce' /\ EndIsKnown'
  BY <1>1 DEF SampleIInv, SenderStartsOnce, EndIsKnown
<1>4. SentArePublished' /\ HeldIsNext' /\ QueueFollows'
  BY <1>1 DEF SampleIInv, SentArePublished, HeldIsNext, QueueFollows, Woken, Held, Sample
<1> QED
  BY <1>2, <1>3, <1>4 DEF SampleIInv

(* The head of the queue is the next sample. *)
LEMMA SenderNextKeeps ==
  ASSUME SampleIInv, SenderNext
  PROVE  SampleIInv'
<1>1. /\ sender = "next" /\ sender' = "retest" /\ queue # <<>>
      /\ holding' = Head(queue) /\ queue' = Tail(queue)
      /\ UNCHANGED <<main, tcShutdown, sent, published>>
  BY DEF SenderNext, SenderFrame, Runs, threads
<1>2. /\ queue \in Seq(Samples) /\ Len(sent) \in Nat /\ Len(published) \in Nat
      /\ Samples = Messages \cup {Wake}
  BY DEF SampleIInv, SamplesOK, Samples
<1>3. /\ Len(queue) \in Nat \ {0} /\ queue' \in Seq(Samples) /\ Len(queue') = Len(queue) - 1
      /\ \A i \in 1 .. Len(queue') : queue'[i] = queue[i + 1]
      /\ holding' = queue[1] /\ holding' \in Samples
  BY <1>1, <1>2
<1>4. Nothing \notin Samples
  BY LifecycleAssumption DEF Nothing, Samples, Messages, Wake
<1>5. SamplesOK'
  BY <1>1, <1>2, <1>3, <1>4 DEF SampleIInv, SamplesOK
<1>6. SenderStartsOnce' /\ EndIsKnown'
  BY <1>1 DEF SampleIInv, SenderStartsOnce, EndIsKnown
<1>7. SentArePublished'
  BY <1>1 DEF SampleIInv, SentArePublished
<1>8. /\ Held = 0 /\ Held' = 1 /\ Woken' = Woken /\ Woken \in Nat
      /\ Len(sent) + Len(queue) = Len(published) + Woken
      /\ \A i \in 1 .. Len(queue) : queue[i] = Sample(Len(sent) + i)
  BY <1>1, <1>2, <1>3 DEF SampleIInv, QueueFollows, Held, Woken
<1>9. HeldIsNext'
  BY <1>1, <1>2, <1>3, <1>8 DEF HeldIsNext, Sample
<1>10. QueueFollows'
  <2>1. Len(sent)' + Held' + Len(queue') = Len(published') + Woken'
    BY <1>1, <1>2, <1>3, <1>8
  <2>2. ASSUME NEW i \in 1 .. Len(queue')
        PROVE  queue'[i] = Sample(Len(sent) + Held + i)'
    <3>1. queue'[i] = Sample(Len(sent) + (i + 1))
      BY <1>3, <1>8
    <3>2. Len(sent) + (i + 1) = Len(sent)' + Held' + i
      BY <1>1, <1>2, <1>8
    <3> QED
      BY <1>1, <3>1, <3>2 DEF Sample
  <2> QED
    BY <2>1, <2>2 DEF QueueFollows
<1> QED
  BY <1>5, <1>6, <1>7, <1>9, <1>10 DEF SampleIInv

(* Before the shutdown there is nothing but messages to send. *)
LEMMA SenderRetestKeeps ==
  ASSUME SampleIInv, SenderRetest
  PROVE  SampleIInv'
<1>1. /\ sender = "retest"
      /\ \/ sender' = "ended" /\ holding' = Nothing
         \/ ~tcShutdown /\ sender' = "send" /\ holding' = holding
      /\ UNCHANGED <<main, tcShutdown, queue, sent, published>>
  BY DEF SenderRetest, SenderFrame, Runs, threads
<1>2. SamplesOK'
  BY <1>1 DEF SampleIInv, SamplesOK
<1>3. SenderStartsOnce' /\ EndIsKnown'
  BY <1>1 DEF SampleIInv, SenderStartsOnce, EndIsKnown
<1>4. SentArePublished'
  BY <1>1 DEF SampleIInv, SentArePublished
<1>5. CASE sender' = "ended"
  BY <1>2, <1>3, <1>4, <1>5 DEF SampleIInv, HeldIsNext, QueueFollows
<1>6. CASE ~tcShutdown /\ sender' = "send" /\ holding' = holding
  <2>1. Len(sent) \in Nat /\ Len(queue) \in Nat /\ Len(published) \in Nat
    BY DEF SampleIInv, SamplesOK
  <2>2. Woken = 0 /\ Held = 1 /\ Held' = 1 /\ Woken' = 0
    BY <1>1, <1>6 DEF SampleIInv, EndIsKnown, PastEnd, Woken, Held
  <2>3. Len(sent) + 1 + Len(queue) = Len(published)
    BY <1>1, <2>1, <2>2 DEF SampleIInv, QueueFollows
  <2>4. HeldIsNext'
    BY <1>1, <1>6, <2>1, <2>3 DEF SampleIInv, HeldIsNext, Sample
  <2>5. QueueFollows'
    BY <1>1, <2>2 DEF SampleIInv, QueueFollows, Sample
  <2> QED
    BY <1>2, <1>3, <1>4, <2>4, <2>5 DEF SampleIInv
<1> QED
  BY <1>1, <1>5, <1>6

LEMMA SendBroadcastKeeps ==
  ASSUME SampleIInv, SendBroadcast
  PROVE  SampleIInv'
<1>1. /\ sender = "send" /\ sender' = "test"
      /\ sent' = Append(sent, holding) /\ holding' = Nothing
      /\ UNCHANGED <<main, tcShutdown, queue, published>>
  BY DEF SendBroadcast, SenderFrame, Runs, threads
<1>2. /\ sent \in Seq(Samples) /\ holding \in Samples
      /\ Len(sent) \in Nat /\ Len(queue) \in Nat /\ Len(published) \in Nat
  BY <1>1 DEF SampleIInv, SamplesOK, Samples
<1>3. /\ sent' \in Seq(Samples) /\ Len(sent') = Len(sent) + 1
      /\ \A i \in 1 .. Len(sent) : sent'[i] = sent[i]
      /\ sent'[Len(sent) + 1] = holding
  BY <1>1, <1>2
<1>4. SamplesOK'
  BY <1>1, <1>3 DEF SampleIInv, SamplesOK, Samples
<1>5. SenderStartsOnce' /\ EndIsKnown'
  BY <1>1 DEF SampleIInv, SenderStartsOnce, EndIsKnown
<1>6. SentArePublished'
  BY <1>1, <1>2, <1>3 DEF SampleIInv, SentArePublished, HeldIsNext
<1>7. HeldIsNext'
  BY <1>1 DEF HeldIsNext
<1>8. QueueFollows'
  <2>1. Held = 1 /\ Held' = 0 /\ Woken' = Woken /\ Woken \in Nat
    BY <1>1 DEF Held, Woken
  <2> QED
    BY <1>1, <1>2, <1>3, <2>1 DEF SampleIInv, QueueFollows, Sample
<1> QED
  BY <1>4, <1>5, <1>6, <1>7, <1>8 DEF SampleIInv

-----------------------------------------------------------------------------
(* The inductive invariant *)

LEMMA NextIInv ==
  ASSUME IInv, [Next]_vars
  PROVE  IInv'
<1>1. SampleIInv /\ FlagsOK /\ LabelsOK
  BY TypeParts DEF IInv, SampleIInv
<1>2. SampleIInv'
  <2>1. CASE StartTeamCom
    BY <1>1, <2>1, StartTeamComKeeps
  <2>2. CASE EndTeamCom
    BY <1>1, <2>2, EndTeamComKeeps
  <2>3. CASE WakeSender
    BY <1>1, <2>3, WakeSenderKeeps
  <2>4. CASE Round
    BY <1>1, <2>4, RoundKeeps DEF IInv
  <2>5. CASE SenderStep
    BY <1>1, <2>5, SenderTestKeeps, SenderNextKeeps, SenderRetestKeeps, SendBroadcastKeeps
    DEF SenderStep
  <2>6. CASE \/ StartGc \/ StartCamera \/ StartLoops \/ AwaitInterrupt
             \/ StopConnector \/ StopCamera \/ JoinVision \/ JoinMotion
             \/ JoinSender \/ JoinReceiver \/ EndGc \/ JoinGc \/ EndCamera
             \/ Interrupt \/ Construct \/ VisionTest \/ NextImage \/ Leave \/ MotionStep
             \/ ReceiverStep \/ GcStep \/ FrameArrives \/ CameraStep \/ UNCHANGED vars
    BY <1>1, <2>6, OutsideSteps, OutsideKeeps
  <2> QED
    BY <2>1, <2>2, <2>3, <2>4, <2>5, <2>6 DEF Next, MainStep, VisionStep
<1>3. FlagsOK' /\ LabelsOK'
  BY <1>1, FlagsType, LabelsType
<1>4. TypeOK'
  BY <1>2, <1>3 DEF SampleIInv, TypeOK, FlagsOK, LabelsOK, SamplesOK
<1>5. JoinedHaveEnded'
  BY JoinsStay DEF IInv
<1> QED
  BY <1>2, <1>4, <1>5 DEF IInv, SampleIInv

LEMMA Invariance == Spec => []IInv
BY InitIInv, NextIInv, PTL DEF Spec

-----------------------------------------------------------------------------
(* The properties *)

(* Every variable keeps its type. *)
THEOREM TypeCorrect == Spec => []TypeOK
<1>1. IInv => TypeOK
  BY DEF IInv
<1> QED
  BY <1>1, Invariance, PTL

(* What the sending thread broadcasts is what the strategy published, in    *)
(* its order and each message once, for any number of messages; the sample  *)
(* with which ~TeamComNetwork wakes it is never broadcast.                  *)
THEOREM BroadcastInOrder == Spec => []SentInOrder
<1>1. IInv => SentInOrder
  <2> SUFFICES ASSUME IInv PROVE SentInOrder
    OBVIOUS
  <2>1. sent \in Seq(Samples) /\ published \in Seq(Messages)
    BY DEF IInv, TypeOK, Samples
  <2>2. SubSeq(sent, 1, Len(sent)) = SubSeq(published, 1, Len(sent))
    BY <2>1 DEF IInv, SentArePublished
  <2> QED
    BY <2>2 DEF IInv, SentArePublished, SentInOrder, IsPrefix
<1> QED
  BY <1>1, Invariance, PTL

NoThreadLeft ==
  main \in {"returned", "terminated"} =>
    vision = "ended" /\ motion = "ended" /\ sender = "ended" /\ receiver = "ended" /\ gc = "ended"

(* When main() returns, or dies in ~Camera, none of the threads that use    *)
(* its members and the objects of main.cpp is running any more.             *)
THEOREM EndsAlone == Spec => []NoThreadLeft
<1>1. IInv => NoThreadLeft
  BY DEF IInv, JoinedHaveEnded, NoThreadLeft, PastVision, PastMotion, PastEnd, PastWake,
         PastSender, PastReceiver, PastGc
<1> QED
  BY <1>1, Invariance, PTL
=============================================================================
