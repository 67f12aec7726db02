------------------------- MODULE GameController_proofs -------------------------
(***************************************************************************)
(* Proofs about GameController, for every set of situations, every modulus *)
(* of the packet numbers and every robot of a team.                        *)
(*                                                                         *)
(* The inductive invariant adds to the types what each step of the receive *)
(* thread may rely on: between two packets the sample in gc_state and the  *)
(* member `state` agree on everything that EntersPlay looks at, and while  *)
(* they are compared a pending entry of this robot is visible to that      *)
(* comparison.                                                             *)
(***************************************************************************)
EXTENDS GameController, TLAPS

Endpoints ==
  /\ endpoint # "stranger"
  /\ hpc = "send" => target = "referee"

Listed == PlayerIdx < channel.players /\ PlayerIdx < state.players

HoldsPacket == rpc \in {"endpoint", "publish", "compare"} => gcData \in Situations

Agree(a, b) == a.state = b.state /\ a.penalized = b.penalized

Edges ==
  /\ rpc # "compare" => ~released /\ Agree(state, channel)
  /\ rpc = "compare" =>
       /\ channel = NewState(gcData)
       /\ released => EntersPlay(state, channel)

IInv ==
  /\ TypeOK
  /\ Endpoints
  /\ Listed
  /\ HoldsPacket
  /\ Edges

-----------------------------------------------------------------------------
(* The conversion of a packet. *)

(* The list of players has an entry for this robot, and fits. *)
LEMMA PlayerCountListed ==
  ASSUME NEW n \in Nat
  PROVE  PlayerCount(n) \in 1 .. MAX_NUM_PLAYERS /\ PlayerIdx < PlayerCount(n)
BY PlayerAssumption DEF PlayerCount, Larger, Smaller

(* Every situation becomes a GCState in which this robot is listed. *)
LEMMA NewStateType ==
  ASSUME NEW s \in Situations
  PROVE  NewState(s) \in GCStates /\ PlayerIdx < NewState(s).players
<1>1. s \in Situation
  BY GameControllerAssumption
<1>2. PlayerCount(s.perTeam) \in 1 .. MAX_NUM_PLAYERS /\ PlayerIdx < PlayerCount(s.perTeam)
  BY <1>1, PlayerCountListed DEF Situation
<1>3. MapSetPlay(s.setPlay) \in SecondaryStates
  BY <1>1 DEF Situation, MapSetPlay, SecondaryStates
<1>4. MapKicking(s.kicking) \in KickingTeams
  BY <1>1 DEF Situation, MapKicking, KickingTeams
<1> QED
  BY <1>1, <1>2, <1>3, <1>4 DEF NewState, GCStates, Situation, KickingTeams, GameStates

(* So is the state that the constructor publishes. *)
LEMMA InitialStateType ==
  ASSUME NEW short \in BOOLEAN
  PROVE  /\ InitialState(short) \in GCStates
         /\ PlayerIdx < InitialState(short).players
BY PlayerAssumption
   DEF InitialState, GCStates, GameStates, SecondaryStates, KickingTeams, Larger

(* Agreeing states have the same edges. *)
LEMMA AgreeingEdges ==
  ASSUME NEW a, NEW b, NEW c, Agree(a, b), EntersPlay(b, c)
  PROVE  EntersPlay(a, c)
BY DEF Agree, EntersPlay

(* operator== misses no edge. *)
LEMMA NoEdgeBetweenSame ==
  ASSUME NEW a, NEW b, SameState(a, b)
  PROVE  Agree(a, b) /\ ~EntersPlay(a, b)
BY DEF SameState, Agree, EntersPlay

-----------------------------------------------------------------------------

LEMMA InitIInv == Init => IInv
<1> SUFFICES ASSUME Init PROVE IInv
  OBVIOUS
<1>1. PICK short \in BOOLEAN : state = InitialState(short)
  BY DEF Init
<1>2. state \in GCStates /\ PlayerIdx < state.players /\ channel = state
  BY <1>1, InitialStateType DEF Init
<1>3. TypeOK
  <2>1. 0 \in Numbers
    BY GameControllerAssumption DEF Numbers
  <2> QED
    BY <1>2, <2>1 DEF Init, TypeOK
<1> QED
  BY <1>2, <1>3 DEF Init, IInv, Endpoints, Listed, HoldsPacket, Edges, Agree

(* The referee, other programs, the network and the destructor. *)
LEMMA OutsideIInv ==
  ASSUME IInv,
         \/ \E s \in Situations : RefereeActs(s)
         \/ SendPacket
         \/ StrangerSends
         \/ \E p \in network : LosePacket(p)
         \/ Destroy
  PROVE  IInv'
<1> USE DEF receiver, heartbeat, referee
<1>1. TypeOK'
  <2>1. CASE \E s \in Situations : RefereeActs(s)
    BY <2>1 DEF IInv, TypeOK, RefereeActs
  <2>2. CASE SendPacket
    <3>1. (nextNumber + 1) % PacketMod \in Numbers
      BY GameControllerAssumption DEF IInv, TypeOK, Numbers
    <3>2. [kind |-> "ours", number |-> nextNumber, says |-> situation] \in Packet
      BY DEF IInv, TypeOK, Packet
    <3> QED
      BY <2>2, <3>1, <3>2 DEF IInv, TypeOK, SendPacket, Arrives
  <2>3. CASE StrangerSends
    BY <2>3 DEF IInv, TypeOK, StrangerSends, Arrives, Packet
  <2>4. CASE \E p \in network : LosePacket(p)
    BY <2>4 DEF IInv, TypeOK, LosePacket
  <2>5. CASE Destroy
    BY <2>5 DEF IInv, TypeOK, Destroy
  <2> QED
    BY <2>1, <2>2, <2>3, <2>4, <2>5
<1>2. UNCHANGED <<receiver, endpoint, heartbeat>>
  BY DEF RefereeActs, SendPacket, StrangerSends, LosePacket, Destroy
<1> QED
  BY <1>1, <1>2 DEF IInv, Endpoints, Listed, HoldsPacket, Edges

LEMMA ReceiveIInv ==
  ASSUME IInv, NEW p \in network, NEW again \in BOOLEAN, Receive(p, again)
  PROVE  IInv'
<1> USE DEF heartbeat, referee
<1>1. TakesNumber(p) => p.number \in Numbers /\ p.says \in Situations
  BY DEF IInv, TypeOK, TakesNumber, Packet
<1>2. TypeOK' /\ HoldsPacket'
  BY <1>1 DEF IInv, TypeOK, HoldsPacket, Receive
<1>3. rpc # "compare" /\ rpc' # "compare"
  BY DEF Receive
<1> QED
  BY <1>2, <1>3 DEF IInv, Endpoints, Listed, Edges, Receive

LEMMA KeepSenderIInv == IInv /\ KeepSender => IInv'
BY DEF IInv, TypeOK, Endpoints, Listed, HoldsPacket, Edges, KeepSender, Senders, heartbeat, referee

LEMMA PublishIInv ==
  ASSUME IInv, Publish
  PROVE  IInv'
<1> USE DEF heartbeat, referee
<1>1. gcData \in Situations /\ channel' = NewState(gcData)
  BY DEF IInv, HoldsPacket, Publish
<1>2. channel' \in GCStates /\ PlayerIdx < channel'.players
  BY <1>1, NewStateType
<1>3. released' => EntersPlay(state, channel')
  <2>1. ~released /\ Agree(state, channel)
    BY DEF IInv, Edges, Publish
  <2>2. released' = (released \/ EntersPlay(channel, channel'))
    BY DEF Publish
  <2> QED
    BY <2>1, <2>2, AgreeingEdges
<1>4. TypeOK'
  BY <1>2 DEF IInv, TypeOK, Publish
<1>5. Edges'
  BY <1>1, <1>3 DEF Edges, Publish
<1> QED
  BY <1>1, <1>2, <1>4, <1>5 DEF IInv, Endpoints, Listed, HoldsPacket, Publish

LEMMA CompareIInv ==
  ASSUME IInv, Compare
  PROVE  IInv'
<1> USE DEF heartbeat, referee
<1> DEFINE new == NewState(gcData)
<1>1. channel = new /\ rpc = "compare" /\ rpc' = "receive" /\ channel' = channel
  BY DEF IInv, Edges, Compare
<1>2. state' \in {state, new} /\ released' \in BOOLEAN
  BY DEF Compare, IInv, TypeOK
<1>3. TypeOK'
  BY <1>1, <1>2 DEF IInv, TypeOK, Compare
<1>4. ~released' /\ Agree(state', channel')
  <2>1. CASE Changed(state, new)
    <3>1. state' = new /\ released' = (released /\ ~EntersPlay(state, new))
      BY <2>1 DEF Compare
    <3>2. released => EntersPlay(state, new)
      BY <1>1 DEF IInv, Edges
    <3> QED
      BY <1>1, <3>1, <3>2 DEF Agree
  <2>2. CASE ~Changed(state, new)
    <3>1. state' = state /\ released' = released
      BY <2>2 DEF Compare
    <3>2. Agree(state, new) /\ ~EntersPlay(state, new)
      BY <2>2, NoEdgeBetweenSame DEF Changed
    <3>3. released => EntersPlay(state, new)
      BY <1>1 DEF IInv, Edges
    <3> QED
      BY <1>1, <3>1, <3>2, <3>3
  <2> QED
    BY <2>1, <2>2
<1>5. Listed'
  BY <1>1, <1>2 DEF IInv, Listed
<1>6. Endpoints' /\ HoldsPacket'
  BY <1>1 DEF IInv, Endpoints, HoldsPacket, Compare
<1> QED
  BY <1>1, <1>3, <1>4, <1>5, <1>6 DEF IInv, Edges

LEMMA EndReceiveIInv == IInv /\ EndReceive => IInv'
BY DEF IInv, TypeOK, Endpoints, Listed, HoldsPacket, Edges, EndReceive, heartbeat, referee

LEMMA HeartbeatIInv == IInv /\ HeartbeatThread => IInv'
BY DEF IInv, TypeOK, Endpoints, Listed, HoldsPacket, Edges, HeartbeatThread, ReadEndpoint,
       SendHeartbeat, Sleep, EndHeartbeat, Senders, receiver, referee

LEMMA NextIInv == IInv /\ [Next]_vars => IInv'
<1> SUFFICES ASSUME IInv, [Next]_vars PROVE IInv'
  OBVIOUS
<1>1. CASE ReceiveThread
  BY <1>1, ReceiveIInv, KeepSenderIInv, PublishIInv, CompareIInv, EndReceiveIInv DEF ReceiveThread
<1>2. CASE HeartbeatThread
  BY <1>2, HeartbeatIInv
<1>3. CASE UNCHANGED vars
  BY <1>3 DEF IInv, TypeOK, Endpoints, Listed, HoldsPacket, Edges, vars, referee, receiver,
              heartbeat
<1> QED
  BY <1>1, <1>2, <1>3, OutsideIInv DEF Next

LEMMA Invariance == Spec => []IInv
<1> QED
  BY InitIInv, NextIInv, PTL DEF Spec

-----------------------------------------------------------------------------
(* The theorems. *)

(* Every variable of the client keeps its type, whatever arrives. *)
THEOREM TypeCorrect == Spec => []TypeOK
<1>1. IInv => TypeOK
  BY DEF IInv
<1> QED
  BY <1>1, Invariance, PTL

(***************************************************************************)
(* The map of obstacles is cleared on every published entry of this robot  *)
(* into play, although the callbacks see successive values of `state` that *)
(* operator== distinguishes and not successive samples.                    *)
(***************************************************************************)
THEOREM MapIsCleared == Spec => []MapClearedOnEntry
<1>1. IInv => MapClearedOnEntry
  BY DEF IInv, Edges, MapClearedOnEntry
<1> QED
  BY <1>1, Invariance, PTL

(* A robot of any index finds itself in the lists of players, whatever a packet claims. *)
THEOREM RobotIsListed == Spec => []PlayerListed
<1>1. IInv => PlayerListed
  BY DEF IInv, Listed, PlayerListed
<1> QED
  BY <1>1, Invariance, PTL

(* No heartbeat is sent to a sender whose packet was not accepted. *)
THEOREM HeartbeatsReachReferee == Spec => []HeartbeatToReferee
<1>1. IInv => HeartbeatToReferee
  BY DEF IInv, Endpoints, HeartbeatToReferee
<1> QED
  BY <1>1, Invariance, PTL

=============================================================================
