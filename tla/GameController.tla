----------------------------- MODULE GameController -----------------------------
(***************************************************************************)
(* The GameController client (game_controller/game_controller.cpp): a      *)
(* thread that receives the referee's packets, publishes what they say to  *)
(* gc_state and tells the subscribers of on_gc_state_change, and a thread  *)
(* that answers the sender of the last packet once a second.  One          *)
(* subscriber is modelled, NearObstacleTracker, whose map is cleared when  *)
(* this robot enters the game.                                             *)
(*                                                                         *)
(* The referee's program and the network are external: the referee changes *)
(* the situation at will and goes on sending packets whose number wraps    *)
(* around, the network loses, reorders and delays them and delivers some   *)
(* of them twice, and other programs send to the same port.                *)
(***************************************************************************)
EXTENDS GCState, FiniteSets

CONSTANTS
  Situations,    \* the situations of the game that occur
  PacketMod,     \* packetNumber counts modulo this: 256 in the code
  MaxInFlight    \* bound: packets in the network at the same time

ASSUME GameControllerAssumption ==
  /\ Situations \subseteq Situation
  /\ PacketMod \in Nat /\ PacketMod > 1
  /\ MaxInFlight \in Nat \ {0}

VARIABLES
  situation,        \* what the referee has entered
  nextNumber,       \* the number of the referee's next packet
  network,          \* the packets on their way
  running,          \* GameController::running
  rpc,              \* where the receive thread is
  gcData,           \* what the packet it works on says
  lastNumber,       \* last_packet_number, or NoNumber until has_last_packet
  state,            \* the member `state`
  channel,          \* the sample in gc_state
  endpoint,         \* heartbeat_endpoint: the sender it belongs to, or "none"
  hpc,              \* where the heartbeat thread is
  target,           \* current_endpoint of the heartbeat thread
  released          \* history: published that this robot enters play, map not yet cleared

referee == <<situation, nextNumber>>
receiver == <<rpc, gcData, lastNumber, state, channel, released>>
heartbeat == <<hpc, target>>
vars == <<referee, network, running, receiver, endpoint, heartbeat>>

NoNumber == -1
Numbers == 0 .. PacketMod - 1
Senders == {"referee", "stranger"}

(***************************************************************************)
(* Packets for this team say something; the others have a wrong header,    *)
(* version or length or are for other teams.                               *)
(***************************************************************************)
Packet ==
  [kind : {"ours"}, number : Numbers, says : Situations] \cup [kind : {"foreign"}]

Sender(p) == IF p.kind = "ours" THEN "referee" ELSE "stranger"

NoPacket == [kind |-> "none"]

TypeOK ==
  /\ situation \in Situations
  /\ nextNumber \in Numbers
  /\ network \subseteq Packet
  /\ running \in BOOLEAN
  /\ rpc \in {"receive", "endpoint", "publish", "compare", "ended"}
  /\ gcData \in Situations \cup {NoPacket}
  /\ lastNumber \in Numbers \cup {NoNumber}
  /\ state \in GCStates
  /\ channel \in GCStates
  /\ endpoint \in Senders \cup {"none"}
  /\ hpc \in {"read", "send", "sleep", "ended"}
  /\ target \in Senders \cup {"none"}
  /\ released \in BOOLEAN

Init ==
  /\ situation \in Situations
  /\ nextNumber = 0
  /\ network = {}
  /\ running = TRUE
  /\ rpc = "receive"
  /\ gcData = NoPacket
  /\ lastNumber = NoNumber
  /\ \E short \in BOOLEAN : state = InitialState(short)
  /\ channel = state
  /\ endpoint = "none"
  /\ hpc = "read"
  /\ target = "none"
  /\ released = FALSE

-----------------------------------------------------------------------------
(* Outside the program. *)

RefereeActs(s) ==
  /\ situation' = s
  /\ UNCHANGED <<nextNumber, network, running, receiver, endpoint, heartbeat>>

Arrives(p) == Cardinality(network) < MaxInFlight /\ network' = network \cup {p}

SendPacket ==
  /\ Arrives([kind |-> "ours", number |-> nextNumber, says |-> situation])
  /\ nextNumber' = (nextNumber + 1) % PacketMod
  /\ UNCHANGED <<situation, running, receiver, endpoint, heartbeat>>

(* The referee of another game, or another program. *)
StrangerSends ==
  /\ Arrives([kind |-> "foreign"])
  /\ UNCHANGED <<referee, running, receiver, endpoint, heartbeat>>

LosePacket(p) ==
  /\ p \in network
  /\ network' = network \ {p}
  /\ UNCHANGED <<referee, running, receiver, endpoint, heartbeat>>

(* ~GameController, called by the main thread; it then joins both threads. *)
Destroy ==
  /\ running
  /\ running' = FALSE
  /\ UNCHANGED <<referee, network, receiver, endpoint, heartbeat>>

-----------------------------------------------------------------------------
(* The receive thread. *)

(* Wrong: a number that is not larger than the last one is old. *)
IsNewPackage_larger(n) == n > lastNumber

IsNewPackage(n) == n # lastNumber

(* isNewPackage is asked last, and it keeps the number of a packet it accepts. *)
TakesNumber(p) == p.kind = "ours" /\ IsNewPackage(p.number)

(* Wrong: the sender is kept before the packet is looked at. *)
Receive_anySender(p, again) ==
  /\ rpc = "receive"
  /\ running
  /\ p \in network
  /\ network' = IF again THEN network ELSE network \ {p}
  /\ endpoint' = Sender(p)
  /\ IF TakesNumber(p)
     THEN lastNumber' = p.number /\ gcData' = p.says /\ rpc' = "endpoint"
     ELSE UNCHANGED <<lastNumber, gcData, rpc>>
  /\ UNCHANGED <<referee, running, state, channel, released, heartbeat>>

(***************************************************************************)
(* receive_from and the checks: a packet that fails one is dropped.  When  *)
(* the network delivers a packet twice, its copy is still on the way.      *)
(***************************************************************************)
Receive(p, again) ==
  /\ rpc = "receive"
  /\ running
  /\ p \in network
  /\ network' = IF again THEN network ELSE network \ {p}
  /\ IF TakesNumber(p)
     THEN lastNumber' = p.number /\ gcData' = p.says /\ rpc' = "endpoint"
     ELSE UNCHANGED <<lastNumber, gcData, rpc>>
  /\ UNCHANGED <<referee, running, state, channel, released, endpoint, heartbeat>>

(* Under heartbeat_mutex; the sender of a packet that passed the checks is the referee. *)
KeepSender ==
  /\ rpc = "endpoint"
  /\ rpc' = "publish"
  /\ endpoint' = "referee"
  /\ UNCHANGED <<referee, network, running, gcData, lastNumber, state, channel, released,
                 heartbeat>>

(* The edges on which NearObstacleTracker clears its map. *)
EntersPlay(old, new) ==
  \/ old.state \in {"Set", "Initial"} /\ new.state # old.state
  \/ old.penalized /\ ~new.penalized

Publish ==
  /\ rpc = "publish"
  /\ rpc' = "compare"
  /\ channel' = NewState(gcData)
  /\ released' = (released \/ EntersPlay(channel, channel'))
  /\ UNCHANGED <<referee, network, running, gcData, lastNumber, state, endpoint, heartbeat>>

(* Wrong: the states are compared without the players' penalties. *)
Changed_noPenalties(old, new) ==
  ~SameState(old, [new EXCEPT !.penalized = old.penalized])

Changed(old, new) == ~SameState(old, new)

(* on_gc_state_change calls the subscribers, then the new state becomes the old one. *)
Compare ==
  LET new == NewState(gcData)
  IN  /\ rpc = "compare"
      /\ rpc' = "receive"
      /\ gcData' = NoPacket
      /\ IF Changed(state, new)
         THEN /\ released' = (released /\ ~EntersPlay(state, new))
              /\ state' = new
         ELSE UNCHANGED <<released, state>>
      /\ UNCHANGED <<referee, network, running, lastNumber, channel, endpoint, heartbeat>>

(* Wrong: the flag is tested only when there is nothing to receive. *)
EndReceive_whenQuiet ==
  /\ rpc = "receive"
  /\ ~running
  /\ network = {}
  /\ rpc' = "ended"
  /\ UNCHANGED <<referee, network, running, gcData, lastNumber, state, channel, released,
                 endpoint, heartbeat>>

EndReceive ==
  /\ rpc = "receive"
  /\ ~running
  /\ rpc' = "ended"
  /\ UNCHANGED <<referee, network, running, gcData, lastNumber, state, channel, released,
                 endpoint, heartbeat>>

ReceiveThread ==
  \/ \E p \in network, again \in BOOLEAN : Receive(p, again)
  \/ KeepSender
  \/ Publish
  \/ Compare
  \/ EndReceive

-----------------------------------------------------------------------------
(* The heartbeat thread. *)

ReadEndpoint ==
  /\ hpc = "read"
  /\ running
  /\ target' = endpoint
  /\ hpc' = IF endpoint = "none" THEN "sleep" ELSE "send"
  /\ UNCHANGED <<referee, network, running, receiver, endpoint>>

SendHeartbeat ==
  /\ hpc = "send"
  /\ hpc' = "sleep"
  /\ UNCHANGED <<referee, network, running, receiver, endpoint, target>>

(* A second in steps of 10 ms, each of which tests the flag. *)
Sleep ==
  /\ hpc = "sleep"
  /\ hpc' = "read"
  /\ target' = "none"
  /\ UNCHANGED <<referee, network, running, receiver, endpoint>>

EndHeartbeat ==
  /\ hpc = "read"
  /\ ~running
  /\ hpc' = "ended"
  /\ UNCHANGED <<referee, network, running, receiver, endpoint, target>>

HeartbeatThread == ReadEndpoint \/ SendHeartbeat \/ Sleep \/ EndHeartbeat

-----------------------------------------------------------------------------

Next ==
  \/ \E s \in Situations : RefereeActs(s)
  \/ SendPacket
  \/ StrangerSends
  \/ \E p \in network : LosePacket(p)
  \/ Destroy
  \/ ReceiveThread
  \/ HeartbeatThread

(* A packet of the current situation that the receiver would take. *)
ReceiveNews ==
  \E p \in network : TakesNumber(p) /\ p.says = situation /\ Receive(p, FALSE)

(***************************************************************************)
(* Both threads keep running, the referee's program sends again and again, *)
(* and of the packets it sends the network may lose most, but not for ever *)
(* all of those whose number differs from the number taken last.           *)
(***************************************************************************)
Fairness ==
  /\ WF_vars(ReceiveThread)
  /\ WF_vars(HeartbeatThread)
  /\ SF_vars(SendPacket)
  /\ SF_vars(ReceiveNews)

Spec == Init /\ [][Next]_vars

FairSpec == Spec /\ Fairness

-----------------------------------------------------------------------------
(* Properties. *)

(***************************************************************************)
(* Once the situation stays what it is and no packet of an earlier one is  *)
(* on its way, gc_state comes to say just that and stays so: whatever was  *)
(* lost, came twice or came late before, and although numbers wrap around. *)
(***************************************************************************)
Converges ==
  \A s \in Situations :
    []running /\ <>[](situation = s /\ \A p \in network : p.kind = "ours" => p.says = s)
      => <>[](channel = NewState(s))

(***************************************************************************)
(* Whenever gc_state has shown that this robot enters play, the map of     *)
(* obstacles seen until then has been cleared before the next packet is    *)
(* taken: the edges that the callbacks see, between successive values of   *)
(* the member `state`, miss none of those between published samples.       *)
(***************************************************************************)
MapClearedOnEntry == rpc = "receive" => ~released

(***************************************************************************)
(* A subscriber may look this robot up in both lists of players, as        *)
(* NearObstacleTracker does with at(): what throws there ends the program. *)
(***************************************************************************)
PlayerListed ==
  /\ PlayerIdx < channel.players
  /\ rpc = "compare" => PlayerIdx < state.players

(***************************************************************************)
(* The heartbeat with the robot's pose goes to the referee of this game    *)
(* and to nobody else who sends to the port.                               *)
(***************************************************************************)
HeartbeatToReferee == hpc = "send" => target = "referee"

(* The destructor can join both threads although packets keep coming. *)
ThreadsJoin == ~running ~> (rpc = "ended" /\ hpc = "ended")

(***************************************************************************)
(* gc_state.h:44-56 describes a set play: `state` stays Playing, and       *)
(* setPlay_state goes through Initial, Ready and Set.                      *)
(***************************************************************************)
SetPlayPhases ==
  channel.secondary # "Normal" =>
    /\ channel.state = "Playing"
    /\ channel.setPlayState \in {"Initial", "Ready", "Set"}

=============================================================================
