---------------------------- MODULE StrikerElection ----------------------------
(***************************************************************************)
(* How the robots of a team find their striker while the game is in play:  *)
(* TeamComManager (team_com/manager) and                                   *)
(* RobocupStrategy::determineStriker on each of them.  A robot that wants  *)
(* the ball puts the time of its request into its team messages; the       *)
(* newest request of a robot that sees the ball wins.                      *)
(*                                                                         *)
(* Each robot runs proceed() once per tick, in any order; the network is   *)
(* external and loses, delays and reorders messages.  A robot's clock may  *)
(* run ahead.  Poses and balls are kept only as the walking time to the    *)
(* ball that follows from them, NoBall for a robot that is fallen or has   *)
(* not seen the ball for 2 s.  Up to tick Chaos the balls, the penalties   *)
(* and the network do what they like; then they keep quiet.                *)
(***************************************************************************)
EXTENDS Naturals, FiniteSets

CONSTANTS
  NumRobots,    \* the robots are 0 .. NumRobots - 1
  Times,        \* the walking times that occur
  NoBall,       \* no ball of sufficient quality
  Margin,       \* "clearly better": 0.75 s, or a tenth
  Skew,         \* Skew[r]: how far the clock of r is ahead, in ticks
  SendPause,    \* the 200 ms between messages
  Outdated,     \* the 500 ms by which an older message may be late
  TTL,          \* the 5 s for which a message counts
  MaxDelay,     \* bound: the ticks a message is under way
  Chaos,        \* bound: the ticks in which anything may happen
  Settle,       \* the ticks after which the team has to agree
  MaxTime       \* bound: the last tick

Robot == 0 .. NumRobots - 1

ASSUME ElectionAssumption ==
  /\ NumRobots \in Nat \ {0}
  /\ Times \subseteq Nat
  /\ NoBall \notin Times
  /\ Margin \in Nat \ {0}
  /\ Skew \in [Robot -> Nat]
  /\ SendPause \in Nat /\ Outdated \in Nat /\ TTL \in Nat /\ MaxDelay \in Nat
  /\ Chaos \in Nat /\ Chaos >= SendPause /\ Settle \in Nat
  /\ MaxTime \in Nat /\ MaxTime > SendPause

Nobody == NumRobots
None == [sent |-> 0]

VARIABLES
  now,           \* the tick
  ran,           \* the robots that have run proceed() in this tick
  penalized,     \* the robots the referee has taken out
  walk,          \* walk[r]: the walking time of r to its ball, or NoBall
  request,       \* striker_request_time_us of each robot, 0 without a request
  striker,       \* cur_striker of each robot
  lastSend,      \* last_team_com_send of each robot
  heard,         \* heard[r][s]: what TeamComManager of r has from s, or None
  network        \* the messages under way, with their addressee

vars == <<now, ran, penalized, walk, request, striker, lastSend, heard, network>>

Message == [sent : Nat \ {0}, request : Nat, walk : Times \cup {NoBall}]

TypeOK ==
  /\ now \in 1 .. MaxTime
  /\ ran \subseteq Robot
  /\ penalized \subseteq Robot
  /\ walk \in [Robot -> Times \cup {NoBall}]
  /\ request \in [Robot -> Nat]
  /\ striker \in [Robot -> Robot \cup {Nobody}]
  /\ lastSend \in [Robot -> Nat]
  /\ heard \in [Robot -> [Robot -> Message \cup {None}]]
  /\ network \subseteq [from : Robot, to : Robot, data : Message]

(* Play begins.  Each robot has sent its last message at some time within the pause, but none *)
(* was heard of.                                                                          *)
Init ==
  /\ now = SendPause + 1
  /\ ran = {}
  /\ penalized \in SUBSET Robot
  /\ walk \in [Robot -> Times \cup {NoBall}]
  /\ request = [r \in Robot |-> 0]
  /\ striker = [r \in Robot |-> Nobody]
  /\ \E since \in [Robot -> 0 .. SendPause] : lastSend = [r \in Robot |-> since[r] + Skew[r]]
  /\ heard = [r \in Robot |-> [s \in Robot |-> None]]
  /\ network = {}

Quiet == now > Chaos

-----------------------------------------------------------------------------
(* proceed() of robot r at the time t of its own clock, its walking time being w. *)

(* robots: the team mates heard of lately and this robot, none of them penalized. *)
Robots(r, t) ==
  {s \in Robot \ penalized :
     s = r \/ (heard[r][s] # None /\ heard[r][s].sent + TTL >= t)}

Own(r, t, w) == [sent |-> t, request |-> request[r], walk |-> w]

(* Wrong: the first robot with a request stays the striker. *)
NewestRequest_first(team, data) ==
  LET asking == {s \in team : data[s].request > 0}
  IN  IF asking = {} THEN Nobody ELSE CHOOSE s \in asking : \A o \in asking : s <= o

(* The robot with the newest request; of equal ones the first in the map. *)
NewestRequest(team, data) ==
  LET asking == {s \in team : data[s].request > 0}
      newest == {s \in asking : \A o \in asking : data[o].request <= data[s].request}
  IN  IF newest = {} THEN Nobody ELSE CHOOSE s \in newest : \A o \in newest : s <= o

(* Wrong: a robot asks whenever it is not slower than the striker. *)
ShouldAsk_notSlower(r, team, data, current) ==
  /\ data[r].walk # NoBall
  /\ current \in team => data[current].walk >= data[r].walk

(* Wrong: the margin counts twice. *)
ShouldAsk_muchBetter(r, team, data, current) ==
  /\ data[r].walk # NoBall
  /\ current \in team => data[current].walk > data[r].walk + Margin + Margin
  /\ \A s \in team : data[s].walk # NoBall => data[r].walk < data[s].walk + Margin

(* Clearly better than the striker, and not much worse than the best. *)
ShouldAsk(r, team, data, current) ==
  /\ data[r].walk # NoBall
  /\ current \in team => data[current].walk > data[r].walk + Margin
  /\ \A s \in team : data[s].walk # NoBall => data[r].walk < data[s].walk + Margin

(* Wrong: the index that stands for nobody is taken for a robot's. *)
Current_any(newest, data) ==
  CASE newest = Nobody -> 255
    [] newest # Nobody -> IF data[newest].walk # NoBall THEN newest ELSE Nobody

(* The one who asked last is the striker only while its ball is good. *)
Current(newest, data) ==
  IF newest # Nobody /\ data[newest].walk # NoBall THEN newest ELSE Nobody

(* Wrong: nobody gives up an outdated request. *)
KeptRequest_always(r, current) == request[r]

(* handlePenaltyReturn, and in play() the reset when there is a better striker. *)
KeptRequest(r, current) ==
  IF r \notin penalized /\ current \in {r, Nobody} THEN request[r] ELSE 0

(* determineStriker within play(): the striker and the request that r ends up with. *)
DetermineStriker(r, t, w) ==
  LET team == Robots(r, t)
      data == [s \in team |-> IF s = r THEN Own(r, t, w) ELSE heard[r][s]]
      newest == NewestRequest(team, data)
      time == IF newest = Nobody THEN 0 ELSE data[newest].request
      current == Current(newest, data)
  IN  IF current # r /\ t > time /\ r \in team /\ ShouldAsk(r, team, data, current)
      THEN [striker |-> r, request |-> t]
      ELSE [striker |-> current, request |-> KeptRequest(r, current)]

(* TeamComManager::send: reached are the team mates that the message does not miss. *)
Send(r, t, w, asked, reached) ==
  LET message == [sent |-> t, request |-> asked, walk |-> w]
      due == r \notin penalized /\ t > lastSend[r] + SendPause
  IN  /\ lastSend' = IF due THEN [lastSend EXCEPT ![r] = t] ELSE lastSend
      /\ network' = IF due
                    THEN network \cup [from : {r}, to : reached, data : {message}]
                    ELSE network

Proceed(r, w, reached) ==
  LET t == now + Skew[r]
      outcome == DetermineStriker(r, t, w)
  IN  /\ r \notin ran
      /\ Quiet => w = walk[r] /\ reached = Robot \ {r}
      /\ ran' = ran \cup {r}
      /\ walk' = [walk EXCEPT ![r] = w]
      /\ striker' = [striker EXCEPT ![r] = outcome.striker]
      /\ request' = [request EXCEPT ![r] = outcome.request]
      /\ Send(r, t, w, outcome.request, reached)
      /\ UNCHANGED <<now, penalized, heard>>

(* Wrong: an older message is as good as a newer one. *)
IsOutdated_never(r, m) == FALSE

IsOutdated(r, m) ==
  /\ heard[r][m.from] # None
  /\ m.data.sent + Outdated <= heard[r][m.from].sent

(***************************************************************************)
(* TeamComManager::receive, called by the thread of the network.  Messages *)
(* overtake one another only up to tick Chaos: while they do, a request    *)
(* that was heard of is forgotten again with an older message, and even    *)
(* two robots may take turns in asking for ever.                           *)
(***************************************************************************)
Receive(m) ==
  /\ Quiet => \A o \in network :
       o.from = m.from /\ o.to = m.to => m.data.sent <= o.data.sent
  /\ network' = network \ {m}
  /\ heard' = IF IsOutdated(m.to, m) THEN heard
              ELSE [heard EXCEPT ![m.to][m.from] = m.data]
  /\ UNCHANGED <<now, ran, penalized, walk, request, striker, lastSend>>

(* The referee penalizes a robot or lets it return. *)
Referee(r) ==
  /\ ~Quiet
  /\ penalized' = IF r \in penalized THEN penalized \ {r} ELSE penalized \cup {r}
  /\ UNCHANGED <<now, ran, walk, request, striker, lastSend, heard, network>>

Tick ==
  /\ ran = Robot
  /\ now < MaxTime
  /\ \A m \in network : m.data.sent - Skew[m.from] + MaxDelay > now
  /\ now' = now + 1
  /\ ran' = {}
  /\ UNCHANGED <<penalized, walk, request, striker, lastSend, heard, network>>

Done == now = MaxTime /\ ran = Robot /\ UNCHANGED vars

Next ==
  \/ \E r \in Robot, w \in Times \cup {NoBall}, reached \in SUBSET Robot :
       r \notin reached /\ Proceed(r, w, reached)
  \/ \E m \in network : Receive(m)
  \/ \E r \in Robot : Referee(r)
  \/ Tick
  \/ Done

Spec == Init /\ [][Next]_vars

-----------------------------------------------------------------------------
(* Properties. *)

Candidates == {r \in Robot \ penalized : walk[r] # NoBall}

Settled == now > Chaos + Settle

(***************************************************************************)
(* When the balls, the penalties and the network have kept quiet for a     *)
(* while, the whole team names the same striker: a robot in the game that  *)
(* sees the ball, or nobody if there is none.                              *)
(***************************************************************************)
TeamAgrees ==
  Settled => \E s \in Candidates \cup {Nobody} :
               /\ s = Nobody => Candidates = {}
               /\ \A r \in Robot : striker[r] = s

(***************************************************************************)
(* Then no other robot keeps a request to fall back to when the striker is *)
(* lost (robocup_strategy.cpp:371-372), and the striker does not change.   *)
(***************************************************************************)
OnlyStrikerAsks ==
  Settled => \A r \in Robot : request[r] > 0 => striker[r] \in {r, Nobody}

StrikerStays == [][Settled => striker' = striker]_vars

(***************************************************************************)
(* The striker of a settled team is a reasonable choice: nobody in the     *)
(* game who sees the ball is clearly faster.                               *)
(***************************************************************************)
StrikerIsReasonable ==
  Settled => \A r, s \in Robot :
    s = striker[r] /\ s \in Candidates =>
      \A c \in Candidates : walk[s] <= walk[c] + Margin
=============================================================================
