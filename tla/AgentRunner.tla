------------------------------ MODULE AgentRunner ------------------------------
(***************************************************************************)
(* AgentRunner::proceed with the agents of the G1 (agents/): every round   *)
(* all agents get the same order, each in a thread of the pool, and the    *)
(* first one in the order of their registration that does not answer       *)
(* Nothing commands the robot.                                             *)
(*                                                                         *)
(* An agent reads its channels in one step, at a time of its own; between  *)
(* the agents of a round a channel may change, at most MaxChanges times.   *)
(* Speeds and positions are reduced to what a command is for, qualities to *)
(* the two that the adapters publish, good and bad, distances to the ball  *)
(* to "near", up to 3 m, and "far", and the order to what the agents tell  *)
(* apart.  A round takes less than a tick.                                 *)
(***************************************************************************)
EXTENDS Naturals, FiniteSets, Sequences, SequencesExt

CONSTANTS
  TTL,         \* ticks for which the own ball is remembered
  MaxChanges   \* bound: changes of the channels during one round

\* Agents registered first trump agents registered later.
Agents == <<"GoaliePositioning", "WalkRelative", "Localize", "BallSearch", "Dribble", "WalkToPosition">>

\* What the strategy orders; USE_A stands for FOCUS_DIRECTION too.
WalkOrders == {"USE_A", "STRIKER", "SUPPORTER"}
BallOrders == {"MoveBall", "MoveBallGoal"}
Orders == {"None", "WalkRelative", "KeepGoal"} \cup WalkOrders \cup BallOrders
StrikerOrders == {"STRIKER"} \cup BallOrders

ASSUME AgentAssumption ==
  TTL \in Nat \ {0} /\ MaxChanges \in Nat

\* What a command is for.  Ball commands walk towards a ball.
BallCommands == {"dribble", "push", "walk to ball"}
Commands == {"Nothing", "stand", "look around", "walk relative", "search", "position"} \cup BallCommands

Balls == {"none", "near", "far"}
TeamBalls == {"none", "stale", "fresh"}
Gone == TTL + 1      \* an age beyond every limit
Ages == 0 .. Gone

VARIABLES
  order,        \* team_strategy_order_channel
  ready,        \* whether the game is in Ready; else it is in play
  good,         \* loc_position_channel: whether the quality is good
  ball,         \* rel_ball_channel
  team,         \* the ball in the striker's message, fresh as freshTeamBall says
  remoteFar,    \* without an own ball: whether one known from elsewhere is far
  inRound,      \* whether proceed() is running
  pending,      \* agents that have not yet run in this round
  answer,       \* answer of each agent in this round
  changes,      \* changes of the channels in this round
  bestGood,     \* Localize: bestQual is at least minQualHysteresis
  hadLoc,       \* Localize: g1_last_good_loc_us is at most 3 s ago
  dribbleHadLoc, \* Dribble: the same, only with an order for the ball
  memory,       \* time since shared_own_ball_time_us
  late,         \* BallSearch: ballLastSeen is at least responseTime ago
  lastBall,     \* history: time since an agent has read a ball
  teamFresh,    \* history: whether team was fresh at some time in this round
  steady,       \* history: whether the quality has been good for the whole round
  looks         \* history: the last such rounds in a row that looked around

inputs == <<order, ready, good, ball, team, remoteFar>>
memories == <<bestGood, hadLoc, dribbleHadLoc, memory, late>>
histories == <<lastBall, teamFresh, steady, looks>>
vars == <<inputs, inRound, pending, answer, changes, memories, histories>>

AgentNames == ToSet(Agents)

TypeOK ==
  /\ order \in Orders
  /\ ready \in BOOLEAN /\ good \in BOOLEAN /\ remoteFar \in BOOLEAN
  /\ ball \in Balls
  /\ team \in TeamBalls
  /\ inRound \in BOOLEAN /\ pending \subseteq AgentNames
  /\ answer \in [AgentNames -> Commands]
  /\ changes \in 0 .. MaxChanges
  /\ bestGood \in BOOLEAN
  /\ hadLoc \in BOOLEAN /\ dribbleHadLoc \in BOOLEAN /\ late \in BOOLEAN
  /\ memory \in Ages /\ lastBall \in Ages
  /\ teamFresh \in BOOLEAN /\ steady \in BOOLEAN /\ looks \in 0 .. 2

Silent == [a \in AgentNames |-> "Nothing"]

Init ==
  /\ order = "None" /\ ready = FALSE
  /\ good = FALSE /\ ball = "none" /\ team = "none" /\ remoteFar = FALSE
  /\ teamFresh = FALSE /\ steady = FALSE
  /\ inRound = FALSE /\ pending = {} /\ answer = Silent /\ changes = 0
  /\ bestGood = FALSE
  /\ hadLoc = FALSE /\ dribbleHadLoc = FALSE /\ late = TRUE
  /\ memory = Gone /\ lastBall = Gone
  /\ looks = 0

-----------------------------------------------------------------------------
(* What the agents decide from *)

SeesBall == ball # "none"

\* updateAndSelect: the ball of this robot is remembered with a good location.
(* Wrong: every update renews the memory. *)
Remembered_renewed == IF good /\ (SeesBall \/ memory <= TTL) THEN 0 ELSE memory

Remembered == IF SeesBall /\ good THEN 0 ELSE memory

Fallback == team = "fresh" \/ memory <= TTL
KnowsBall == SeesBall \/ Fallback
BallIsFar == IF SeesBall THEN ball = "far" ELSE remoteFar

-----------------------------------------------------------------------------
(* The agents: Answer(agent, c, next values of its memory) *)

Answer(a, c) ==
  /\ a \in pending
  /\ pending' = pending \ {a}
  /\ answer' = [answer EXCEPT ![a] = c]
  /\ lastBall' = IF SeesBall THEN 0 ELSE lastBall
  /\ UNCHANGED <<inputs, inRound, changes, teamFresh, steady, looks>>

\* These two have no memory and read no channel that the model keeps, so it
\* does not matter when they run: they answer as the round starts.  The place
\* of the goalie follows from the field; it may leave the goal to the others.
GoaliePositioning(o) == IF o = "KeepGoal" THEN {"Nothing", "stand", "position"} ELSE {"Nothing"}
WalkRelative(o) == IF o = "WalkRelative" THEN "walk relative" ELSE "Nothing"

\* Stands, turns, and walks blindly for a while until the location is good.
(* Wrong: the quality is kept only while there is none. *)
Localize_keepBest ==
  LET hasLoc == good \/ hadLoc
      leaveToDribble == SeesBall /\ hasLoc /\ order \in BallOrders
      lost == ~leaveToDribble /\ (~good \/ ~bestGood)
  IN /\ Answer("Localize", IF lost THEN "look around" ELSE "Nothing")
     /\ hadLoc' = hasLoc
     /\ bestGood' = (bestGood /\ good)
     /\ UNCHANGED <<dribbleHadLoc, memory, late>>

Localize ==
  LET hasLoc == good \/ hadLoc
      leaveToDribble == SeesBall /\ hasLoc /\ order \in BallOrders
      lost == ~leaveToDribble /\ (~good \/ ~bestGood)
  IN /\ Answer("Localize", IF lost THEN "look around" ELSE "Nothing")
     /\ hadLoc' = hasLoc
     /\ bestGood' = IF lost THEN good ELSE bestGood
     /\ UNCHANGED <<dribbleHadLoc, memory, late>>

\* A ball is searched that has not been seen for some time; the search that a
\* striker near its place is forced to is out of reach, it has answered before.
SearchOrNothing(unseen) == IF unseen THEN {"search"} ELSE {"Nothing"}

LostStrikerAnswer(fallback) ==
  IF ~fallback THEN "search" ELSE IF order \in BallOrders THEN "Nothing" ELSE "push"

SearchAnswers(fallback, unseen) ==
  CASE order \in {"None", "WalkRelative", "USE_A"} -> {"Nothing"}
    [] order \in StrikerOrders /\ ~SeesBall -> {LostStrikerAnswer(fallback)}
    [] order \in StrikerOrders /\ SeesBall -> SearchOrNothing(unseen)
    [] order \in {"SUPPORTER", "KeepGoal"} ->
         IF team # "none" \/ (~SeesBall /\ fallback) THEN {"Nothing"} ELSE SearchOrNothing(unseen)

BallSearch ==
  LET unseen == ~SeesBall /\ late
      asks == order \notin {"None", "WalkRelative"}
      remembered == IF asks THEN Remembered ELSE memory
  IN /\ \E c \in SearchAnswers(team = "fresh" \/ remembered <= TTL, unseen) : Answer("BallSearch", c)
     /\ late' = unseen
     /\ memory' = remembered
     /\ UNCHANGED <<bestGood, hadLoc, dribbleHadLoc>>

DribbleAnswer(hasLoc) ==
  CASE SeesBall -> IF hasLoc /\ ball = "near" THEN "dribble" ELSE "Nothing"
    [] ~SeesBall /\ good /\ Fallback -> IF remoteFar THEN "Nothing" ELSE "push"
    [] OTHER -> "Nothing"

Dribble ==
  LET asks == order \in BallOrders
      hasLoc == good \/ dribbleHadLoc
  IN /\ Answer("Dribble", IF asks THEN DribbleAnswer(hasLoc) ELSE "Nothing")
     /\ dribbleHadLoc' = IF asks THEN hasLoc ELSE dribbleHadLoc
     /\ UNCHANGED <<bestGood, hadLoc, memory, late>>

\* In Ready the robot stands until its location is good.
(* Wrong: a ball that is only remembered is not walked to. *)
WalkAnswer_onlySeen ==
  IF ready /\ ~good THEN "stand"
  ELSE IF order # "MoveBallGoal" THEN "position"
  ELSE IF SeesBall THEN "walk to ball" ELSE "Nothing"

WalkAnswer ==
  IF ready /\ ~good THEN "stand"
  ELSE IF order # "MoveBallGoal" THEN "position"
  ELSE IF KnowsBall THEN "walk to ball" ELSE "Nothing"

WalkToPosition ==
  LET asks == order \in WalkOrders \cup {"KeepGoal", "MoveBallGoal"}
      updates == asks /\ order = "MoveBallGoal" /\ ~(ready /\ ~good)
  IN /\ Answer("WalkToPosition", IF asks THEN WalkAnswer ELSE "Nothing")
     /\ memory' = IF updates THEN Remembered ELSE memory
     /\ UNCHANGED <<bestGood, hadLoc, dribbleHadLoc, late>>

-----------------------------------------------------------------------------
(* A round of AgentRunner::proceed *)

Older(age) == IF age < Gone THEN age + 1 ELSE age

\* Between the rounds time passes and every channel may have a new sample.
StartRound ==
  /\ ~inRound
  /\ inRound' = TRUE /\ pending' = {"Localize", "BallSearch", "Dribble", "WalkToPosition"}
  /\ changes' = 0
  /\ order' \in Orders /\ ready' \in BOOLEAN
  /\ \E c \in GoaliePositioning(order') :
       answer' = [Silent EXCEPT !["GoaliePositioning"] = c, !["WalkRelative"] = WalkRelative(order')]
  /\ good' \in BOOLEAN /\ ball' \in Balls /\ team' \in TeamBalls
  /\ remoteFar' \in IF ball' = "none" THEN BOOLEAN ELSE {FALSE}
  /\ \/ UNCHANGED <<memory, lastBall>>
     \/ memory' = Older(memory) /\ lastBall' = Older(lastBall)
  /\ hadLoc' \in {hadLoc, FALSE} /\ dribbleHadLoc' \in {dribbleHadLoc, FALSE}
  /\ late' \in {late, TRUE}
  /\ teamFresh' = (team' = "fresh") /\ steady' = good'
  /\ UNCHANGED <<bestGood, looks>>

\* Another thread publishes during the round.
ChangeChannel ==
  /\ inRound /\ pending # {} /\ changes < MaxChanges
  /\ changes' = changes + 1
  /\ \/ good' = ~good /\ steady' = FALSE /\ UNCHANGED <<ball, remoteFar, team, teamFresh>>
     \/ /\ ball' \in Balls \ {ball}
        /\ remoteFar' \in IF ball' = "none" THEN BOOLEAN ELSE {FALSE}
        /\ UNCHANGED <<good, team, teamFresh, steady>>
     \/ /\ team' \in TeamBalls \ {team}
        /\ teamFresh' = (teamFresh \/ team' = "fresh")
        /\ UNCHANGED <<good, ball, remoteFar, steady>>
  /\ UNCHANGED <<order, ready, inRound, pending, answer, memories, lastBall, looks>>

\* The agents that want to command the robot.
Answering == {i \in DOMAIN Agents : answer[Agents[i]] # "Nothing"}

\* The first answer that is not Nothing, or "No Agent" with Nothing.
Chosen ==
  IF Answering = {} THEN "Nothing"
  ELSE answer[Agents[CHOOSE i \in Answering : \A j \in Answering : i <= j]]

Decided == inRound /\ pending = {}

\* All futures have a value: Chosen goes to the motion_command_channel.  What
\* the channels hold until the next round starts is of no account.
PublishCommand ==
  /\ Decided
  /\ inRound' = FALSE /\ changes' = 0 /\ answer' = Silent
  /\ looks' = IF steady /\ Chosen = "look around" THEN IF looks < 2 THEN looks + 1 ELSE 2 ELSE 0
  /\ order' = "None" /\ ready' = FALSE
  /\ good' = FALSE /\ ball' = "none" /\ team' = "none" /\ remoteFar' = FALSE
  /\ teamFresh' = FALSE /\ steady' = FALSE
  /\ UNCHANGED <<pending, memories, lastBall>>

AgentStep == Localize \/ BallSearch \/ Dribble \/ WalkToPosition
Next == StartRound \/ ChangeChannel \/ AgentStep \/ PublishCommand

Spec == Init /\ [][Next]_vars

-----------------------------------------------------------------------------
(***************************************************************************)
(* An agent keeps silent to leave the robot to another one: Localize to    *)
(* Dribble, BallSearch to Dribble and WalkToPosition, Dribble to           *)
(* WalkToPosition.  In a round without a change of the channels they agree *)
(* on one that acts: every order but None has an answer.  A MoveBallOrder  *)
(* is the exception: WalkToPosition does not take it, so that nobody       *)
(* answers when the ball is far or the location is lost.                   *)
(***************************************************************************)
EveryOrderAnswered ==
  (/\ Decided /\ changes = 0 /\ order # "None"
   /\ order = "MoveBall" => good /\ ~BallIsFar) => Chosen # "Nothing"

(***************************************************************************)
(* "Time to keep using the most recent own or teammate ball after visual   *)
(* loss" (Readme.md): a robot that is to play the ball walks towards it, or *)
(* to a place near it, only when one of its agents has read a ball in the  *)
(* last TTL ticks, or a fresh ball of the striker in this round.  The two  *)
(* agents that renew the shared memory, the ones that only read it and a   *)
(* change between them do not keep a ball alive.                           *)
(***************************************************************************)
BallWalkNeedsRecentBall ==
  (Decided /\ order \in StrikerOrders /\ Chosen \in BallCommands \cup {"position"})
    => lastBall <= TTL \/ teamFresh

(***************************************************************************)
(* Localize takes the robot over when the quality drops and returns it     *)
(* with the next good one: in two rounds in a row that are well located    *)
(* throughout it is not sent to look around twice, whatever the orders and *)
(* the balls in between, for which Localize leaves early.                  *)
(***************************************************************************)
LooksOnce == looks <= 1
=============================================================================
