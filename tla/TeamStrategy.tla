------------------------------ MODULE TeamStrategy ------------------------------
(***************************************************************************)
(* One robot's strategy loop: TeamStrategy::proceed                        *)
(* (team_strategy/team_strategy.cpp) with the handlers of RobocupStrategy. *)
(* It runs once per frame, on the GCState that is the latest one when it   *)
(* starts; TeamComManager::send looks at gc_state a second time.           *)
(*                                                                         *)
(* Positions are not modelled: who of the robots gets to be the striker is *)
(* chosen here among what determineStriker may return.  Time advances in   *)
(* steps that are counted up to the longest wait; `located` says whether   *)
(* this robot's localization is good (quality of at least 0.7).            *)
(***************************************************************************)
EXTENDS GCState

CONSTANTS
  Situations,     \* the situations of the game that occur
  KickoffWait,    \* the 10 seconds after which a kick-off counts as done
  BlindWalk       \* the 3 seconds a robot walks into the field without localization

ASSUME StrategyAssumption ==
  /\ Situations \subseteq Situation
  /\ KickoffWait \in Nat \ {0}
  /\ BlindWalk \in Nat \ {0}

VARIABLES
  channel,          \* the sample in gc_state
  spc,              \* "proceed" between two rounds, "send" after the handler
  order,            \* o in proceed(), published at the end of the round
  sent,             \* this round has sent a team message
  penalized,        \* of the last round: prev_penalized of the next one, too
  returning,        \* returning_from_penalty
  sinceReturn,      \* time - penalty_return_us
  sinceKickoff,     \* time - time_us_lastKickoff
  playState,        \* play_state
  striker,          \* cur_striker
  requested,        \* striker_request_time_us # 0
  readyPos,         \* fixed_ready_pos: what kind of position, computed when
  lastRound,        \* history: what the last round called
  oppKickoff,       \* history: the last kick-off prepared was not ours, nobody kicked yet
  sincePrepared,    \* history: time since the last round in Ready or Set
  unseated          \* history: seen penalized and not located since

strategyVars == <<order, sent, penalized, returning, playState, striker, requested, readyPos>>
clocks == <<sinceReturn, sinceKickoff, sincePrepared>>
history == <<lastRound, oppKickoff, unseated>>
vars == <<channel, spc, strategyVars, clocks, history>>

Orders == {"NoOrder", "WalkRelative", "WalkToPosition", "KeepGoal", "MoveBall"}

PlayStates == {"WAITING_FOR_OWN_KICKOFF", "WAITING_FOR_OPP_KICKOFF", "WAITING_FOR_OPP_SETPLAY",
               "PLAYING"}

Strikers == {"none", "me", "other"}

(***************************************************************************)
(* "kickoff", "here": set in this Ready phase; "old": in an earlier one;   *)
(* "undefined": written through an empty optional.                         *)
(***************************************************************************)
ReadyPositions == {"none", "kickoff", "here", "old", "setPlay", "undefined"}

\* setPlay_ready stores a position through fixed_ready_pos without a look at
\* whether there is one; with the client's GCStates ready() has set one before.
TypeOK ==
  /\ channel \in GCStates
  /\ order \in Orders
  /\ spc \in {"proceed", "send"}
  /\ sent \in BOOLEAN /\ penalized \in BOOLEAN /\ returning \in BOOLEAN
  /\ sinceReturn \in 0 .. BlindWalk
  /\ sinceKickoff \in 0 .. KickoffWait
  /\ playState \in PlayStates
  /\ striker \in Strikers
  /\ requested \in BOOLEAN
  /\ readyPos \in ReadyPositions \ {"undefined"}
  /\ lastRound \in {"Initial", "Ready", "Set", "Playing", "SetPlay", "Other"}
  /\ sincePrepared \in 0 .. KickoffWait
  /\ oppKickoff \in BOOLEAN /\ unseated \in BOOLEAN

Init ==
  /\ \E short \in BOOLEAN : channel = InitialState(short)
  /\ order = "NoOrder"
  /\ spc = "proceed"
  /\ sent = FALSE /\ penalized = FALSE /\ returning = FALSE
  /\ sinceReturn = BlindWalk
  /\ sinceKickoff = 0 /\ sincePrepared = KickoffWait
  /\ playState = "WAITING_FOR_OWN_KICKOFF"
  /\ striker = "none"
  /\ requested = FALSE
  /\ readyPos = "none"
  /\ lastRound = "Initial"
  /\ oppKickoff = FALSE
  /\ unseated = FALSE

-----------------------------------------------------------------------------
(* The GameController thread, and time. *)

PublishGC(s) ==
  /\ channel' = NewState(s)
  /\ UNCHANGED <<spc, strategyVars, clocks, history>>

Tick ==
  /\ spc = "proceed"
  /\ sinceReturn' = Smaller(sinceReturn + 1, BlindWalk)
  /\ sinceKickoff' = Smaller(sinceKickoff + 1, KickoffWait)
  /\ sincePrepared' = Smaller(sincePrepared + 1, KickoffWait)
  /\ UNCHANGED <<channel, spc, strategyVars, history>>

-----------------------------------------------------------------------------
(* What every round does before its handler. *)

(* Wrong: the robot is taken for not penalized before a half begins. *)
ProceedInitial_forget ==
  /\ spc = "proceed"
  /\ channel.state = "Initial"
  /\ order' = "NoOrder"
  /\ sent' = FALSE
  /\ lastRound' = "Initial"
  /\ penalized' = FALSE
  /\ UNCHANGED <<channel, spc, returning, playState, striker, requested, readyPos,
                 clocks, oppKickoff, unseated>>

(* Nothing but prev_state is touched: prev_penalized stays what it was. *)
ProceedInitial ==
  /\ spc = "proceed"
  /\ channel.state = "Initial"
  /\ order' = "NoOrder"
  /\ sent' = FALSE
  /\ lastRound' = "Initial"
  /\ UNCHANGED <<channel, spc, penalized, returning, playState, striker, requested,
                 readyPos, clocks, oppKickoff, unseated>>

(* returning_from_penalty when the handler is called. *)
Returning == returning \/ (penalized /\ ~penalized')

(* A round in another state; the handlers set the remaining variables. *)
Proceed(calls) ==
  /\ spc = "proceed"
  /\ spc' = "send"
  /\ sent' = FALSE
  /\ penalized' = (channel.penalized \/ PlayerIdx >= channel.players)
  /\ sinceReturn' = IF penalized /\ ~penalized' THEN 0 ELSE sinceReturn
  /\ lastRound' = calls
  /\ UNCHANGED channel

(* handlePenaltyReturn: the order, and what becomes of returning_from_penalty. *)
PenaltyOrder(located) ==
  IF ~penalized' /\ Returning /\ ~located /\ sinceReturn' < BlindWalk
  THEN "WalkRelative" ELSE "NoOrder"

(* Wrong: a robot that has been found is still returning. *)
StillReturning_always(located) == Returning

StillReturning(located) == Returning /\ (penalized' \/ ~located)

Unseated(located) == penalized' \/ (unseated /\ ~located)

-----------------------------------------------------------------------------
(* RobocupStrategy's handlers. *)

KickoffState(kicking) ==
  IF kicking = "MyTeam" THEN "WAITING_FOR_OWN_KICKOFF" ELSE "WAITING_FOR_OPP_KICKOFF"

(* Wrong: the clock of the kick-off is not started again. *)
Prepare_noClock ==
  /\ sincePrepared' = 0
  /\ playState' = KickoffState(channel.kicking)
  /\ oppKickoff' = (channel.kicking # "MyTeam")
  /\ UNCHANGED sinceKickoff

(* A kick-off is prepared: the clock starts and play_state says whose it is. *)
Prepare ==
  /\ sinceKickoff' = 0
  /\ sincePrepared' = 0
  /\ playState' = KickoffState(channel.kicking)
  /\ oppKickoff' = (channel.kicking # "MyTeam")

EarlierReadyPos ==
  IF lastRound = "Ready" \/ readyPos = "none" THEN readyPos ELSE "old"

(* known: the tactics file has positions for this many robots *)
ReadyPos(known) ==
  IF ~channel.short
  THEN IF known THEN "kickoff" ELSE EarlierReadyPos
  ELSE IF readyPos = "none" THEN "here" ELSE EarlierReadyPos

Ready(located, known) ==
  LET away == penalized' \/ StillReturning(located)
  IN  /\ channel.state = "Ready"
      /\ Proceed("Ready")
      /\ Prepare
      /\ returning' = StillReturning(located)
      /\ unseated' = Unseated(located)
      /\ striker' = "none"
      /\ requested' = FALSE
      /\ readyPos' = IF away THEN EarlierReadyPos ELSE ReadyPos(known)
      /\ order' = IF away THEN PenaltyOrder(located)
                      ELSE IF ~channel.short /\ ~known THEN "NoOrder" ELSE "WalkToPosition"

(* closest: the robot that is nearest to the centre, which a penalized one never is *)
Set(closest) ==
  /\ channel.state = "Set"
  /\ Proceed("Set")
  /\ Prepare
  /\ IF penalized' THEN closest # "me" ELSE closest # "none"
  /\ striker' = closest
  /\ requested' = (closest = "me")
  /\ order' = "NoOrder"
  /\ returning' = Returning
  /\ unseated' = (unseated \/ penalized')
  /\ UNCHANGED readyPos

(* Wrong: handlePenaltyReturn keeps the request of a penalized robot. *)
DetermineStriker_keepRequest(chosen) ==
  /\ penalized' => chosen # "me"
  /\ striker' = chosen
  /\ requested' = (chosen = "me" \/ (chosen = "none" /\ requested))

(***************************************************************************)
(* determineStriker followed by the reset of an outdated request.  A       *)
(* penalized robot is not in `robots` and so cannot be chosen.             *)
(***************************************************************************)
DetermineStriker(chosen) ==
  /\ penalized' => chosen # "me"
  /\ striker' = chosen
  /\ requested' = \/ chosen = "me"
                  \/ chosen = "none" /\ requested /\ ~penalized'

(* Wrong: only the striker's ball ends the wait. *)
WaitIsOver_ballOnly(free, waited) == striker' # "none" /\ free

(***************************************************************************)
(* free: the striker's ball has left the centre circle, or the spot of the *)
(* set play.  waited: 10 seconds have passed.                              *)
(***************************************************************************)
WaitIsOver(free, waited) == waited \/ (striker' # "none" /\ free)

(* setPlayWaited: the 10 seconds after a set play, whose clock is not modelled *)
NextPlayState(free, setPlayWaited) ==
  CASE playState \in {"WAITING_FOR_OWN_KICKOFF", "WAITING_FOR_OPP_KICKOFF"}
         -> IF WaitIsOver(free, sinceKickoff >= KickoffWait) THEN "PLAYING" ELSE playState
    [] playState = "WAITING_FOR_OPP_SETPLAY"
         -> IF WaitIsOver(free, setPlayWaited) THEN "PLAYING" ELSE playState
    [] playState = "PLAYING" -> "PLAYING"

WaitingOrder ==
  CASE PlayerIdx = 0 /\ striker' # "me" -> "KeepGoal"
    [] OTHER -> IF readyPos # "none" THEN "WalkToPosition" ELSE "NoOrder"

(***************************************************************************)
(* view: the striker's ball is off, so this robot takes over ("rogue"); no *)
(* striker or a misled one, so it goes and looks ("stupid"); nobody's ball *)
(* is fresh ("nothing", on a G1 only); none of these ("normal").           *)
(***************************************************************************)
Views == {"rogue", "stupid", "nothing", "normal"}

PlayOrder(view) ==
  CASE playState' \in {"WAITING_FOR_OPP_KICKOFF", "WAITING_FOR_OPP_SETPLAY"} -> WaitingOrder
    [] playState' = "WAITING_FOR_OWN_KICKOFF"
         -> IF striker' = "me" THEN "MoveBall" ELSE WaitingOrder
    [] playState' = "PLAYING"
         -> CASE view = "nothing" -> "WalkToPosition"
              [] view # "nothing" /\ (striker' = "me" \/ view = "rogue") -> "MoveBall"
              [] OTHER -> IF view = "normal" /\ PlayerIdx = 0 THEN "KeepGoal"
                          ELSE "WalkToPosition"

Play(located, chosen, free, setPlayWaited, view) ==
  /\ channel.state = "Playing"
  /\ channel.secondary = "Normal"
  /\ Proceed("Playing")
  /\ returning' = StillReturning(located)
  /\ unseated' = Unseated(located)
  /\ DetermineStriker(chosen)
  /\ view = "rogue" => chosen = "other"
  /\ setPlayWaited => playState = "WAITING_FOR_OPP_SETPLAY"
  /\ playState' = NextPlayState(free, setPlayWaited)
  /\ oppKickoff' = (oppKickoff /\ ~(striker' # "none" /\ free))
  /\ order' = IF penalized' \/ returning' THEN PenaltyOrder(located)
                  ELSE PlayOrder(view)
  /\ UNCHANGED <<readyPos, sinceKickoff, sincePrepared>>

(* Which of the three handlers of a set play proceed() calls. *)
SetPlayHandler ==
  CASE channel.setPlayState = "Initial" -> "setPlay_initial"
    [] channel.setPlayState = "Ready" -> "setPlay_ready"
    [] OTHER -> "setPlay_set"

(* writes: setPlay_ready stores the place it walks to through fixed_ready_pos *)
SetPlay(located, chosen, writes) ==
  LET initial == SetPlayHandler = "setPlay_initial"
      ready == SetPlayHandler = "setPlay_ready"
      away == penalized' \/ returning'
  IN  /\ channel.state = "Playing"
      /\ channel.secondary # "Normal"
      /\ Proceed("SetPlay")
      /\ returning' = IF ready THEN StillReturning(located) ELSE Returning
      /\ unseated' = IF ready THEN Unseated(located) ELSE unseated \/ penalized'
      /\ IF ready THEN DetermineStriker(chosen)
         ELSE /\ striker' = IF initial THEN "none" ELSE striker
              /\ requested' = (requested /\ ~initial)
      /\ playState' = CASE ~initial -> playState
                        [] initial -> IF channel.setPlayKicking = "MyTeam" THEN "PLAYING"
                                      ELSE "WAITING_FOR_OPP_SETPLAY"
      /\ readyPos' = CASE ready /\ ~away /\ writes
                            -> IF readyPos = "none" THEN "undefined" ELSE "setPlay"
                       [] OTHER -> readyPos
      /\ CASE ~ready -> order' = "NoOrder"
           [] ready /\ away -> order' = PenaltyOrder(located)
           [] OTHER -> \/ order' = "WalkToPosition"
                       \/ ~writes /\ PlayerIdx = 0 /\ order' = "KeepGoal"
      /\ UNCHANGED <<oppKickoff, sinceKickoff, sincePrepared>>

(* Finished and Standby call nothing, but the kick-off's clock is reset. *)
Other ==
  /\ channel.state \in {"Finished", "Standby"}
  /\ Proceed("Other")
  /\ sinceKickoff' = 0
  /\ order' = "NoOrder"
  /\ returning' = Returning
  /\ unseated' = (unseated \/ penalized')
  /\ UNCHANGED <<playState, striker, requested, readyPos, oppKickoff, sincePrepared>>

-----------------------------------------------------------------------------
(* The end of a round. *)

(* TeamComManager::send, on the latest sample; due: 200 ms since the last message *)
MaySend ==
  /\ channel.state \notin {"Initial", "Finished", "Standby"}
  /\ ~channel.penalized /\ PlayerIdx < channel.players

Send(due) ==
  /\ spc = "send"
  /\ spc' = "proceed"
  /\ sent' = (~penalized /\ ~returning /\ MaySend /\ due)
  /\ UNCHANGED <<channel, order, penalized, returning, playState, striker, requested,
                 readyPos, clocks, history>>

PlayRound(located) ==
  \E chosen \in Strikers, free, setPlayWaited \in BOOLEAN, view \in Views :
    Play(located, chosen, free, setPlayWaited, view)

Round ==
  \/ ProceedInitial
  \/ \E located, known \in BOOLEAN : Ready(located, known)
  \/ \E closest \in Strikers : Set(closest)
  \/ \E located \in BOOLEAN : PlayRound(located)
  \/ \E located, writes \in BOOLEAN, chosen \in Strikers :
       SetPlay(located, chosen, writes)
  \/ Other
  \/ \E due \in BOOLEAN : Send(due)

Next ==
  \/ \E s \in Situations : PublishGC(s)
  \/ Tick
  \/ Round

(***************************************************************************)
(* The loop goes on and time passes, and a robot that is told to play      *)
(* again and again finds out where it is in the end.                       *)
(***************************************************************************)
Fairness ==
  /\ WF_vars(Round)
  /\ SF_vars(Tick)
  /\ SF_vars(PlayRound(TRUE))

Spec == Init /\ [][Next]_vars

FairSpec == Spec /\ Fairness

-----------------------------------------------------------------------------
(* Properties. *)

(***************************************************************************)
(* After a penalty the team hears nothing of a robot before it has found   *)
(* out where it is, although proceed() returns early while the game is in  *)
(* Initial and send() looks at a newer GCState.                            *)
(***************************************************************************)
SilentUntilRelocalized == sent => ~unseated

(***************************************************************************)
(* A penalized robot is told to stand, and unless a set play is running it *)
(* neither is the striker nor keeps a request from before the penalty.     *)
(***************************************************************************)
PenalizedIsOut ==
  spc = "send" /\ penalized =>
    /\ order = "NoOrder"
    /\ lastRound \in {"Ready", "Set", "Playing"} => striker # "me" /\ ~requested

(***************************************************************************)
(* In a kick-off of the opponent no robot is sent to the ball before the   *)
(* ball has moved or 10 seconds have passed since the kick-off was last    *)
(* prepared, whatever happens to the game state in between.                *)
(***************************************************************************)
OppKickoffRespected ==
  spc = "send" /\ order = "MoveBall" /\ oppKickoff => sincePrepared >= KickoffWait

(* A kick-off does not keep a robot waiting for ever. *)
KickoffEnds ==
  <>[](channel.state = "Playing" /\ channel.secondary = "Normal") => <>[](playState = "PLAYING")

(* A robot whose penalty is over joins the game again. *)
ReturnsToGame ==
  <>[](channel.state = "Playing" /\ channel.secondary = "Normal" /\ ~channel.penalized)
    => <>[](~returning)

(***************************************************************************)
(* robocup_strategy.cpp:120-121: a robot that comes back from a penalty    *)
(* too late for the others to adjust just stays where it is.  It does not  *)
(* walk to the place it was given in an earlier kick-off.                  *)
(***************************************************************************)
LateReturnStays ==
  [][channel.state = "Ready" /\ channel.short /\ penalized /\ spc' = "send"
       /\ order' = "WalkToPosition" => readyPos' # "old"]_vars

=============================================================================
