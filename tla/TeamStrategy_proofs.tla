-------------------------- MODULE TeamStrategy_proofs --------------------------
(***************************************************************************)
(* Proofs about TeamStrategy for every set of situations, every robot and  *)
(* all waits.                                                              *)
(*                                                                         *)
(* The handlers leave variables of earlier rounds behind, so the           *)
(* properties rest on what survives any order of game states: a robot      *)
(* that has not been located since its penalty is still penalized or still *)
(* returning, and play_state knows the opponent's kick-off until it is     *)
(* over, because the client's GCStates never reach setPlay_initial, which  *)
(* would end the wait.                                                     *)
(***************************************************************************)
EXTENDS TeamStrategy, TLAPS

\* GameController copies the packet's state into setPlayState of a set play.
ChannelIsBuilt == channel.secondary # "Normal" => channel.setPlayState = channel.state

ReturnIsKnown == unseated => penalized \/ returning

KickoffIsKnown ==
  /\ sinceKickoff <= sincePrepared
  /\ oppKickoff => \/ playState = "WAITING_FOR_OPP_KICKOFF"
                   \/ playState = "PLAYING" /\ sincePrepared >= KickoffWait

OrderFitsPlay ==
  spc = "send" /\ order = "MoveBall" => playState \in {"WAITING_FOR_OWN_KICKOFF", "PLAYING"}

IInv ==
  /\ TypeOK
  /\ ChannelIsBuilt
  /\ ReturnIsKnown
  /\ SilentUntilRelocalized
  /\ PenalizedIsOut
  /\ KickoffIsKnown
  /\ OrderFitsPlay

-----------------------------------------------------------------------------
(* The bounds alone, without what is assumed of the situations. *)
LEMMA ClocksStart ==
  /\ KickoffWait \in Nat \ {0} /\ BlindWalk \in Nat \ {0}
  /\ 0 \in 0 .. KickoffWait /\ KickoffWait \in 0 .. KickoffWait
  /\ 0 \in 0 .. BlindWalk /\ BlindWalk \in 0 .. BlindWalk
BY StrategyAssumption

(* What the client publishes. *)

(* A packet becomes a GCState; one of a set play has the packet's state. *)
LEMMA NewStateIsBuilt ==
  ASSUME NEW s \in Situations
  PROVE  LET c == NewState(s)
         IN  /\ c \in GCStates
             /\ c.secondary # "Normal" => c.setPlayState = c.state
<1>1. s \in Situation
  BY StrategyAssumption
<1>2. PlayerCount(s.perTeam) \in 1 .. MAX_NUM_PLAYERS
  BY <1>1, PlayerAssumption DEF Situation, PlayerCount, Larger, Smaller
<1>3. MapSetPlay(s.setPlay) \in SecondaryStates
  BY <1>1 DEF Situation, MapSetPlay, SecondaryStates
<1>4. MapKicking(s.kicking) \in KickingTeams
  BY <1>1 DEF Situation, MapKicking, KickingTeams
<1>5. NewState(s) \in GCStates
  BY <1>1, <1>2, <1>3, <1>4 DEF NewState, GCStates, Situation, KickingTeams, GameStates
<1>6. NewState(s).secondary # "Normal" => NewState(s).setPlayState = NewState(s).state
  BY DEF NewState, MapSetPlay
<1> QED
  BY <1>5, <1>6

(* So does what its constructor publishes. *)
LEMMA InitialStateIsBuilt ==
  ASSUME NEW short \in BOOLEAN
  PROVE  /\ InitialState(short) \in GCStates
         /\ InitialState(short).secondary = "Normal"
BY PlayerAssumption
   DEF InitialState, GCStates, GameStates, SecondaryStates, KickingTeams, Larger

(* While a set play is running proceed() calls no handler but setPlay_set. *)
LEMMA SetPlayOnlyStands ==
  ASSUME ChannelIsBuilt, channel.state = "Playing", channel.secondary # "Normal"
  PROVE  SetPlayHandler = "setPlay_set"
BY DEF ChannelIsBuilt, SetPlayHandler

(* A robot that may get lost has been told so: what a handler with          *)
(* handlePenaltyReturn leaves of ReturnIsKnown, and one without it.         *)
LEMMA ReturnStaysKnown ==
  ASSUME ReturnIsKnown, penalized' \in BOOLEAN, NEW located \in BOOLEAN
  PROVE  /\ Unseated(located) => penalized' \/ StillReturning(located)
         /\ unseated \/ penalized' => penalized' \/ Returning
BY DEF ReturnIsKnown, Unseated, StillReturning, Returning

(* What every round has in common. *)
LEMMA ProceedType ==
  ASSUME TypeOK, NEW calls, Proceed(calls)
  PROVE  /\ channel' = channel /\ channel' \in GCStates
         /\ spc = "proceed" /\ spc' = "send"
         /\ sent' = FALSE
         /\ penalized' \in BOOLEAN
         /\ sinceReturn' \in 0 .. BlindWalk
         /\ lastRound' = calls
<1>1. channel.penalized \in BOOLEAN
  BY DEF TypeOK, GCStates
<1>2. penalized' \in BOOLEAN
  BY <1>1 DEF Proceed
<1>3. sinceReturn' \in 0 .. BlindWalk
  BY StrategyAssumption DEF Proceed, TypeOK
<1> QED
  BY <1>2, <1>3 DEF Proceed, TypeOK

LEMMA ReturningType ==
  ASSUME TypeOK, penalized' \in BOOLEAN, NEW located \in BOOLEAN
  PROVE  /\ Returning \in BOOLEAN /\ StillReturning(located) \in BOOLEAN
         /\ Unseated(located) \in BOOLEAN
         /\ PenaltyOrder(located) \in Orders
         /\ PenaltyOrder(located) # "MoveBall"
         /\ penalized' => PenaltyOrder(located) = "NoOrder"
<1>1. Returning \in BOOLEAN /\ StillReturning(located) \in BOOLEAN
  BY DEF TypeOK, Returning, StillReturning
<1>2. Unseated(located) \in BOOLEAN
  BY DEF TypeOK, Unseated
<1> QED
  BY <1>1, <1>2 DEF PenaltyOrder, Orders

(* Ready and Set start the wait for the kick-off together with its clocks. *)
LEMMA PrepareStartsWait ==
  ASSUME TypeOK, Prepare
  PROVE  /\ playState' \in PlayStates
         /\ sinceKickoff' = 0 /\ sincePrepared' = 0
         /\ oppKickoff' \in BOOLEAN
         /\ oppKickoff' => playState' = "WAITING_FOR_OPP_KICKOFF"
BY DEF Prepare, KickoffState, PlayStates

-----------------------------------------------------------------------------
(* The inductive invariant *)

LEMMA InitIInv == Init => IInv
<1> SUFFICES ASSUME Init PROVE IInv
  OBVIOUS
<1>1. channel \in GCStates /\ channel.secondary = "Normal"
  BY InitialStateIsBuilt DEF Init
<1>2. /\ sinceReturn \in 0 .. BlindWalk
      /\ sinceKickoff \in 0 .. KickoffWait /\ sincePrepared \in 0 .. KickoffWait
      /\ sinceKickoff <= sincePrepared
  BY ClocksStart DEF Init
<1>3. /\ sent \in BOOLEAN /\ penalized \in BOOLEAN /\ returning \in BOOLEAN
      /\ requested \in BOOLEAN /\ oppKickoff \in BOOLEAN /\ unseated \in BOOLEAN
  BY DEF Init
<1>4. TypeOK
  BY <1>1, <1>2, <1>3 DEF Init, TypeOK, Orders, PlayStates, Strikers, ReadyPositions
<1> QED
  BY <1>1, <1>2, <1>4
  DEF Init, IInv, ChannelIsBuilt, ReturnIsKnown, SilentUntilRelocalized, PenalizedIsOut,
      KickoffIsKnown, OrderFitsPlay

LEMMA PublishIInv ==
  ASSUME IInv, \E s \in Situations : PublishGC(s)
  PROVE  IInv'
<1>1. PICK s \in Situations : PublishGC(s)
  OBVIOUS
<1>2. channel' \in GCStates /\ ChannelIsBuilt'
  BY <1>1, NewStateIsBuilt DEF PublishGC, ChannelIsBuilt
<1>3. UNCHANGED <<spc, strategyVars, clocks, history>>
  BY <1>1 DEF PublishGC
<1>4. TypeOK'
  BY <1>2, <1>3 DEF IInv, TypeOK, strategyVars, clocks, history
<1> QED
  BY <1>2, <1>3, <1>4
  DEF IInv, strategyVars, clocks, history, ReturnIsKnown, SilentUntilRelocalized,
      PenalizedIsOut, KickoffIsKnown, OrderFitsPlay

(* Time passes between two rounds, and both clocks of the kick-off go on. *)
LEMMA TickIInv ==
  ASSUME IInv, Tick
  PROVE  IInv'
<1>1. /\ sinceReturn' \in 0 .. BlindWalk
      /\ sinceKickoff' \in 0 .. KickoffWait /\ sincePrepared' \in 0 .. KickoffWait
      /\ sinceKickoff' <= sincePrepared'
      /\ sincePrepared >= KickoffWait => sincePrepared' >= KickoffWait
  BY StrategyAssumption DEF IInv, TypeOK, KickoffIsKnown, Tick, Smaller
<1>2. UNCHANGED <<channel, spc, strategyVars, history>> /\ spc = "proceed"
  BY DEF Tick
<1>3. TypeOK'
  BY <1>1, <1>2 DEF IInv, TypeOK, strategyVars, history
<1>4. KickoffIsKnown'
  BY <1>1, <1>2 DEF IInv, KickoffIsKnown, strategyVars, history
<1> QED
  BY <1>2, <1>3, <1>4
  DEF IInv, strategyVars, history, ChannelIsBuilt, ReturnIsKnown, SilentUntilRelocalized,
      PenalizedIsOut, OrderFitsPlay

LEMMA ProceedInitialIInv ==
  ASSUME IInv, ProceedInitial
  PROVE  IInv'
<1>1. TypeOK'
  BY DEF IInv, TypeOK, ProceedInitial, Orders, clocks
<1> QED
  BY <1>1
  DEF IInv, ProceedInitial, clocks, ChannelIsBuilt, ReturnIsKnown, SilentUntilRelocalized,
      PenalizedIsOut, KickoffIsKnown, OrderFitsPlay

LEMMA ReadyIInv ==
  ASSUME IInv, NEW located \in BOOLEAN, NEW known \in BOOLEAN, Ready(located, known)
  PROVE  IInv'
<1>1. TypeOK /\ Proceed("Ready") /\ Prepare
  BY DEF IInv, Ready
<1>2. /\ channel' = channel /\ channel' \in GCStates /\ spc' = "send" /\ sent' = FALSE
      /\ penalized' \in BOOLEAN /\ sinceReturn' \in 0 .. BlindWalk /\ lastRound' = "Ready"
  BY <1>1, ProceedType
<1>3. /\ returning' = StillReturning(located) /\ unseated' = Unseated(located)
      /\ striker' = "none" /\ requested' = FALSE
  BY DEF Ready
<1>4. readyPos' \in ReadyPositions \ {"undefined"}
  BY <1>1 DEF Ready, ReadyPos, EarlierReadyPos, TypeOK, ReadyPositions
<1>5. /\ order' \in {"NoOrder", "WalkRelative", "WalkToPosition"}
      /\ penalized' => order' = "NoOrder"
  BY <1>1, <1>2, ReturningType DEF Ready, PenaltyOrder
<1>6. /\ returning' \in BOOLEAN /\ unseated' \in BOOLEAN
  BY <1>1, <1>2, <1>3, ReturningType
<1>7. /\ playState' \in PlayStates /\ sinceKickoff' = 0 /\ sincePrepared' = 0
      /\ oppKickoff' \in BOOLEAN
      /\ oppKickoff' => playState' = "WAITING_FOR_OPP_KICKOFF"
  BY <1>1, PrepareStartsWait
<1>8. TypeOK'
  <2>1. sent' \in BOOLEAN /\ requested' \in BOOLEAN
    BY <1>2, <1>3
  <2>2. sinceKickoff' \in 0 .. KickoffWait /\ sincePrepared' \in 0 .. KickoffWait
    BY <1>7, ClocksStart
  <2> QED
    BY <1>2, <1>3, <1>4, <1>5, <1>6, <1>7, <2>1, <2>2 DEF TypeOK, Orders, Strikers
<1>9. ReturnIsKnown'
  BY <1>2, <1>3, ReturnStaysKnown DEF IInv, ReturnIsKnown
<1> QED
  BY <1>2, <1>3, <1>5, <1>7, <1>8, <1>9
  DEF IInv, ChannelIsBuilt, SilentUntilRelocalized, PenalizedIsOut, KickoffIsKnown,
      OrderFitsPlay

LEMMA SetIInv ==
  ASSUME IInv, NEW closest \in Strikers, Set(closest)
  PROVE  IInv'
<1>1. TypeOK /\ Proceed("Set") /\ Prepare
  BY DEF IInv, Set
<1>2. /\ channel' = channel /\ channel' \in GCStates /\ spc' = "send" /\ sent' = FALSE
      /\ penalized' \in BOOLEAN /\ sinceReturn' \in 0 .. BlindWalk /\ lastRound' = "Set"
  BY <1>1, ProceedType
<1>3. /\ returning' = Returning /\ unseated' = (unseated \/ penalized')
      /\ striker' = closest /\ requested' = (closest = "me") /\ order' = "NoOrder"
      /\ readyPos' = readyPos
      /\ penalized' => closest # "me"
  BY DEF Set
<1>4. /\ returning' \in BOOLEAN /\ unseated' \in BOOLEAN
  BY <1>1, <1>2, <1>3, ReturningType DEF TypeOK
<1>5. /\ playState' \in PlayStates /\ sinceKickoff' = 0 /\ sincePrepared' = 0
      /\ oppKickoff' \in BOOLEAN
      /\ oppKickoff' => playState' = "WAITING_FOR_OPP_KICKOFF"
  BY <1>1, PrepareStartsWait
<1>6. TypeOK'
  <2>1. sent' \in BOOLEAN /\ requested' \in BOOLEAN
    BY <1>2, <1>3
  <2>2. sinceKickoff' \in 0 .. KickoffWait /\ sincePrepared' \in 0 .. KickoffWait
    BY <1>5, ClocksStart
  <2> QED
    BY <1>1, <1>2, <1>3, <1>4, <1>5, <2>1, <2>2 DEF TypeOK, Orders
<1>7. ReturnIsKnown'
  BY <1>2, <1>3, ReturnStaysKnown DEF IInv, ReturnIsKnown
<1>8. PenalizedIsOut'
  <2>1. penalized' => striker' # "me" /\ ~requested'
    BY <1>3
  <2> QED
    BY <1>3, <2>1 DEF PenalizedIsOut
<1> QED
  BY <1>2, <1>3, <1>5, <1>6, <1>7, <1>8
  DEF IInv, ChannelIsBuilt, SilentUntilRelocalized, PenalizedIsOut, KickoffIsKnown,
      OrderFitsPlay

(* What the play state of a round in Playing may be. *)
LEMMA PlayStateType ==
  ASSUME TypeOK, NEW free \in BOOLEAN, NEW setPlayWaited \in BOOLEAN
  PROVE  NextPlayState(free, setPlayWaited) \in PlayStates
<1>1. playState \in PlayStates
  BY DEF TypeOK
<1> QED
  BY <1>1 DEF NextPlayState, PlayStates

(* Nothing but the ball or the 10 seconds ends the wait for their kick-off. *)
LEMMA OnlyTimeOrBallEndsWait ==
  ASSUME TypeOK, KickoffIsKnown, oppKickoff,
         NEW free \in BOOLEAN, NEW setPlayWaited \in BOOLEAN,
         ~(striker' # "none" /\ free)
  PROVE  LET p == NextPlayState(free, setPlayWaited)
         IN  \/ p = "WAITING_FOR_OPP_KICKOFF"
             \/ p = "PLAYING" /\ sincePrepared >= KickoffWait
<1>1. CASE playState = "PLAYING" /\ sincePrepared >= KickoffWait
  BY <1>1 DEF NextPlayState
<1>2. CASE playState = "WAITING_FOR_OPP_KICKOFF"
  <2>1. sinceKickoff >= KickoffWait => sincePrepared >= KickoffWait
    BY ClocksStart DEF KickoffIsKnown, TypeOK
  <2>2. WaitIsOver(free, sinceKickoff >= KickoffWait) => sinceKickoff >= KickoffWait
    BY DEF WaitIsOver
  <2> QED
    BY <1>2, <2>1, <2>2 DEF NextPlayState
<1> QED
  BY <1>1, <1>2 DEF KickoffIsKnown

(* While the opponent's ball is awaited only the goalkeeper and the places  *)
(* of the kick-off give a robot something to do.                            *)
LEMMA PlayOrderFitsPlay ==
  ASSUME NEW view \in Views, playState' \in PlayStates
  PROVE  /\ PlayOrder(view) \in Orders
         /\ PlayOrder(view) = "MoveBall"
              => playState' \in {"WAITING_FOR_OWN_KICKOFF", "PLAYING"}
<1>1. WaitingOrder \in Orders \ {"MoveBall"}
  BY DEF WaitingOrder, Orders
<1>2. CASE playState' \in {"WAITING_FOR_OPP_KICKOFF", "WAITING_FOR_OPP_SETPLAY"}
  BY <1>1, <1>2 DEF PlayOrder
<1>3. CASE playState' = "WAITING_FOR_OWN_KICKOFF"
  BY <1>1, <1>3 DEF PlayOrder, Orders
<1>4. CASE playState' = "PLAYING"
  BY <1>4 DEF PlayOrder, Orders
<1> QED
  BY <1>2, <1>3, <1>4 DEF PlayStates

LEMMA PlayIInv ==
  ASSUME IInv, NEW located \in BOOLEAN, NEW chosen \in Strikers, NEW free \in BOOLEAN,
         NEW setPlayWaited \in BOOLEAN, NEW view \in Views,
         Play(located, chosen, free, setPlayWaited, view)
  PROVE  IInv'
<1>1. TypeOK /\ KickoffIsKnown /\ Proceed("Playing")
  BY DEF IInv, Play
<1>2. /\ channel' = channel /\ channel' \in GCStates /\ spc' = "send" /\ sent' = FALSE
      /\ penalized' \in BOOLEAN /\ sinceReturn' \in 0 .. BlindWalk /\ lastRound' = "Playing"
  BY <1>1, ProceedType
<1>3. /\ returning' = StillReturning(located) /\ unseated' = Unseated(located)
      /\ UNCHANGED <<readyPos, sinceKickoff, sincePrepared>>
  BY DEF Play
<1>4. /\ striker' \in Strikers /\ requested' \in BOOLEAN
      /\ penalized' => striker' # "me" /\ ~requested'
  <2>1. DetermineStriker(chosen) /\ requested \in BOOLEAN
    BY <1>1 DEF Play, TypeOK
  <2>2. requested' \in BOOLEAN
    BY <1>2, <2>1 DEF DetermineStriker
  <2> QED
    BY <2>1, <2>2 DEF DetermineStriker
<1>5. returning' \in BOOLEAN /\ unseated' \in BOOLEAN
  BY <1>1, <1>2, <1>3, ReturningType
<1>6. playState' = NextPlayState(free, setPlayWaited) /\ playState' \in PlayStates
  BY <1>1, PlayStateType DEF Play
<1>7. /\ order' \in Orders
      /\ order' = "MoveBall" => playState' \in {"WAITING_FOR_OWN_KICKOFF", "PLAYING"}
      /\ penalized' => order' = "NoOrder"
  <2>1. CASE penalized' \/ returning'
    <3>1. order' = PenaltyOrder(located)
      BY <2>1 DEF Play
    <3> QED
      BY <1>1, <1>2, <3>1, ReturningType
  <2>2. CASE ~(penalized' \/ returning')
    <3>1. order' = PlayOrder(view)
      BY <2>2 DEF Play
    <3> QED
      BY <1>6, <2>2, <3>1, PlayOrderFitsPlay
  <2> QED
    BY <2>1, <2>2
<1>8. /\ oppKickoff' \in BOOLEAN
      /\ oppKickoff' => oppKickoff /\ ~(striker' # "none" /\ free)
  <2>1. oppKickoff' = (oppKickoff /\ ~(striker' # "none" /\ free))
    BY DEF Play
  <2> QED
    BY <1>1, <2>1 DEF TypeOK
<1>9. TypeOK'
  <2>1. sent' \in BOOLEAN
    BY <1>2
  <2> QED
    BY <1>1, <1>2, <1>3, <1>4, <1>5, <1>6, <1>7, <1>8, <2>1 DEF TypeOK
<1>10. ReturnIsKnown'
  BY <1>2, <1>3, ReturnStaysKnown DEF IInv, ReturnIsKnown
<1>11. KickoffIsKnown'
  <2>1. sinceKickoff' <= sincePrepared'
    BY <1>1, <1>3 DEF KickoffIsKnown
  <2>2. CASE oppKickoff'
    BY <1>1, <1>3, <1>6, <1>8, <2>1, <2>2, OnlyTimeOrBallEndsWait DEF KickoffIsKnown
  <2> QED
    BY <2>1, <2>2 DEF KickoffIsKnown
<1> QED
  BY <1>2, <1>4, <1>7, <1>9, <1>10, <1>11
  DEF IInv, ChannelIsBuilt, SilentUntilRelocalized, PenalizedIsOut, OrderFitsPlay

(* The robot stands, and the kick-off's wait stays what it was. *)
LEMMA SetPlayIInv ==
  ASSUME IInv, NEW located \in BOOLEAN, NEW chosen \in Strikers, NEW writes \in BOOLEAN,
         SetPlay(located, chosen, writes)
  PROVE  IInv'
<1>1. TypeOK /\ KickoffIsKnown /\ Proceed("SetPlay")
  BY DEF IInv, SetPlay
<1>2. /\ channel' = channel /\ channel' \in GCStates /\ spc' = "send" /\ sent' = FALSE
      /\ penalized' \in BOOLEAN /\ sinceReturn' \in 0 .. BlindWalk /\ lastRound' = "SetPlay"
  BY <1>1, ProceedType
<1>3. SetPlayHandler = "setPlay_set"
  BY SetPlayOnlyStands DEF IInv, SetPlay
<1>4. /\ returning' = Returning /\ unseated' = (unseated \/ penalized')
      /\ order' = "NoOrder"
      /\ UNCHANGED <<striker, playState, readyPos, oppKickoff, sinceKickoff, sincePrepared>>
  BY <1>3 DEF SetPlay
<1>5. requested' \in BOOLEAN
  BY <1>1, <1>3 DEF SetPlay, TypeOK
<1>6. returning' \in BOOLEAN /\ unseated' \in BOOLEAN
  BY <1>1, <1>2, <1>4, ReturningType DEF TypeOK
<1>7. TypeOK'
  <2>1. sent' \in BOOLEAN
    BY <1>2
  <2> QED
    BY <1>1, <1>2, <1>4, <1>5, <1>6, <2>1 DEF TypeOK, Orders
<1>8. ReturnIsKnown'
  BY <1>2, <1>4, ReturnStaysKnown DEF IInv, ReturnIsKnown
<1> QED
  BY <1>1, <1>2, <1>4, <1>7, <1>8
  DEF IInv, ChannelIsBuilt, SilentUntilRelocalized, PenalizedIsOut, KickoffIsKnown,
      OrderFitsPlay

LEMMA OtherIInv ==
  ASSUME IInv, Other
  PROVE  IInv'
<1>1. TypeOK /\ KickoffIsKnown /\ Proceed("Other")
  BY DEF IInv, Other
<1>2. /\ channel' = channel /\ channel' \in GCStates /\ spc' = "send" /\ sent' = FALSE
      /\ penalized' \in BOOLEAN /\ sinceReturn' \in 0 .. BlindWalk /\ lastRound' = "Other"
  BY <1>1, ProceedType
<1>3. /\ sinceKickoff' = 0 /\ order' = "NoOrder"
      /\ returning' = Returning /\ unseated' = (unseated \/ penalized')
      /\ UNCHANGED <<playState, striker, requested, readyPos, oppKickoff, sincePrepared>>
  BY DEF Other
<1>4. returning' \in BOOLEAN /\ unseated' \in BOOLEAN
  BY <1>1, <1>2, <1>3, ReturningType DEF TypeOK
<1>5. sinceKickoff' \in 0 .. KickoffWait /\ sinceKickoff' <= sincePrepared'
  BY <1>1, <1>3, ClocksStart DEF TypeOK
<1>6. TypeOK'
  <2>1. sent' \in BOOLEAN
    BY <1>2
  <2> QED
    BY <1>1, <1>2, <1>3, <1>4, <1>5, <2>1 DEF TypeOK, Orders
<1>7. ReturnIsKnown'
  BY <1>2, <1>3, ReturnStaysKnown DEF IInv, ReturnIsKnown
<1> QED
  BY <1>1, <1>2, <1>3, <1>5, <1>6, <1>7
  DEF IInv, ChannelIsBuilt, SilentUntilRelocalized, PenalizedIsOut, KickoffIsKnown,
      OrderFitsPlay

(* A robot sends nothing before it knows where it is: send() of the strategy *)
(* looks at this round's penalized and returning_from_penalty.               *)
LEMMA SendIInv ==
  ASSUME IInv, NEW due \in BOOLEAN, Send(due)
  PROVE  IInv'
<1>1. /\ spc' = "proceed"
      /\ UNCHANGED <<channel, order, penalized, returning, playState, striker, requested,
                     readyPos, clocks, history>>
  BY DEF Send
<1>2. sent' \in BOOLEAN /\ (sent' => ~penalized /\ ~returning)
  BY DEF Send, MaySend, IInv, TypeOK
<1>3. TypeOK'
  BY <1>1, <1>2 DEF IInv, TypeOK, clocks, history
<1> QED
  BY <1>1, <1>2, <1>3
  DEF IInv, clocks, history, ChannelIsBuilt, ReturnIsKnown, SilentUntilRelocalized,
      PenalizedIsOut, KickoffIsKnown, OrderFitsPlay

LEMMA NextIInv ==
  ASSUME IInv, [Next]_vars
  PROVE  IInv'
<1>1. CASE \E s \in Situations : PublishGC(s)
  BY <1>1, PublishIInv
<1>2. CASE Tick
  BY <1>2, TickIInv
<1>3. CASE ProceedInitial
  BY <1>3, ProceedInitialIInv
<1>4. CASE \E located, known \in BOOLEAN : Ready(located, known)
  BY <1>4, ReadyIInv
<1>5. CASE \E closest \in Strikers : Set(closest)
  BY <1>5, SetIInv
<1>6. CASE \E located \in BOOLEAN : PlayRound(located)
  BY <1>6, PlayIInv DEF PlayRound
<1>7. CASE \E located, writes \in BOOLEAN, chosen \in Strikers :
             SetPlay(located, chosen, writes)
  BY <1>7, SetPlayIInv
<1>8. CASE Other
  BY <1>8, OtherIInv
<1>9. CASE \E due \in BOOLEAN : Send(due)
  BY <1>9, SendIInv
<1>10. CASE UNCHANGED vars
  BY <1>10
  DEF IInv, vars, strategyVars, clocks, history, TypeOK, ChannelIsBuilt, ReturnIsKnown,
      SilentUntilRelocalized, PenalizedIsOut, KickoffIsKnown, OrderFitsPlay
<1> QED
  BY <1>1, <1>2, <1>3, <1>4, <1>5, <1>6, <1>7, <1>8, <1>9, <1>10 DEF Next, Round

LEMMA Invariance == Spec => []IInv
BY InitIInv, NextIInv, PTL DEF Spec

-----------------------------------------------------------------------------
(* The properties *)

(* Every variable keeps its type; in particular setPlay_ready never writes  *)
(* through the empty fixed_ready_pos.                                       *)
THEOREM TypeCorrect == Spec => []TypeOK
<1>1. IInv => TypeOK
  BY DEF IInv
<1> QED
  BY <1>1, Invariance, PTL

(* No team message is sent by a robot that has been penalized and has not   *)
(* been located since, although proceed() returns early in Initial.         *)
THEOREM StaysSilent == Spec => []SilentUntilRelocalized
<1>1. IInv => SilentUntilRelocalized
  BY DEF IInv
<1> QED
  BY <1>1, Invariance, PTL

(* A penalized robot is told to stand, and the handlers of Ready, Set and   *)
(* Playing leave it neither the striker's role nor a request for it.        *)
THEOREM PenalizedStandsAside == Spec => []PenalizedIsOut
<1>1. IInv => PenalizedIsOut
  BY DEF IInv
<1> QED
  BY <1>1, Invariance, PTL

(* No robot is sent to the ball in a kick-off of the opponent before the    *)
(* ball has moved or 10 seconds have passed, in whatever order the game     *)
(* states come.                                                             *)
THEOREM KickoffIsRespected == Spec => []OppKickoffRespected
<1>1. IInv => OppKickoffRespected
  BY DEF IInv, KickoffIsKnown, OrderFitsPlay, OppKickoffRespected
<1> QED
  BY <1>1, Invariance, PTL
=============================================================================
