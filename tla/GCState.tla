-------------------------------- MODULE GCState --------------------------------
(***************************************************************************)
(* What a GameController packet becomes: the GCState that                  *)
(* GameController::run builds from it and publishes to gc_state.           *)
(*                                                                         *)
(* Of the two lists of players only their length and the penalty of this   *)
(* robot are kept, and of secondary_time whether it is short.  The other   *)
(* clock, the phase of the game and the message budget, which no modelled  *)
(* component acts on, are left out.                                        *)
(***************************************************************************)
EXTENDS Integers

CONSTANTS
  PlayerIdx,       \* this robot's index, from 0
  MAX_NUM_PLAYERS  \* the entries of a packet's list of players

ASSUME PlayerAssumption ==
  /\ MAX_NUM_PLAYERS \in Nat /\ MAX_NUM_PLAYERS >= 5
  /\ PlayerIdx \in 0 .. MAX_NUM_PLAYERS - 1

GameStates == {"Initial", "Ready", "Set", "Playing", "Finished", "Standby"}
SecondaryStates == {"Normal", "FreeKick", "PenaltyKick"}
KickingTeams == {"Unknown", "MyTeam", "OppTeam"}

(* What a packet says about the game; set plays of the same kind are one. *)
Situation == [state : GameStates,
              setPlay : {"None", "FreeKick", "PenaltyKick"},
              kicking : {"None", "Mine", "Theirs"},
              penalized : BOOLEAN,
              perTeam : Nat,
              short : BOOLEAN]     \* at most no_switch_ready_state_after seconds are left

GCStates == [state : GameStates,
             secondary : SecondaryStates,
             kicking : KickingTeams,
             setPlayKicking : KickingTeams,
             setPlayState : GameStates,
             penalized : BOOLEAN,
             short : BOOLEAN,
             players : 1 .. MAX_NUM_PLAYERS]

-----------------------------------------------------------------------------

Larger(a, b) == IF a > b THEN a ELSE b
Smaller(a, b) == IF a < b THEN a ELSE b

(* Wrong: a packet may claim more players than its list has entries. *)
PlayerCount_unclamped(perTeam) == Larger(Larger(perTeam, PlayerIdx + 1), 1)

PlayerCount(perTeam) == Smaller(Larger(Larger(perTeam, PlayerIdx + 1), 1), MAX_NUM_PLAYERS)

MapSetPlay(setPlay) == IF setPlay = "None" THEN "Normal" ELSE setPlay

MapKicking(kicking) ==
  CASE kicking = "None" -> "Unknown"
    [] kicking = "Mine" -> "MyTeam"
    [] kicking = "Theirs" -> "OppTeam"

NewState(s) ==
  [state |-> s.state,
   secondary |-> MapSetPlay(s.setPlay),
   kicking |-> MapKicking(s.kicking),
   setPlayKicking |-> IF s.setPlay # "None" THEN MapKicking(s.kicking) ELSE "Unknown",
   setPlayState |-> IF s.setPlay # "None" THEN s.state ELSE "Initial",
   penalized |-> s.penalized,
   short |-> s.short,
   players |-> PlayerCount(s.perTeam)]

(***************************************************************************)
(* The state published by the constructor; its list has max(5, PlayerIdx   *)
(* + 1) players.  secondary_time is not initialized: it may be anything.   *)
(***************************************************************************)
InitialState(short) ==
  [state |-> "Initial",
   secondary |-> "Normal",
   kicking |-> "Unknown",
   setPlayKicking |-> "Unknown",
   setPlayState |-> "Initial",
   penalized |-> FALSE,
   short |-> short,
   players |-> Larger(5, PlayerIdx + 1)]

(* GCState::operator== does not look at the two setPlay members. *)
SameState(a, b) ==
  /\ a.state = b.state
  /\ a.secondary = b.secondary
  /\ a.kicking = b.kicking
  /\ a.penalized = b.penalized
  /\ a.short = b.short
  /\ a.players = b.players

=============================================================================
