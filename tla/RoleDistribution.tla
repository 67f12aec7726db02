--------------------------- MODULE RoleDistribution ---------------------------
(***************************************************************************)
(* Who takes which role around the ball: RobocupStrategy::                 *)
(* distributePositions and permutePositions_play, run by every robot of    *)
(* the team for itself.  A robot knows where it is itself; of the others   *)
(* it knows the pose in their last message.  So two robots may take the    *)
(* same role for a while, and each walks to the place it believes in.      *)
(*                                                                         *)
(* The ball rests, the team has agreed on its striker (StrikerElection)    *)
(* and nobody is penalized meanwhile.  The field is a line, on which the   *)
(* estimated walking time, which the code squares, is the distance.  That  *)
(* the goalie and the striker go by orders of their own is left out: their *)
(* roles do not depend on where they are.                                  *)
(***************************************************************************)
EXTENDS Integers, FiniteSets, FiniteSetsExt, Functions

CONSTANTS
  Teams,      \* the sets of player indices; the goalie is 0
  LineEnd,    \* the places are 0 .. LineEnd
  Formations  \* where generatePosition puts the roles 0, 1, ... of a team

Goalie == 0
NoStriker == 255
NoRole == 255

ASSUME RolesAssumption ==
  /\ \A team \in Teams : IsFiniteSet(team) /\ team # {} /\ team \subseteq Nat \ {NoStriker}
  /\ LineEnd \in Nat
  /\ \A f \in Formations : f \in [0 .. Cardinality(DOMAIN f) - 1 -> 0 .. LineEnd]

VARIABLES
  team,    \* robots, the same on each of them
  leader,  \* cur_striker, NoStriker without one
  spot,    \* position_by_role
  pose,    \* where a robot is
  told,    \* the pose in the last message of a robot
  role     \* role_by_player of a robot for itself

roleVars == <<team, leader, spot, pose, told, role>>

Roles == 0 .. Cardinality(team) - 1

RolesTypeOK ==
  /\ team \in Teams
  /\ leader \in team \cup {NoStriker}
  /\ spot \in Formations
  /\ pose \in [team -> 0 .. LineEnd]
  /\ told \in [team -> 0 .. LineEnd]
  /\ role \in [team -> Roles \cup {NoRole}]

RolesInit ==
  /\ team \in Teams
  /\ leader \in team \cup {NoStriker}
  /\ spot \in {f \in Formations : Cardinality(DOMAIN f) = Cardinality(team)}
  /\ pose \in [team -> 0 .. LineEnd]
  /\ told = pose
  /\ role = [r \in team |-> NoRole]

(* Wrong: nobody keeps the other robots from the role of the goalie. *)
MayTake_anyGoalie(r, p) == leader # NoStriker => (r = leader <=> p = 0)

(* Role 0 is for the striker if there is one, and 1 for the goalie if it is not the striker. *)
MayTake(r, p) ==
  /\ Goalie \in team /\ leader # Goalie => (r = Goalie <=> p = 1)
  /\ leader # NoStriker => (r = leader <=> p = 0)

(* next_permutation reaches f before g. *)
Earlier(f, g) == \E r \in team : f[r] < g[r] /\ \A s \in team : s < r => f[s] = g[s]

(* The first permutation of the roles with the least sum, the robots being at at. *)
PermutePositions(at) ==
  LET Dist(r, p) == (at[r] - spot[p]) * (at[r] - spot[p])
      priced == {[f |-> f, sum |-> MapThenSumSet(LAMBDA r : Dist(r, f[r]), team)] :
                   f \in {g \in [team -> Roles] : (\A r \in team : MayTake(r, g[r])) /\ IsInjective(g)}}
      least == Min({c.sum : c \in priced})
      best == {c.f : c \in {d \in priced : d.sum = least}}
  IN  IF priced = {} THEN [r \in team |-> Cardinality({s \in team : s < r})]
      ELSE CHOOSE f \in best : \A g \in best \ {f} : Earlier(f, g)

(* play() of robot r: its own pose is the present one. *)
DistributePositions(r) ==
  /\ role' = [role EXCEPT ![r] = PermutePositions([told EXCEPT ![r] = pose[r]])[r]]
  /\ UNCHANGED <<team, leader, spot, pose, told>>

(* A message of r reaches the others. *)
Tell(r) ==
  /\ told' = [told EXCEPT ![r] = pose[r]]
  /\ UNCHANGED <<team, leader, spot, pose, role>>

(* External: r walks to the place of its role. *)
Walk(r) ==
  /\ role[r] # NoRole
  /\ pose[r] # spot[role[r]]
  /\ pose' = [pose EXCEPT ![r] = IF @ < spot[role[r]] THEN @ + 1 ELSE @ - 1]
  /\ UNCHANGED <<team, leader, spot, told, role>>

(* A round without news changes nothing. *)
RolesNext == \E r \in team : Walk(r) \/ Tell(r) \/ DistributePositions(r)

(* Each robot has a role of its own, the striker's and the goalie's being the right ones. *)
RolesFit ==
  /\ \A r, s \in team : r # s => role[r] # role[s]
  /\ leader # NoStriker => role[leader] = 0
  /\ Goalie \in team /\ leader # Goalie /\ Cardinality(team) > 1 => role[Goalie] = 1

(***************************************************************************)
(* The team settles: from some time on every robot has a role of its own,  *)
(* a striker and a goalie have theirs, and each stands at its place.  The  *)
(* robots walk while they decide on different and outdated poses, and      *)
(* permutePositions_play does not prefer the role that a robot has.        *)
(***************************************************************************)
RolesSettle == <>[](RolesFit /\ \A r \in team : role[r] \in Roles /\ pose[r] = spot[role[r]])
=============================================================================
