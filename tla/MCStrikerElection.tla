--------------------------- MODULE MCStrikerElection ---------------------------
(***************************************************************************)
(* The agreement of a small team: on its striker, StrikerElection with a   *)
(* last robot whose clock is fast, and on the roles around the ball,       *)
(* RoleDistribution.  The two share no variable, so a behaviour is one of  *)
(* one part and the other stays as it begins.                              *)
(***************************************************************************)
EXTENDS StrikerElection, RoleDistribution, Sequences

VARIABLE part

MCSkew == [r \in Robot |-> IF r = NumRobots - 1 THEN 1 ELSE 0]

Place(s) == [n \in 0 .. Len(s) - 1 |-> s[n + 1]]

\* A goalie alone, with one and with two others, and three field players.
MCTeams == {{0}, {0, 2}, {0, 1, 2}, {1, 2, 3}}

MCFormations ==
  {Place(<<1>>), Place(<<1, 2>>), Place(<<0, 1, 2>>), Place(<<1, 2, 0>>), Place(<<2, 1, 1>>)}

MCInit ==
  /\ part \in {"striker", "roles"}
  /\ Init /\ (part = "roles" => penalized = {} /\ \A r \in Robot : walk[r] = NoBall)
  /\ RolesInit /\ (part = "striker" => team = {0} /\ leader = NoStriker /\ pose[0] = 1)

MCNext ==
  /\ UNCHANGED part
  /\ \/ part = "striker" /\ Next /\ UNCHANGED roleVars
     \/ part = "roles" /\ RolesNext /\ UNCHANGED vars

\* Robots with something left to decide, to tell or to walk do not all rest.
MCSpec ==
  /\ MCInit /\ [][MCNext]_<<part, vars, roleVars>>
  /\ WF_<<part, vars, roleVars>>(part = "roles" /\ MCNext)

TeamTypeOK == TypeOK /\ RolesTypeOK

(* The roles settle (RolesSettle), whatever the messages and the walking of the robots. *)
TeamSettles == part = "roles" => RolesSettle

=============================================================================
