------------------------------ MODULE Localization ------------------------------
(***************************************************************************)
(* The robot's belief in its place on the field (localization.cpp).  Every *)
(* feature that is seen fits two places, one of them the other one         *)
(* mirrored, so a robot can know its half only from the referee: after     *)
(* Initial and after a penalty it stands in its own half.                  *)
(*                                                                         *)
(* A place is x, the distance from the centre line towards the opponent's  *)
(* goal, and dir, 1 if the robot faces that goal and -1 if its own.  What  *)
(* is seen is within Noise of the truth, and odometry is exact.  Sorting   *)
(* keeps the order of equal hypotheses, as libstdc++ does up to 16.        *)
(***************************************************************************)
EXTENDS Integers, FiniteSets, SequencesExt

CONSTANTS
  FieldLength,  \* half of it: -FieldLength..FieldLength are the places
  Noise,        \* how far from the truth a feature puts the robot
  MergeDist,    \* hypotheses this near are merged (0.6)
  TrustDist,    \* how far a hypothesis of medium trust may be (4.0)
  Sightings,    \* what a line, a point or both may show: lines, points, trust
  MaxSeen       \* how many of them one image shows

ASSUME LocalizationAssumption ==
  /\ {FieldLength, Noise, MergeDist, TrustDist, MaxSeen} \subseteq Nat
  /\ 2 * Noise < FieldLength

VARIABLES
  real, out, placed,  \* the truth; Initial, Finished, Standby or penalized;
                      \* an image has been taken since the robot was put down
  initialized, position  \* loc_quality is above 0 just while initialized

locVars == <<real, out, placed, initialized, position>>

Place == [x: Int, dir: {1, -1}]
Mirrored(p) == [x |-> -p.x, dir |-> -p.dir]
AbsX(n) == IF n < 0 THEN -n ELSE n

\* A turned robot is further away than any place on the field.
PoseDist(p, q) == AbsX(p.x - q.x) + IF p.dir = q.dir THEN 0 ELSE 4 * FieldLength
InOwnHalf(p) == p.x < 0 \/ (p.x = 0 /\ p.dir = 1)

\* Where the referee lets a robot stand: in its own half, away from the middle.
Start == [x: -FieldLength..-(Noise + 1), dir: {1, -1}]

-----------------------------------------------------------------------------
\* hypothesesLines and hypothesesPointFeatures: every hypothesis is followed by
\* its mirror image, and either may be the one that is found.
Seen == [s: Sightings, off: -Noise..Noise, swapped: BOOLEAN]
SeenLists == BoundedSeq(Seen, MaxSeen)
Hypotheses(truth, seen) ==
  FlattenSeq([i \in DOMAIN seen |->
    LET p == [truth EXCEPT !.x = @ + seen[i].off]
        q == IF seen[i].swapped THEN Mirrored(p) ELSE p
        Hyp(place) == [p |-> place] @@ seen[i].s
    IN <<Hyp(q), Hyp(Mirrored(q))>>])

NumFeatures(h) == Cardinality(h.lines) + Cardinality(h.points)
SortDesc(hyps) ==
  LET most == Max({0} \cup {NumFeatures(hyps[i]) : i \in DOMAIN hyps})
  IN FlattenSeq([k \in 1..most + 1 |-> SelectSeq(hyps, LAMBDA h: NumFeatures(h) = most + 1 - k)])

\* One hypothesis for all of a list: the mean place, every feature, the best trust.
Mean(list) ==
  LET sum == FoldLeft(LAMBDA n, h: n + h.p.x, 0, list)
      mean == (2 * AbsX(sum) + Len(list)) \div (2 * Len(list))
  IN [list[1].p EXCEPT !.x = IF sum < 0 THEN -mean ELSE mean]
Combine(list) ==
  [p |-> Mean(list),
   lines |-> UNION {list[i].lines : i \in DOMAIN list},
   points |-> UNION {list[i].points : i \in DOMAIN list},
   trust |-> IF \E i \in DOMAIN list : list[i].trust = "high" THEN "high" ELSE "medium"]

\* The loop over i = 1, 2, ... of merge: each hypothesis takes the later ones near
\* it and itself, which therefore counts twice in the mean.
Group(hyps) == <<Head(hyps)>> \o SelectSeq(hyps, LAMBDA h: PoseDist(h.p, Head(hyps).p) <= MergeDist)

MergeNext(acc, ignored) ==
  IF acc.rest = <<>> THEN acc
  ELSE LET h == Combine(Group(acc.rest))
       IN [done |-> Append(acc.done, h),
           most |-> IF Len(Group(acc.rest)) > 1 THEN Max({acc.most, NumFeatures(h)}) ELSE acc.most,
           rest |-> SelectSeq(acc.rest, LAMBDA g: PoseDist(g.p, Head(acc.rest).p) > MergeDist)]

\* Those with one feature less than the most that were merged are dropped, all of
\* them if none was: most - 1 is then beyond every number.
Merge(hyps) ==
  LET acc == FoldLeft(MergeNext, [done |-> <<>>, most |-> 0, rest |-> SortDesc(hyps)], hyps)
  IN SelectSeq(SortDesc(acc.done), LAMBDA h: acc.most > 0 /\ NumFeatures(h) >= acc.most - 1)

-----------------------------------------------------------------------------
\* hyp_for_init: a pair of mirror images that is better than all the others and
\* rests on enough features.  (Feature 0, the centre circle, is never seen.)
ClearPair(hyps) ==
  /\ \/ Len(hyps) = 2
     \/ Len(hyps) > 2 /\ NumFeatures(hyps[1]) > NumFeatures(hyps[3])
  /\ LET points == Cardinality(hyps[1].points)
         lines == Cardinality(hyps[1].lines)
     IN points >= 2 \/ (points = 1 /\ lines >= 3) \/ lines >= 4
StartPlace(hyps) == IF InOwnHalf(hyps[1].p) THEN hyps[1].p ELSE hyps[2].p

\* What proceed uses of the merged hypotheses: the place to start from, if there is
\* one, and where each of them is and how far it is trusted.
Found(hyps) ==
  [start |-> IF ClearPair(hyps) THEN {StartPlace(hyps)} ELSE {},
   places |-> {[p |-> hyps[i].p, trust |-> hyps[i].trust] : i \in DOMAIN hyps}]

\* Hypotheses of medium trust have to be near the belief; the closest one counts.
Trusted(places, belief) ==
  {h \in places : h.trust = "high" \/ PoseDist(h.p, belief) <= TrustDist}
Closest(near, belief) ==
  {h.p : h \in {g \in near : \A f \in near : PoseDist(g.p, belief) <= PoseDist(f.p, belief)}}

\* The belief goes part of the way, at most one place.
Towards(belief, goal) ==
  LET step == IF goal.x > belief.x THEN 1 ELSE IF goal.x < belief.x THEN -1 ELSE 0
  IN {[x |-> x, dir |-> dir] : x \in {belief.x, belief.x + step}, dir \in {belief.dir, goal.dir}}

Moved(p, odo) == [x |-> p.x + p.dir * odo.x, dir |-> IF odo.turned THEN -p.dir ELSE p.dir]

(* Wrong: only the quality is reset. *)
StillInitialized_keep == initialized

\* gc_state of this round decides first: in Initial, Finished and Standby and while
\* penalized the belief is thrown away, and may be found anew in the same call.
StillInitialized == initialized /\ ~out

Localize(found, odo) ==
  IF StillInitialized
  THEN LET belief == Moved(position, odo)
           goals == Closest(Trusted(found.places, belief), belief)
       IN /\ initialized' = TRUE
          /\ IF goals = {} THEN position' = belief
             ELSE \E goal \in goals : position' \in Towards(belief, goal)
  ELSE /\ initialized' = (found.start # {})
       /\ IF found.start = {} THEN UNCHANGED position ELSE position' \in found.start

\* What one image may give, with the place of the robot.
Readings ==
  {[at |-> truth, found |-> Found(Merge(Hypotheses(truth, seen)))] :
     truth \in [x: -FieldLength..FieldLength, dir: {1, -1}], seen \in SeenLists}

\* An image: the robot has walked or turned since the last one, and one that does
\* not know its place has stayed where it may.
Image(odo) ==
  /\ real' = Moved(real, odo)
  /\ real'.x \in -FieldLength..FieldLength
  /\ initialized \/ odo.x = 0 \/ real' \in Start
  /\ \E r \in Readings : r.at = real' /\ Localize(r.found, odo)
  /\ placed' = TRUE
  /\ UNCHANGED out

\* The referee takes a robot out and puts it back; somebody carries it meanwhile.
TakeOut == ~out /\ out' = TRUE /\ UNCHANGED <<real, placed, initialized, position>>
Carry ==
  /\ out
  /\ real' \in [x: -FieldLength..FieldLength, dir: {1, -1}]
  /\ placed' = FALSE
  /\ UNCHANGED <<out, initialized, position>>
LetIn ==
  /\ out /\ placed /\ real \in Start
  /\ out' = FALSE
  /\ UNCHANGED <<real, placed, initialized, position>>

LocInit ==
  /\ real \in Start /\ out = TRUE /\ placed = FALSE
  /\ initialized = FALSE /\ position = [x |-> 0, dir |-> 1]

Odometry == [x: {-1, 0, 1}, turned: BOOLEAN]
LocNext ==
  \/ \E odo \in Odometry : Image(odo)
  \/ TakeOut \/ Carry \/ LetIn

LocSpec == LocInit /\ [][LocNext]_locVars

-----------------------------------------------------------------------------
LocTypeOK ==
  /\ real \in Place /\ position \in Place
  /\ {out, placed, initialized} \subseteq BOOLEAN

\* What the images must give for it: from a robot's own half the clear pair shows its
\* place, and a hypothesis on the wrong side comes with one as trusted on the right side.
Near(p, truth) == p \in Place /\ PoseDist(p, truth) <= Noise
ReadingsFit ==
  \A r \in Readings :
    /\ r.found.start \subseteq Place
    /\ r.at \in Start => \A p \in r.found.start : Near(p, r.at)
    /\ \A h \in r.found.places :
         \/ Near(h.p, r.at)
         \/ /\ h.p \in Place /\ h.p.dir = -r.at.dir
            /\ \E g \in r.found.places : g.trust = h.trust /\ Near(g.p, r.at)

\* A robot in play that knows its place knows which half it is in, although every
\* picture of the field fits both and hypotheses[1] is taken without a look.
KnowsItsSide ==
  ~out /\ initialized => PoseDist(position, real) <= Noise

=============================================================================
