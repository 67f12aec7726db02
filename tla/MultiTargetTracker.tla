--------------------------- MODULE MultiTargetTracker ---------------------------
(***************************************************************************)
(* The tracker behind BallTracker and RelRobotsTracker                     *)
(* (multi_target_tracker.cpp): percepts of an image are assigned to known  *)
(* objects, others become new ones, and objects that stay close to each    *)
(* other without being seen together are merged.  Positions are cells on   *)
(* a line through the robot, which stands in cell 0; they are taken        *)
(* relative to the field, where only percepts and merging move objects.    *)
(***************************************************************************)
EXTENDS Integers, FiniteSets, SequencesExt

CONSTANTS
  Cells,        \* where objects are seen
  MaxPercepts,  \* most percepts of one image
  MaxId,        \* bound of next_id
  MaxConf,      \* confidence is 0..MaxConf,
  CheckConf,    \* checkConfidence, below which an object may be too old,
  Gain,         \* so much up when seen, and one down when not
  MergeAt,      \* objects this mergeable are merged
  MaxApart      \* bound: mergeability falls to -MaxApart, in the code without end

ASSUME TrackerAssumption ==
  /\ 0 \in Cells /\ Cells \subseteq Nat
  /\ \A p, q \in Cells : (p + q) \div 2 \in Cells     \* no gaps
  /\ {MaxPercepts, MaxId, MaxConf, Gain, MergeAt} \subseteq Nat \ {0} /\ Gain <= MaxConf
  /\ CheckConf \in 0..MaxConf
  /\ MaxApart \in Nat

VARIABLES
  mtList,      \* id -> [pos, confidence]
  next_id,
  mergeable,   \* pair of ids, the smaller one first -> how often found close
  removed      \* history: the ids that have been merged or given up

trackerVars == <<mtList, next_id, mergeable, removed>>

CellDist(p, q) == IF p < q THEN q - p ELSE p - q
Close(p, q) == CellDist(p, q) <= 1      \* 0.5 in the code's measure of distance
Without(f, S) == [x \in DOMAIN f \ S |-> f[x]]
With(f, x, v) == [y \in DOMAIN f \cup {x} |-> IF y = x THEN v ELSE f[y]]

-----------------------------------------------------------------------------
\* proceedFrame erases objects of little confidence that have not been seen for 4 s.
MayBeAged == {id \in DOMAIN mtList : mtList[id].confidence < CheckConf}

\* addPercepts takes the pairs of percept and object by distance, each percept and
\* each object once.
Candidates(percepts, known) ==
  {c \in (DOMAIN percepts) \X (DOMAIN known) : Close(percepts[c[1]], known[c[2]].pos)}
Gap(percepts, known, c) == CellDist(percepts[c[1]], known[c[2]].pos)
Shares(c, d) == c[1] = d[1] \/ c[2] = d[2]
Assignments(percepts, known) ==
  LET all == Candidates(percepts, known)
  IN {A \in SUBSET all :
        /\ \A c, d \in A : Shares(c, d) => c = d
        /\ \A c \in all \ A : \E d \in A :
             Shares(c, d) /\ Gap(percepts, known, d) <= Gap(percepts, known, c)}

\* Assigned objects take the percept's place and gain confidence, the others lose it.
Matched(o, pos) == [pos |-> pos, confidence |-> Min({MaxConf, o.confidence + Gain})]
Unmatched(o) == [o EXCEPT !.confidence = Max({0, @ - 1})]
Updated(percepts, known, A) ==
  [id \in DOMAIN known |->
     IF \E c \in A : c[2] = id
     THEN Matched(known[id], percepts[(CHOOSE c \in A : c[2] = id)[1]])
     ELSE Unmatched(known[id])]

\* The percepts left become new objects, in their order.
Left(percepts, A) == DOMAIN percepts \ {c[1] : c \in A}
NewId(left, i) == next_id + Cardinality({j \in left : j < i})
NewObjects(percepts, left) ==
  [id \in {NewId(left, i) : i \in left} |->
     [pos |-> percepts[CHOOSE i \in left : NewId(left, i) = id], confidence |-> Gain]]

\* Entries without their objects are erased, new objects get one with each other.
Pairs(ids) == {p \in ids \X ids : p[1] < p[2]}
EntriesFor(ids, new) ==
  [p \in Pairs(ids) |-> IF p[1] \in new \/ p[2] \in new THEN 0 ELSE mergeable[p]]

-----------------------------------------------------------------------------
(* Wrong: an object merged in this round is taken as the target. *)
Target_direct(merged, id) == id

\* The loop over mergeable: `merged` says into which object one has gone.
Target(merged, id) ==
  LET end[i \in 0..MaxId] == IF i \in DOMAIN merged THEN end[merged[i]] ELSE i
  IN end[id]

\* mtList[ids.first] makes an object at the robot's feet if there is none.
DefaultObject == [pos |-> 0, confidence |-> 0]
WithDefault(list, id) == IF id \in DOMAIN list THEN list ELSE With(list, id, DefaultObject)

\* mergeObjects
Joined(o, other) ==
  [pos |-> (o.pos + other.pos) \div 2, confidence |-> Max({o.confidence, other.confidence})]
MergeInto(list, from, to) == Without([list EXCEPT ![to] = Joined(@, list[from])], {from})

Lower(m) == Max({-MaxApart, m - 1})
Visit(acc, ids, seen) ==
  LET first == ids[1]
      second == ids[2]
      list == WithDefault(acc.list, first)
      m == acc.entries[ids]
      to == Target(acc.merged, first)
  IN IF second \notin DOMAIN acc.list THEN acc
     ELSE IF {first, second} \subseteq seen THEN [acc EXCEPT !.entries[ids] = 0]
     ELSE IF ~Close(list[first].pos, list[second].pos)
          THEN [acc EXCEPT !.list = list, !.entries[ids] = Lower(m)]
     ELSE IF m + 1 < MergeAt THEN [acc EXCEPT !.list = list, !.entries[ids] = m + 1]
     ELSE [list |-> MergeInto(list, second, to),
           entries |-> [acc.entries EXCEPT ![ids] = m + 1],
           merged |-> With(acc.merged, second, to)]

\* The map's order.  Each round of the loop takes the pair of that rank, if there is an
\* entry for it.
Rank(ids) == ids[1] * MaxId + ids[2]
MergeAll(list, entries, seen) ==
  LET round[n \in 0..MaxId * MaxId] ==
        IF n = 0 THEN [list |-> list, entries |-> entries, merged |-> <<>>]
        ELSE IF \E ids \in DOMAIN entries : Rank(ids) = n - 1
             THEN Visit(round[n - 1], CHOOSE ids \in DOMAIN entries : Rank(ids) = n - 1, seen)
             ELSE round[n - 1]
  IN round[MaxId * MaxId]

\* Objects without confidence are erased in the end.
Lost(list) == {id \in DOMAIN list : list[id].confidence = 0}

\* proceed(); a robot that is not ready for action clears the list.
TrackFrame(percepts, aged, ready) ==
  LET known == Without(mtList, aged) IN
  \E A \in Assignments(percepts, known) :
    LET left == Left(percepts, A)
        new == NewObjects(percepts, left)
        old == Updated(percepts, known, A)
        list == [id \in DOMAIN old \cup DOMAIN new |-> IF id \in DOMAIN new THEN new[id] ELSE old[id]]
        seen == DOMAIN new \cup {c[2] : c \in A}
        acc == MergeAll(list, EntriesFor(DOMAIN list, DOMAIN new), seen)
    IN /\ next_id' = next_id + Cardinality(left) /\ next_id' <= MaxId
       /\ mtList' = IF ready THEN Without(acc.list, Lost(acc.list)) ELSE <<>>
       /\ mergeable' = acc.entries
       /\ removed' = removed \cup DOMAIN acc.merged
                       \cup ((DOMAIN mtList \cup DOMAIN new) \ DOMAIN mtList')

TrackerInit == mtList = <<>> /\ next_id = 0 /\ mergeable = <<>> /\ removed = {}
TrackerNext ==
  \E percepts \in BoundedSeq(Cells, MaxPercepts), aged \in SUBSET MayBeAged, ready \in BOOLEAN :
    TrackFrame(percepts, aged, ready)
TrackerSpec == TrackerInit /\ [][TrackerNext]_trackerVars

-----------------------------------------------------------------------------
TrackerTypeOK ==
  /\ next_id \in 0..MaxId
  /\ mtList \in [DOMAIN mtList -> [pos: Cells, confidence: 1..MaxConf]]
  /\ DOMAIN mtList \subseteq 0..next_id - 1
  /\ \A p \in DOMAIN mergeable : mergeable[p] \in -MaxApart..MergeAt

\* An object that has been merged or given up does not come back, although the loop
\* over mergeable looks merged ones up with operator[], which makes them again; and
\* two objects that are tracked can always be merged.
NoGhosts ==
  /\ DOMAIN mtList \cap removed = {}
  /\ Pairs(DOMAIN mtList) \subseteq DOMAIN mergeable

=============================================================================
