------------------------------- MODULE MCSensing -------------------------------
(***************************************************************************)
(* The sensing of the robots: the G1's fall detection and adapters, the    *)
(* T1's fall detection and connector, and of the robots with vision the    *)
(* localization and the trackers.  These five share no variable, so a      *)
(* behaviour is one of one part and the others stay as they begin.         *)
(***************************************************************************)
EXTENDS FallDetectionG1, MotionConnectorT1, G1Adapters, Localization, MultiTargetTracker

VARIABLE part

\* A corner or a crossing with its line, two corners, and four lines.
MCSightings ==
  {[lines |-> {1}, points |-> {1}, trust |-> "high"],
   [lines |-> {}, points |-> {1, 2}, trust |-> "medium"],
   [lines |-> {1, 2}, points |-> {}, trust |-> "medium"],
   [lines |-> {1, 2, 3, 4}, points |-> {}, trust |-> "high"]}

\* The images of this instance give what KnowsItsSide rests on.
ASSUME ReadingsAssumption == ReadingsFit

Init ==
  /\ part \in {"g1 fall", "g1 adapters", "t1", "localization", "tracker"}
  /\ FallInit /\ (part # "g1 fall" => ~down)
  /\ AdaptersInit /\ (part # "g1 adapters" => enabled)
  /\ T1Init
  /\ LocInit /\ (part # "localization" => real = [x |-> -FieldLength, dir |-> 1])
  /\ TrackerInit

Next ==
  /\ UNCHANGED part
  /\ \/ part = "g1 fall" /\ FallNext /\ UNCHANGED <<t1Vars, adapterVars, locVars, trackerVars>>
     \/ part = "g1 adapters" /\ AdaptersNext /\ UNCHANGED <<fallVars, t1Vars, locVars, trackerVars>>
     \/ part = "t1" /\ T1Next /\ UNCHANGED <<fallVars, adapterVars, locVars, trackerVars>>
     \/ part = "localization" /\ LocNext /\ UNCHANGED <<fallVars, t1Vars, adapterVars, trackerVars>>
     \/ part = "tracker" /\ TrackerNext /\ UNCHANGED <<fallVars, t1Vars, adapterVars, locVars>>

\* The fairness concerns the behaviours of the T1: in those of another part the
\* connector could run but does not.
Spec ==
  /\ Init /\ [][Next]_<<part, fallVars, t1Vars, adapterVars, locVars, trackerVars>>
  /\ part = "t1" => T1Fairness

TypeOK == FallTypeOK /\ T1TypeOK /\ AdaptersTypeOK /\ LocTypeOK /\ TrackerTypeOK

=============================================================================
