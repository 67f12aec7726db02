------------------------------- MODULE G1Adapters -------------------------------
(***************************************************************************)
(* The bridge of the G1 to its external perception                         *)
(* (g1_adapters/g1_external_adapters.cpp, g1_ready_location_filter.h).     *)
(* Two DDS threads handle detections and locations; the strategy loop      *)
(* calls proceed(), which withdraws what is too old, and then reads the    *)
(* channels.  A location passes a filter that holds back jumps and gives a *)
(* good quality only to what has been stable for a while.                  *)
(*                                                                         *)
(* Positions are points of a line; the heading, which the filter treats    *)
(* the same way, is left out.  A message is either a point or NaN.  The    *)
(* log, the point features and the head angles are left out.               *)
(***************************************************************************)
EXTENDS Integers

CONSTANTS
  Places,          \* the points of the line, integers
  NaN,             \* a location that is not a number
  None,            \* no ball, no candidate, no place
  StableDist,      \* stable_translation_m
  JumpDist,        \* jump_translation_m
  StableRequired,  \* stable_required_us, in ticks
  DetectionTimeout, \* kDetectionTimeoutUs, in ticks
  LocationTimeout, \* kLocationTimeoutUs, in ticks
  MaxHandling      \* bound: the ticks a callback takes

\* A callback computes and publishes without waiting, a timeout is half a second:
\* its data are published before they are too old.
ASSUME AdapterAssumption ==
  /\ Places \subseteq Int
  /\ NaN \notin Places /\ None \notin Places
  /\ StableDist \in Nat /\ JumpDist \in Nat
  /\ StableRequired \in Nat \ {0}
  /\ None \notin [place : Places, for : 0 .. StableRequired]
  /\ DetectionTimeout \in Nat /\ LocationTimeout \in Nat
  /\ MaxHandling \in 0 .. DetectionTimeout /\ MaxHandling \in 0 .. LocationTimeout

VARIABLES
  enabled,        \* ROBOCUP_G1_READY_STABLE_LOC
  published,      \* last_published, and last_observed, which is the same
  stableFor,      \* now - stable_since_us, up to StableRequired
  candidate,      \* jump_candidate with its age, up to StableRequired
  ball,           \* rel_ball_channel
  location,       \* loc_position_channel
  detectionAge,   \* now - last_detection_us, up to the timeout plus 1, or None
  locationAge,    \* now - last_location_us, in the same way
  detecting,      \* what handleDetection is about to publish, or "idle"
  locating,       \* what handleLocation is about to filter, or None
  loop,           \* the strategy loop: where it is in proceed()
  trail,          \* history: the last place and since when small steps lead to it
  jumped          \* history: how long the trail to the last jump was

filterVars == <<enabled, published, stableFor, candidate>>
adapterVars == <<filterVars, ball, location, detectionAge, locationAge, detecting, locating, loop, trail, jumped>>

Age(limit) == 0 .. limit + 1 \cup {None}
Located == [place : Places \cup {None}, good : BOOLEAN]
Trail == [place : Places, for : 0 .. StableRequired]

AdaptersTypeOK ==
  /\ enabled \in BOOLEAN
  /\ published \in Places \cup {None}
  /\ stableFor \in 0 .. StableRequired
  /\ candidate \in Trail \cup {None}
  /\ ball \in BOOLEAN
  /\ location \in Located
  /\ detectionAge \in Age(DetectionTimeout)
  /\ locationAge \in Age(LocationTimeout)
  /\ detecting \in {"idle", "ball", "no ball"}
  /\ locating \in Places \cup {NaN, None}
  /\ loop \in {"sleep", "proceed", "late ball", "checked ball", "late location", "strategy"}
  /\ trail \in Trail \cup {None}
  /\ jumped \in 0 .. StableRequired

\* Position() with quality 0, or the channel before anything is published.
NoLocation == [place |-> None, good |-> FALSE]

AdaptersInit ==
  /\ enabled \in BOOLEAN
  /\ published = None
  /\ stableFor = 0
  /\ candidate = None
  /\ ball = FALSE
  /\ location = NoLocation
  /\ detectionAge = None /\ locationAge = None
  /\ detecting = "idle" /\ locating = None
  /\ loop = "sleep"
  /\ trail = None
  /\ jumped = StableRequired

-----------------------------------------------------------------------------
(* G1ReadyLocationFilter *)

Distance(p, q) == IF p < q THEN q - p ELSE p - q
IsStableStep(p, q) == Distance(p, q) <= StableDist
IsJump(p, q) == Distance(p, q) > JumpDist

Accept(raw, age, good) ==
  /\ published' = raw
  /\ stableFor' = age
  /\ candidate' = None
  /\ location' = [place |-> raw, good |-> good]

\* publishRejected: the old place without its quality.
Reject ==
  /\ location' = [place |-> published, good |-> FALSE]
  /\ UNCHANGED <<published, stableFor>>

(* Wrong: a new candidate inherits the age of the one before. *)
HandleJumpCandidate_keepAge(raw) ==
  IF candidate # None /\ candidate.for = StableRequired
  THEN Accept(raw, StableRequired, TRUE)
  ELSE Reject /\ candidate' = [place |-> raw, for |-> IF candidate = None THEN 0 ELSE candidate.for]

HandleJumpCandidate(raw) ==
  LET follows == candidate # None /\ IsStableStep(raw, candidate.place)
  IN IF follows /\ candidate.for = StableRequired
     THEN Accept(raw, StableRequired, TRUE)
     ELSE Reject /\ candidate' = [place |-> raw, for |-> IF follows THEN candidate.for ELSE 0]

(* Wrong: NaN is not told from a place. *)
Filter_noNaN(raw) ==
  IF published = None \/ raw = NaN THEN Accept(raw, 0, FALSE)
  ELSE IF IsJump(raw, published) THEN HandleJumpCandidate(raw)
  ELSE Accept(raw, stableFor, stableFor = StableRequired)

Filter(raw) ==
  CASE ~enabled /\ raw = NaN -> \* NaN goes through, with quality 0
         location' = NoLocation /\ published' = None /\ stableFor' = 0 /\ candidate' = None
    [] ~enabled /\ raw # NaN -> Accept(raw, 0, TRUE)
    [] enabled /\ raw = NaN -> Reject /\ UNCHANGED candidate
    [] OTHER ->
         CASE published = None -> Accept(raw, 0, FALSE)
           [] published # None /\ IsJump(raw, published) -> HandleJumpCandidate(raw)
           [] OTHER ->
                LET age == IF IsStableStep(raw, published) THEN stableFor ELSE 0
                IN Accept(raw, age, age = StableRequired)

-----------------------------------------------------------------------------
(* The DDS callbacks: the time is stored first, the channel published last *)

HandleDetection ==
  /\ detecting = "idle"
  /\ detecting' \in {"ball", "no ball"}
  /\ detectionAge' = 0
  /\ UNCHANGED <<filterVars, ball, location, locationAge, locating, loop, trail, jumped>>

PublishBall ==
  /\ detecting # "idle"
  /\ ball' = (detecting = "ball")
  /\ detecting' = "idle"
  /\ UNCHANGED <<filterVars, location, detectionAge, locationAge, locating, loop, trail, jumped>>

HandleLocation ==
  /\ locating = None
  /\ locating' \in Places \cup {NaN}
  /\ locationAge' = 0
  /\ UNCHANGED <<filterVars, ball, location, detectionAge, detecting, loop, trail, jumped>>

\* History: since when the places that came in have followed each other.
Extend(raw) ==
  CASE raw = NaN -> trail
    [] raw # NaN /\ trail # None /\ IsStableStep(raw, trail.place) -> [trail EXCEPT !.place = raw]
    [] OTHER -> [place |-> raw, for |-> 0]

PublishLocation ==
  /\ locating # None
  /\ Filter(locating)
  /\ locating' = None
  /\ trail' = Extend(locating)
  /\ jumped' = IF published # None /\ published' # None /\ IsJump(published', published)
               THEN trail'.for ELSE jumped
  /\ UNCHANGED <<enabled, ball, detectionAge, locationAge, detecting, loop>>

-----------------------------------------------------------------------------
(* The strategy loop *)

TooOld(age, limit) == age # None /\ age > limit

(* Wrong: the ball is withdrawn with the location. *)
CheckBall_byLocation ==
  /\ loop = "proceed"
  /\ loop' = IF TooOld(locationAge, LocationTimeout) THEN "late ball" ELSE "checked ball"
  /\ UNCHANGED <<filterVars, ball, location, detectionAge, locationAge, detecting, locating, trail, jumped>>

CheckBall ==
  /\ loop = "proceed"
  /\ loop' = IF TooOld(detectionAge, DetectionTimeout) THEN "late ball" ELSE "checked ball"
  /\ UNCHANGED <<filterVars, ball, location, detectionAge, locationAge, detecting, locating, trail, jumped>>

WithdrawBall ==
  /\ loop = "late ball"
  /\ loop' = "checked ball"
  /\ ball' = FALSE
  /\ UNCHANGED <<filterVars, location, detectionAge, locationAge, detecting, locating, trail, jumped>>

CheckLocation ==
  /\ loop = "checked ball"
  /\ loop' = IF TooOld(locationAge, LocationTimeout) THEN "late location" ELSE "strategy"
  /\ UNCHANGED <<filterVars, ball, location, detectionAge, locationAge, detecting, locating, trail, jumped>>

WithdrawLocation ==
  /\ loop = "late location"
  /\ loop' = "strategy"
  /\ location' = NoLocation
  /\ UNCHANGED <<filterVars, ball, detectionAge, locationAge, detecting, locating, trail, jumped>>

StartRound ==
  /\ loop = "sleep"
  /\ loop' = "proceed"
  /\ UNCHANGED <<filterVars, ball, location, detectionAge, locationAge, detecting, locating, trail, jumped>>

EndRound ==
  /\ loop = "strategy"
  /\ loop' = "sleep"
  /\ UNCHANGED <<filterVars, ball, location, detectionAge, locationAge, detecting, locating, trail, jumped>>

-----------------------------------------------------------------------------
Older(age, limit) == IF age = None \/ age > limit THEN age ELSE age + 1
Longer(n) == IF n < StableRequired THEN n + 1 ELSE n
LongerTrail(t) == IF t = None THEN None ELSE [t EXCEPT !.for = Longer(@)]

\* The loop's round takes less than a tick, a callback at most MaxHandling.
Tick ==
  /\ loop = "sleep"
  /\ detecting # "idle" => detectionAge < MaxHandling
  /\ locating # None => locationAge < MaxHandling
  /\ stableFor' = Longer(stableFor)
  /\ candidate' = LongerTrail(candidate)
  /\ detectionAge' = Older(detectionAge, DetectionTimeout)
  /\ locationAge' = Older(locationAge, LocationTimeout)
  /\ trail' = LongerTrail(trail)
  /\ UNCHANGED <<enabled, published, ball, location, detecting, locating, loop, jumped>>

AdaptersNext ==
  \/ HandleDetection \/ PublishBall \/ HandleLocation \/ PublishLocation
  \/ StartRound \/ CheckBall \/ WithdrawBall \/ CheckLocation \/ WithdrawLocation \/ EndRound
  \/ Tick

AdaptersSpec == AdaptersInit /\ [][AdaptersNext]_adapterVars

-----------------------------------------------------------------------------
(***************************************************************************)
(* When the strategy runs, a ball and a location of good quality are not   *)
(* older than their timeouts, whichever callback came between proceed()'s  *)
(* checks and its publications.                                            *)
(***************************************************************************)
StaleIsWithdrawn ==
  loop = "strategy" =>
    /\ ball => ~TooOld(detectionAge, DetectionTimeout)
    /\ location.good => ~TooOld(locationAge, LocationTimeout)

(***************************************************************************)
(* The place that is handed on jumps only to where the locations have been *)
(* going in small steps for the whole of StableRequired: no single wrong   *)
(* location, and no two that contradict each other, move the robot.        *)
(***************************************************************************)
JumpNeedsConfirmation == enabled => jumped = StableRequired

=============================================================================
