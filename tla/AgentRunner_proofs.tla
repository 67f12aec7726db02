--------------------------- MODULE AgentRunner_proofs ---------------------------
(***************************************************************************)
(* Proofs about AgentRunner for every memory of the ball and any number of *)
(* changes of the channels in a round.                                     *)
(*                                                                         *)
(* An answer is given at some time of a round and used at its end.  The    *)
(* invariants keep with each answer what was known when it was given: what *)
(* stays true under any change of the channels for the striker and for     *)
(* Localize, and what the unchanged channels still show for the question   *)
(* whether anybody answers.                                                *)
(***************************************************************************)
EXTENDS AgentRunner, TLAPS

Names == {"GoaliePositioning", "WalkRelative", "Localize", "BallSearch", "Dribble",
          "WalkToPosition"}

Done(a) == inRound /\ a \notin pending

\* What each agent has to say.
AnswersFit ==
  /\ answer["GoaliePositioning"] \in {"Nothing", "stand", "position"}
  /\ answer["WalkRelative"] \in {"Nothing", "walk relative"}
  /\ answer["Localize"] \in {"Nothing", "look around"}
  /\ answer["BallSearch"] \in {"Nothing", "search", "push"}
  /\ answer["Dribble"] \in {"Nothing", "dribble", "push"}
  /\ answer["WalkToPosition"] \in {"Nothing", "stand", "walk to ball", "position"}
  /\ inRound => /\ answer["GoaliePositioning"] # "Nothing" => order = "KeepGoal"
                /\ order = "WalkRelative" => answer["WalkRelative"] # "Nothing"

AgentsRunInRounds == pending # {} => inRound

\* The memory is not younger than the last ball that an agent has read.
MemoryIsHonest ==
  /\ lastBall <= memory
  /\ inRound /\ team = "fresh" => teamFresh

\* Who does not search for a striker's ball has read of one.
Evidence == lastBall <= TTL \/ teamFresh
SearchOrEvidence ==
  Done("BallSearch") /\ order \in StrikerOrders /\ answer["BallSearch"] # "search" => Evidence

\* Localize gives the robot back with the next good quality.
LookIsRemembered ==
  /\ looks <= 1
  /\ inRound /\ steady => good
  /\ looks = 1 /\ ~Done("Localize") => bestGood
  /\ Done("Localize") /\ steady => /\ looks = 1 => answer["Localize"] = "Nothing"
                                   /\ answer["Localize"] = "look around" => bestGood

\* As long as the channels do not change nobody keeps silent in vain.
LeftToAnother ==
  inRound /\ changes = 0 =>
    /\ Done("BallSearch") /\ order \in StrikerOrders /\ ~KnowsBall => answer["BallSearch"] = "search"
    /\ Done("WalkToPosition") /\ order \in WalkOrders \cup {"KeepGoal"}
         => answer["WalkToPosition"] # "Nothing"
    /\ Done("WalkToPosition") /\ order = "MoveBallGoal" /\ answer["WalkToPosition"] = "Nothing"
         => ~KnowsBall
    /\ Done("Dribble") /\ order = "MoveBall" /\ good /\ ~BallIsFar /\ KnowsBall
         => answer["Dribble"] # "Nothing"

IInv ==
  /\ TypeOK
  /\ AnswersFit
  /\ AgentsRunInRounds
  /\ MemoryIsHonest
  /\ SearchOrEvidence
  /\ LookIsRemembered
  /\ LeftToAnother

-----------------------------------------------------------------------------
(* Whose answer is chosen *)

LEMMA AgentList ==
  /\ DOMAIN Agents = 1 .. 6
  /\ Agents[1] = "GoaliePositioning" /\ Agents[2] = "WalkRelative" /\ Agents[3] = "Localize"
  /\ Agents[4] = "BallSearch" /\ Agents[5] = "Dribble" /\ Agents[6] = "WalkToPosition"
  /\ AgentNames = Names
<1>1. /\ DOMAIN Agents = 1 .. 6
      /\ Agents[1] = "GoaliePositioning" /\ Agents[2] = "WalkRelative" /\ Agents[3] = "Localize"
      /\ Agents[4] = "BallSearch" /\ Agents[5] = "Dribble" /\ Agents[6] = "WalkToPosition"
  BY DEF Agents
<1>2. AgentNames = {Agents[i] : i \in 1 .. 6}
  BY <1>1 DEF AgentNames, ToSet
<1> QED
  BY <1>1, <1>2 DEF Names

LEMMA OneOfSix == \A k \in 1 .. 6 : k = 1 \/ k = 2 \/ k = 3 \/ k = 4 \/ k = 5 \/ k = 6
OBVIOUS

LEMMA FirstExists ==
  ASSUME NEW S \in SUBSET (1 .. 6), S # {}
  PROVE  \E i \in S : \A j \in S : i <= j
<1>1. CASE 1 \in S
  BY <1>1
<1>2. CASE 1 \notin S /\ 2 \in S
  BY <1>2
<1>3. CASE 1 \notin S /\ 2 \notin S /\ 3 \in S
  BY <1>3
<1>4. CASE 1 \notin S /\ 2 \notin S /\ 3 \notin S /\ 4 \in S
  BY <1>4
<1>5. CASE S \subseteq {5, 6} /\ 5 \in S
  BY <1>5
<1>6. CASE S \subseteq {6}
  <2>1. S = {6}
    BY <1>6
  <2> QED
    BY <2>1
<1> QED
  BY <1>1, <1>2, <1>3, <1>4, <1>5, <1>6

(* Either nobody answers, or the first who does commands the robot. *)
LEMMA FirstAnswerIsChosen ==
  \/ Chosen = "Nothing" /\ \A a \in AgentNames : answer[a] = "Nothing"
  \/ \E i \in 1 .. 6 : /\ Chosen = answer[Agents[i]] /\ Chosen # "Nothing"
                       /\ \A j \in 1 .. i - 1 : answer[Agents[j]] = "Nothing"
<1>1. Answering \in SUBSET (1 .. 6)
  BY AgentList DEF Answering
<1>2. \A a \in AgentNames : \E i \in 1 .. 6 : a = Agents[i]
  BY AgentList DEF Names
<1>3. CASE Answering = {}
  <2>1. \A i \in 1 .. 6 : answer[Agents[i]] = "Nothing"
    BY <1>3, AgentList DEF Answering
  <2>2. Chosen = "Nothing"
    BY <1>3 DEF Chosen
  <2> QED
    BY <1>2, <2>1, <2>2
<1>4. CASE Answering # {}
  <2> DEFINE first == CHOOSE i \in Answering : \A j \in Answering : i <= j
  <2>1. first \in Answering /\ \A j \in Answering : first <= j
    BY <1>1, <1>4, FirstExists
  <2> HIDE DEF first
  <2>2. Chosen = answer[Agents[first]]
    BY <1>4 DEF Chosen, first
  <2>3. first \in 1 .. 6 /\ answer[Agents[first]] # "Nothing"
    BY <1>1, <2>1 DEF Answering
  <2>4. \A j \in 1 .. first - 1 : answer[Agents[j]] = "Nothing"
    BY <1>1, <2>1, <2>3, AgentList DEF Answering
  <2> QED
    BY <2>2, <2>3, <2>4
<1> QED
  BY <1>3, <1>4

-----------------------------------------------------------------------------
(* Types *)

LEMMA SilentType == \A a \in Names : Silent[a] = "Nothing"
BY AgentList DEF Silent

LEMMA InitIInv == Init => IInv
<1> SUFFICES ASSUME Init PROVE IInv
  OBVIOUS
<1>1. answer = Silent /\ \A a \in Names : answer[a] = "Nothing"
  BY SilentType DEF Init
<1>2. Silent \in [AgentNames -> Commands]
  BY DEF Silent, Commands
<1>3. Gone \in Ages /\ 0 \in 0 .. MaxChanges
  BY AgentAssumption DEF Gone, Ages
<1>4. TypeOK
  <2>1. /\ ready \in BOOLEAN /\ good \in BOOLEAN /\ remoteFar \in BOOLEAN
        /\ inRound \in BOOLEAN /\ bestGood \in BOOLEAN /\ hadLoc \in BOOLEAN
        /\ dribbleHadLoc \in BOOLEAN /\ late \in BOOLEAN
        /\ teamFresh \in BOOLEAN /\ steady \in BOOLEAN
    BY DEF Init
  <2> QED
    BY <1>1, <1>2, <1>3, <2>1 DEF Init, TypeOK, Orders, Balls, TeamBalls
<1>5. AnswersFit
  BY <1>1 DEF Init, AnswersFit, Names
<1>6. MemoryIsHonest /\ AgentsRunInRounds
  BY <1>3 DEF Init, MemoryIsHonest, AgentsRunInRounds, Ages
<1>7. ~inRound /\ looks = 0
  BY DEF Init
<1>8. SearchOrEvidence /\ LookIsRemembered /\ LeftToAnother
  <2>1. ~Done("BallSearch") /\ ~Done("Localize") /\ looks <= 1 /\ looks # 1
    BY <1>7 DEF Done
  <2>2. SearchOrEvidence /\ LeftToAnother
    BY <1>7, <2>1 DEF SearchOrEvidence, LeftToAnother
  <2> QED
    BY <1>7, <2>1, <2>2 DEF LookIsRemembered
<1> QED
  BY <1>4, <1>5, <1>6, <1>8 DEF IInv

(* An age of the memory after an update. *)
LEMMA RememberedType ==
  ASSUME TypeOK
  PROVE  /\ Remembered \in Ages
         /\ ~SeesBall => Remembered = memory
BY AgentAssumption DEF TypeOK, Remembered, Ages, Gone

LEMMA OlderType ==
  ASSUME NEW age \in Ages, NEW other \in Ages
  PROVE  /\ Older(age) \in Ages
         /\ age <= other => Older(age) <= Older(other)
BY AgentAssumption DEF Older, Ages, Gone

-----------------------------------------------------------------------------
(* The rounds *)

LEMMA StartRoundIInv ==
  ASSUME IInv, StartRound
  PROVE  IInv'
<1>1. /\ inRound' = TRUE /\ pending' = {"Localize", "BallSearch", "Dribble", "WalkToPosition"}
      /\ changes' = 0 /\ bestGood' = bestGood /\ looks' = looks
      /\ order' \in Orders /\ ball' \in Balls /\ team' \in TeamBalls
      /\ teamFresh' = (team' = "fresh") /\ steady' = good'
      /\ inRound = FALSE
  BY DEF StartRound, IInv, TypeOK
<1>2. /\ answer' \in [AgentNames -> Commands]
      /\ AnswersFit'
  <2>1. PICK c \in GoaliePositioning(order') :
          answer' = [Silent EXCEPT !["GoaliePositioning"] = c,
                                   !["WalkRelative"] = WalkRelative(order')]
    BY DEF StartRound
  <2>2. /\ c \in {"Nothing", "stand", "position"}
        /\ c # "Nothing" => order' = "KeepGoal"
    BY DEF GoaliePositioning
  <2>3. /\ WalkRelative(order') \in {"Nothing", "walk relative"}
        /\ order' = "WalkRelative" => WalkRelative(order') = "walk relative"
    BY DEF WalkRelative
  <2>4. /\ answer' \in [Names -> Commands]
        /\ answer'["GoaliePositioning"] = c /\ answer'["WalkRelative"] = WalkRelative(order')
        /\ \A a \in Names \ {"GoaliePositioning", "WalkRelative"} : answer'[a] = "Nothing"
    BY <2>1, <2>2, <2>3, AgentList DEF Silent, Names, Commands
  <2> QED
    BY <2>2, <2>3, <2>4, AgentList DEF AnswersFit, Names
<1>3. memory' \in Ages /\ lastBall' \in Ages /\ lastBall' <= memory'
  BY OlderType DEF StartRound, IInv, TypeOK, MemoryIsHonest
<1>4. TypeOK'
  <2>1. /\ ready' \in BOOLEAN /\ good' \in BOOLEAN /\ remoteFar' \in BOOLEAN
        /\ hadLoc' \in BOOLEAN /\ dribbleHadLoc' \in BOOLEAN /\ late' \in BOOLEAN
        /\ teamFresh' \in BOOLEAN /\ steady' \in BOOLEAN /\ inRound' \in BOOLEAN
        /\ bestGood' \in BOOLEAN
    BY DEF StartRound, IInv, TypeOK
  <2>2. pending' \subseteq AgentNames /\ changes' \in 0 .. MaxChanges
    BY <1>1, AgentList, AgentAssumption DEF Names
  <2> QED
    BY <1>1, <1>2, <1>3, <2>1, <2>2 DEF IInv, TypeOK
<1>5. MemoryIsHonest' /\ AgentsRunInRounds'
  BY <1>1, <1>3 DEF MemoryIsHonest, AgentsRunInRounds
<1>6. SearchOrEvidence' /\ LeftToAnother'
  BY <1>1 DEF SearchOrEvidence, LeftToAnother, Done
<1>7. LookIsRemembered'
  BY <1>1 DEF IInv, LookIsRemembered, Done
<1> QED
  BY <1>2, <1>4, <1>5, <1>6, <1>7 DEF IInv

(* A change of the channels leaves true what was known when the agents      *)
(* answered, and there is nothing to agree on any more.                     *)
LEMMA ChangeChannelIInv ==
  ASSUME IInv, ChangeChannel
  PROVE  IInv'
<1>1. /\ inRound /\ changes' = changes + 1 /\ changes' \in 0 .. MaxChanges /\ changes' # 0
      /\ UNCHANGED <<order, ready, inRound, pending, answer, bestGood, hadLoc, dribbleHadLoc,
                     memory, late, lastBall, looks>>
  BY AgentAssumption DEF ChangeChannel, IInv, TypeOK, memories
<1>2. /\ good' \in BOOLEAN /\ ball' \in Balls /\ remoteFar' \in BOOLEAN /\ team' \in TeamBalls
      /\ teamFresh' \in BOOLEAN /\ steady' \in BOOLEAN
      /\ teamFresh => teamFresh'
      /\ team' = "fresh" => teamFresh'
      /\ steady' => steady /\ good' = good
  <2>1. CASE good' = ~good /\ steady' = FALSE /\ UNCHANGED <<ball, remoteFar, team, teamFresh>>
    <3>1. good' \in BOOLEAN /\ steady' \in BOOLEAN
      BY <2>1 DEF IInv, TypeOK
    <3> QED
      BY <1>1, <2>1, <3>1 DEF IInv, TypeOK, MemoryIsHonest
  <2>2. CASE /\ ball' \in Balls \ {ball}
             /\ remoteFar' \in IF ball' = "none" THEN BOOLEAN ELSE {FALSE}
             /\ UNCHANGED <<good, team, teamFresh, steady>>
    <3>1. remoteFar' \in BOOLEAN
      BY <2>2
    <3> QED
      BY <1>1, <2>2, <3>1 DEF IInv, TypeOK, MemoryIsHonest
  <2>3. CASE /\ team' \in TeamBalls \ {team}
             /\ teamFresh' = (teamFresh \/ team' = "fresh")
             /\ UNCHANGED <<good, ball, remoteFar, steady>>
    <3>1. teamFresh' \in BOOLEAN
      BY <2>3 DEF IInv, TypeOK
    <3> QED
      BY <1>1, <2>3, <3>1 DEF IInv, TypeOK, MemoryIsHonest
  <2> QED
    BY <2>1, <2>2, <2>3 DEF ChangeChannel
<1>3. TypeOK'
  BY <1>1, <1>2 DEF IInv, TypeOK
<1>4. AnswersFit'
  BY <1>1 DEF IInv, AnswersFit
<1>5. MemoryIsHonest' /\ AgentsRunInRounds'
  BY <1>1, <1>2 DEF IInv, MemoryIsHonest, AgentsRunInRounds
<1>6. SearchOrEvidence'
  BY <1>1, <1>2 DEF IInv, SearchOrEvidence, Evidence, Done
<1>7. LookIsRemembered'
  <2>1. looks' <= 1
    BY <1>1 DEF IInv, LookIsRemembered
  <2>2. steady' => good'
    <3>1. steady => good
      BY <1>1 DEF IInv, LookIsRemembered
    <3> QED
      BY <1>2, <3>1
  <2>3. looks' = 1 /\ ~Done("Localize")' => bestGood'
    BY <1>1 DEF IInv, LookIsRemembered, Done
  <2>4. ASSUME Done("Localize")', steady'
        PROVE  /\ looks' = 1 => answer'["Localize"] = "Nothing"
               /\ answer'["Localize"] = "look around" => bestGood'
    BY <1>1, <1>2, <2>4 DEF IInv, LookIsRemembered, Done
  <2> QED
    BY <2>1, <2>2, <2>3, <2>4 DEF LookIsRemembered
<1>8. LeftToAnother'
  BY <1>1 DEF LeftToAnother
<1> QED
  BY <1>3, <1>4, <1>5, <1>6, <1>7, <1>8 DEF IInv

-----------------------------------------------------------------------------
(* The agents *)

(* What an answer has in common with the others: it counts for this agent   *)
(* alone, the own ball that an agent has read is no older than the memory   *)
(* it leaves, and who knew a ball before knows one after it.                *)
LEMMA AnswerKeeps ==
  ASSUME IInv, NEW a \in Names, NEW c \in Commands, Answer(a, c),
         memory' = memory \/ memory' = Remembered
  PROVE  /\ inRound /\ inRound' /\ pending' = pending \ {a} /\ pending' \subseteq AgentNames
         /\ answer' \in [AgentNames -> Commands] /\ answer'[a] = c
         /\ \A b \in Names \ {a} : answer'[b] = answer[b]
         /\ UNCHANGED <<order, ready, good, ball, team, remoteFar, inRound, changes, teamFresh,
                        steady, looks>>
         /\ memory' \in Ages /\ lastBall' \in Ages
         /\ MemoryIsHonest' /\ AgentsRunInRounds'
         /\ Evidence => Evidence'
         /\ SeesBall => Evidence'
         /\ KnowsBall' <=> KnowsBall
<1>1. /\ inRound /\ inRound' /\ pending' = pending \ {a} /\ pending' \subseteq AgentNames
      /\ UNCHANGED <<order, ready, good, ball, team, remoteFar, inRound, changes, teamFresh,
                     steady, looks>>
  BY DEF Answer, IInv, TypeOK, AgentsRunInRounds, inputs
<1>2. /\ answer' \in [AgentNames -> Commands] /\ answer'[a] = c
      /\ \A b \in Names \ {a} : answer'[b] = answer[b]
  BY AgentList DEF Answer, IInv, TypeOK
<1>3. /\ memory \in Ages /\ lastBall \in Ages /\ memory' \in Ages
      /\ ~SeesBall => memory' = memory
  BY RememberedType DEF IInv, TypeOK
<1>4. /\ lastBall' \in Ages /\ lastBall' <= lastBall
      /\ SeesBall => lastBall' = 0
  BY <1>3, AgentAssumption DEF Answer, Ages, Gone
<1>5. lastBall' <= memory'
  <2>1. lastBall <= memory
    BY DEF IInv, MemoryIsHonest
  <2>2. CASE SeesBall
    BY <1>3, <1>4, <2>2 DEF Ages
  <2>3. CASE ~SeesBall
    BY <1>3, <1>4, <2>1, <2>3 DEF Ages
  <2> QED
    BY <2>2, <2>3
<1>6. MemoryIsHonest' /\ AgentsRunInRounds'
  BY <1>1, <1>5 DEF IInv, MemoryIsHonest, AgentsRunInRounds
<1>7. lastBall <= TTL => lastBall' <= TTL
  BY <1>3, <1>4, AgentAssumption DEF Ages
<1>8. SeesBall => lastBall' <= TTL
  BY <1>4, AgentAssumption
<1>9. (Evidence => Evidence') /\ (SeesBall => Evidence')
  BY <1>1, <1>7, <1>8 DEF Evidence
<1>10. KnowsBall' <=> KnowsBall
  <2>1. SeesBall' <=> SeesBall
    BY <1>1 DEF SeesBall
  <2>2. ~SeesBall => (Fallback' <=> Fallback)
    BY <1>1, <1>3 DEF Fallback
  <2> QED
    BY <2>1, <2>2 DEF KnowsBall
<1> QED
  BY <1>1, <1>2, <1>3, <1>4, <1>6, <1>9, <1>10

LEMMA LocalizeIInv ==
  ASSUME IInv, Localize
  PROVE  IInv'
<1> DEFINE hasLoc == good \/ hadLoc
           leaveToDribble == SeesBall /\ hasLoc /\ order \in BallOrders
           lost == ~leaveToDribble /\ (~good \/ ~bestGood)
           c == IF lost THEN "look around" ELSE "Nothing"
<1>1. /\ Answer("Localize", c) /\ hadLoc' = hasLoc /\ bestGood' = IF lost THEN good ELSE bestGood
      /\ UNCHANGED <<dribbleHadLoc, memory, late>>
  BY DEF Localize
<1>2. "Localize" \in Names /\ c \in Commands
  BY DEF Names, Commands
<1>3. hadLoc' \in BOOLEAN /\ bestGood' \in BOOLEAN
  BY <1>1 DEF IInv, TypeOK, SeesBall
<1>4. /\ lost => c = "look around" /\ bestGood' = good
      /\ ~lost => c = "Nothing" /\ bestGood' = bestGood
      /\ good /\ bestGood => ~lost
  BY <1>1
<1> HIDE DEF lost, c, hasLoc
<1>5. /\ inRound /\ inRound' /\ pending' = pending \ {"Localize"} /\ pending' \subseteq AgentNames
      /\ answer' \in [AgentNames -> Commands] /\ answer'["Localize"] = c
      /\ \A b \in Names \ {"Localize"} : answer'[b] = answer[b]
      /\ UNCHANGED <<order, ready, good, ball, team, remoteFar, inRound, changes, teamFresh,
                     steady, looks>>
      /\ lastBall' \in Ages
      /\ MemoryIsHonest' /\ AgentsRunInRounds'
      /\ Evidence => Evidence'
      /\ KnowsBall' <=> KnowsBall
  BY <1>1, <1>2, AnswerKeeps
<1>6. TypeOK'
  BY <1>1, <1>3, <1>5 DEF IInv, TypeOK
<1>7. AnswersFit'
  BY <1>4, <1>5 DEF IInv, AnswersFit, Names
<1>8. SearchOrEvidence'
  BY <1>5 DEF IInv, SearchOrEvidence, Done, Names
<1>9. LookIsRemembered'
  <2>1. looks' <= 1
    BY <1>5 DEF IInv, LookIsRemembered
  <2>2. (steady' => good') /\ Done("Localize")'
    BY <1>5 DEF IInv, LookIsRemembered, Done
  <2>3. CASE "Localize" \in pending
    BY <1>4, <1>5, <2>1, <2>2, <2>3 DEF IInv, LookIsRemembered, Done
  <2> QED
    BY <1>1, <2>3 DEF Answer
<1>10. LeftToAnother'
  BY <1>5 DEF IInv, LeftToAnother, Done, Names, BallIsFar, SeesBall
<1> QED
  BY <1>5, <1>6, <1>7, <1>8, <1>9, <1>10 DEF IInv

LEMMA AllSearchAnswers ==
  ASSUME order \in Orders, NEW fallback, NEW unseen
  PROVE  /\ SearchAnswers(fallback, unseen) \subseteq {"Nothing", "search", "push"}
         /\ order \in StrikerOrders /\ ~SeesBall /\ ~fallback
              => SearchAnswers(fallback, unseen) = {"search"}
<1> USE DEF SearchAnswers, SearchOrNothing, LostStrikerAnswer, StrikerOrders, BallOrders
<1>1. CASE order \in {"None", "WalkRelative", "USE_A"}
  BY <1>1
<1>2. CASE order \in StrikerOrders /\ ~SeesBall
  BY <1>2
<1>3. CASE order \in StrikerOrders /\ SeesBall
  BY <1>3
<1>4. CASE order \in {"SUPPORTER", "KeepGoal"}
  BY <1>4
<1> QED
  BY <1>1, <1>2, <1>3, <1>4 DEF Orders, WalkOrders

(* A striker without any ball searches; who does not search has read of a   *)
(* ball: its own, the striker's, or one that the memory still vouches for.  *)
LEMMA BallSearchIInv ==
  ASSUME IInv, BallSearch
  PROVE  IInv'
<1> DEFINE asks == order \notin {"None", "WalkRelative"}
           remembered == IF asks THEN Remembered ELSE memory
           fallback == team = "fresh" \/ remembered <= TTL
           unseen == ~SeesBall /\ late
<1>1. PICK c \in SearchAnswers(fallback, unseen) : Answer("BallSearch", c)
  BY DEF BallSearch
<1>2. /\ late' = unseen /\ memory' = remembered
      /\ UNCHANGED <<bestGood, hadLoc, dribbleHadLoc>>
  BY DEF BallSearch
<1>3. "BallSearch" \in Names /\ c \in {"Nothing", "search", "push"} /\ c \in Commands
  <2>1. SearchAnswers(fallback, unseen) \subseteq {"Nothing", "search", "push"}
    BY AllSearchAnswers DEF IInv, TypeOK
  <2> QED
    BY <2>1 DEF Names, Commands, BallCommands
<1>4. late' \in BOOLEAN
  BY <1>2 DEF SeesBall, IInv, TypeOK
<1>5. /\ inRound /\ inRound' /\ pending' = pending \ {"BallSearch"}
      /\ pending' \subseteq AgentNames
      /\ answer' \in [AgentNames -> Commands] /\ answer'["BallSearch"] = c
      /\ \A b \in Names \ {"BallSearch"} : answer'[b] = answer[b]
      /\ UNCHANGED <<order, ready, good, ball, team, remoteFar, inRound, changes, teamFresh,
                     steady, looks>>
      /\ memory' \in Ages /\ lastBall' \in Ages
      /\ MemoryIsHonest' /\ AgentsRunInRounds'
      /\ SeesBall => Evidence'
      /\ KnowsBall' <=> KnowsBall
  BY <1>1, <1>2, <1>3, AnswerKeeps
<1>6. TypeOK'
  BY <1>2, <1>4, <1>5 DEF IInv, TypeOK
<1>7. AnswersFit'
  BY <1>3, <1>5 DEF IInv, AnswersFit, Names
<1>8. SearchOrEvidence'
  <2>1. order \in StrikerOrders /\ ~SeesBall /\ ~fallback => c = "search"
    BY <1>1, AllSearchAnswers DEF IInv, TypeOK
  <2>2. fallback => Evidence'
    <3>1. team = "fresh" => teamFresh'
      BY <1>5 DEF IInv, MemoryIsHonest
    <3>2. remembered <= TTL => lastBall' <= TTL
      BY <1>2, <1>5, AgentAssumption DEF MemoryIsHonest, Ages
    <3> QED
      BY <3>1, <3>2 DEF Evidence
  <2> HIDE DEF fallback
  <2> QED
    BY <1>5, <2>1, <2>2 DEF SearchOrEvidence
<1>9. LookIsRemembered'
  BY <1>2, <1>5 DEF IInv, LookIsRemembered, Done, Names
<1>10. LeftToAnother'
  <2>1. order \in StrikerOrders /\ ~KnowsBall => c = "search"
    <3>1. ~KnowsBall => ~SeesBall /\ ~fallback
      BY RememberedType DEF IInv, KnowsBall, Fallback
    <3> HIDE DEF fallback
    <3> QED
      BY <1>1, <3>1, AllSearchAnswers DEF IInv, TypeOK
  <2> QED
    BY <1>5, <2>1 DEF IInv, LeftToAnother, Done, Names, BallIsFar, SeesBall
<1> QED
  BY <1>5, <1>6, <1>7, <1>8, <1>9, <1>10 DEF IInv

LEMMA DribbleIInv ==
  ASSUME IInv, Dribble
  PROVE  IInv'
<1> DEFINE asks == order \in BallOrders
           hasLoc == good \/ dribbleHadLoc
           c == IF asks THEN DribbleAnswer(hasLoc) ELSE "Nothing"
<1>1. /\ Answer("Dribble", c)
      /\ dribbleHadLoc' = IF asks THEN hasLoc ELSE dribbleHadLoc
      /\ UNCHANGED <<bestGood, hadLoc, memory, late>>
  BY DEF Dribble
<1>2. "Dribble" \in Names /\ c \in {"Nothing", "dribble", "push"} /\ c \in Commands
  BY DEF Names, Commands, BallCommands, DribbleAnswer
<1>3. dribbleHadLoc' \in BOOLEAN
  BY <1>1 DEF IInv, TypeOK
<1>4. order = "MoveBall" /\ good /\ ~BallIsFar /\ KnowsBall => c # "Nothing"
  BY DEF BallOrders, DribbleAnswer, BallIsFar, KnowsBall, SeesBall, IInv, TypeOK, Balls
<1> HIDE DEF c, hasLoc
<1>5. /\ inRound /\ inRound' /\ pending' = pending \ {"Dribble"} /\ pending' \subseteq AgentNames
      /\ answer' \in [AgentNames -> Commands] /\ answer'["Dribble"] = c
      /\ \A b \in Names \ {"Dribble"} : answer'[b] = answer[b]
      /\ UNCHANGED <<order, ready, good, ball, team, remoteFar, inRound, changes, teamFresh,
                     steady, looks>>
      /\ lastBall' \in Ages
      /\ MemoryIsHonest' /\ AgentsRunInRounds'
      /\ Evidence => Evidence'
      /\ KnowsBall' <=> KnowsBall
  BY <1>1, <1>2, AnswerKeeps
<1>6. TypeOK'
  BY <1>1, <1>3, <1>5 DEF IInv, TypeOK
<1>7. AnswersFit'
  BY <1>2, <1>5 DEF IInv, AnswersFit, Names
<1>8. SearchOrEvidence'
  BY <1>5 DEF IInv, SearchOrEvidence, Done, Names
<1>9. LookIsRemembered'
  BY <1>1, <1>5 DEF IInv, LookIsRemembered, Done, Names
<1>10. LeftToAnother'
  BY <1>4, <1>5 DEF IInv, LeftToAnother, Done, Names, BallIsFar, SeesBall
<1> QED
  BY <1>5, <1>6, <1>7, <1>8, <1>9, <1>10 DEF IInv

LEMMA WalkToPositionIInv ==
  ASSUME IInv, WalkToPosition
  PROVE  IInv'
<1> DEFINE asks == order \in WalkOrders \cup {"KeepGoal", "MoveBallGoal"}
           updates == asks /\ order = "MoveBallGoal" /\ ~(ready /\ ~good)
           c == IF asks THEN WalkAnswer ELSE "Nothing"
<1>1. /\ Answer("WalkToPosition", c)
      /\ memory' = IF updates THEN Remembered ELSE memory
      /\ UNCHANGED <<bestGood, hadLoc, dribbleHadLoc, late>>
  BY DEF WalkToPosition
<1>2. /\ "WalkToPosition" \in Names
      /\ c \in {"Nothing", "stand", "walk to ball", "position"} /\ c \in Commands
  BY DEF Names, Commands, BallCommands, WalkAnswer
<1>3. order \in WalkOrders \cup {"KeepGoal"} => c # "Nothing"
  BY DEF WalkAnswer, WalkOrders
<1>4. order = "MoveBallGoal" /\ c = "Nothing" => ~KnowsBall
  BY DEF WalkAnswer
<1> HIDE DEF c, updates
<1>5. /\ inRound /\ inRound' /\ pending' = pending \ {"WalkToPosition"}
      /\ pending' \subseteq AgentNames
      /\ answer' \in [AgentNames -> Commands] /\ answer'["WalkToPosition"] = c
      /\ \A b \in Names \ {"WalkToPosition"} : answer'[b] = answer[b]
      /\ UNCHANGED <<order, ready, good, ball, team, remoteFar, inRound, changes, teamFresh,
                     steady, looks>>
      /\ memory' \in Ages /\ lastBall' \in Ages
      /\ MemoryIsHonest' /\ AgentsRunInRounds'
      /\ Evidence => Evidence'
      /\ KnowsBall' <=> KnowsBall
  BY <1>1, <1>2, AnswerKeeps
<1>6. TypeOK'
  BY <1>1, <1>5 DEF IInv, TypeOK
<1>7. AnswersFit'
  BY <1>2, <1>5 DEF IInv, AnswersFit, Names
<1>8. SearchOrEvidence'
  BY <1>5 DEF IInv, SearchOrEvidence, Done, Names
<1>9. LookIsRemembered'
  BY <1>1, <1>5 DEF IInv, LookIsRemembered, Done, Names
<1>10. LeftToAnother'
  BY <1>3, <1>4, <1>5 DEF IInv, LeftToAnother, Done, Names, BallIsFar, SeesBall
<1> QED
  BY <1>5, <1>6, <1>7, <1>8, <1>9, <1>10 DEF IInv

-----------------------------------------------------------------------------
(* The command of a round *)

(* Only Localize looks around. *)
LEMMA OnlyLocalizeLooks ==
  ASSUME AnswersFit, Chosen = "look around"
  PROVE  answer["Localize"] = "look around"
<1>1. PICK i \in 1 .. 6 : Chosen = answer[Agents[i]]
  BY FirstAnswerIsChosen
<1>2. i = 1 \/ i = 2 \/ i = 3 \/ i = 4 \/ i = 5 \/ i = 6
  BY OneOfSix
<1>3. i # 1 /\ i # 2 /\ i # 4 /\ i # 5 /\ i # 6
  BY <1>1, AgentList DEF AnswersFit
<1> QED
  BY <1>1, <1>2, <1>3, AgentList

LEMMA PublishCommandIInv ==
  ASSUME IInv, PublishCommand
  PROVE  IInv'
<1>1. /\ inRound /\ pending = {} /\ inRound' = FALSE /\ pending' = {} /\ changes' = 0
      /\ answer' = Silent /\ order' = "None" /\ ready' = FALSE
      /\ good' = FALSE /\ ball' = "none" /\ team' = "none" /\ remoteFar' = FALSE
      /\ teamFresh' = FALSE /\ steady' = FALSE
      /\ UNCHANGED <<bestGood, hadLoc, dribbleHadLoc, memory, late, lastBall>>
  BY DEF PublishCommand, Decided, memories
<1>2. looks' \in 0 .. 1 /\ (looks' = 1 => bestGood)
  <2>1. looks \in 0 .. 1
    <3>1. looks \in 0 .. 2 /\ looks <= 1
      BY DEF IInv, TypeOK, LookIsRemembered
    <3> QED
      BY <3>1
  <2>2. CASE steady /\ Chosen = "look around"
    <3>1. answer["Localize"] = "look around"
      BY <2>2, OnlyLocalizeLooks DEF IInv
    <3>2. Done("Localize")
      BY <1>1 DEF Done
    <3>3. looks # 1 /\ bestGood
      BY <2>2, <3>1, <3>2 DEF IInv, LookIsRemembered
    <3> QED
      <4>1. looks = 0
        BY <2>1, <3>3
      <4>2. looks' = IF looks < 2 THEN looks + 1 ELSE 2
        BY <2>2 DEF PublishCommand
      <4> QED
        BY <3>3, <4>1, <4>2
  <2>3. CASE ~(steady /\ Chosen = "look around")
    <3>1. looks' = 0
      BY <2>3 DEF PublishCommand
    <3> QED
      BY <3>1
  <2> QED
    BY <2>2, <2>3
<1>3. TypeOK'
  <2>1. Silent \in [AgentNames -> Commands]
    BY DEF Silent, Commands
  <2>2. changes' \in 0 .. MaxChanges
    BY <1>1, AgentAssumption
  <2>3. /\ inRound' \in BOOLEAN /\ ready' \in BOOLEAN /\ good' \in BOOLEAN
        /\ remoteFar' \in BOOLEAN /\ teamFresh' \in BOOLEAN /\ steady' \in BOOLEAN
    BY <1>1
  <2>4. looks' \in 0 .. 2
    BY <1>2
  <2> QED
    BY <1>1, <2>1, <2>2, <2>3, <2>4 DEF IInv, TypeOK, Orders, Balls, TeamBalls
<1>4. AnswersFit'
  <2>1. \A a \in Names : answer'[a] = "Nothing"
    BY <1>1, SilentType
  <2> QED
    BY <1>1, <2>1 DEF AnswersFit, Names
<1>5. MemoryIsHonest' /\ AgentsRunInRounds' /\ SearchOrEvidence' /\ LeftToAnother'
  BY <1>1 DEF IInv, MemoryIsHonest, AgentsRunInRounds, SearchOrEvidence, LeftToAnother, Done
<1>6. LookIsRemembered'
  <2>1. looks' <= 1
    BY <1>2
  <2> QED
    BY <1>1, <1>2, <2>1 DEF LookIsRemembered, Done
<1> QED
  BY <1>3, <1>4, <1>5, <1>6 DEF IInv

LEMMA NextIInv ==
  ASSUME IInv, [Next]_vars
  PROVE  IInv'
<1>1. CASE StartRound
  BY <1>1, StartRoundIInv
<1>2. CASE ChangeChannel
  BY <1>2, ChangeChannelIInv
<1>3. CASE Localize
  BY <1>3, LocalizeIInv
<1>4. CASE BallSearch
  BY <1>4, BallSearchIInv
<1>5. CASE Dribble
  BY <1>5, DribbleIInv
<1>6. CASE WalkToPosition
  BY <1>6, WalkToPositionIInv
<1>7. CASE PublishCommand
  BY <1>7, PublishCommandIInv
<1>8. CASE UNCHANGED vars
  <2> USE <1>8 DEF vars, inputs, memories, histories
  <2>1. TypeOK'
    BY DEF IInv, TypeOK
  <2>2. AnswersFit' /\ AgentsRunInRounds' /\ MemoryIsHonest'
    BY DEF IInv, AnswersFit, AgentsRunInRounds, MemoryIsHonest
  <2>3. SearchOrEvidence' /\ LookIsRemembered'
    BY DEF IInv, SearchOrEvidence, Evidence, LookIsRemembered, Done
  <2>4. LeftToAnother'
    BY DEF IInv, LeftToAnother, Done, KnowsBall, SeesBall, Fallback, BallIsFar
  <2> QED
    BY <2>1, <2>2, <2>3, <2>4 DEF IInv
<1> QED
  BY <1>1, <1>2, <1>3, <1>4, <1>5, <1>6, <1>7, <1>8 DEF Next, AgentStep

LEMMA Invariance == Spec => []IInv
BY InitIInv, NextIInv, PTL DEF Spec

-----------------------------------------------------------------------------
(* The properties *)

(* Every variable keeps its type. *)
THEOREM TypeCorrect == Spec => []TypeOK
<1>1. IInv => TypeOK
  BY DEF IInv
<1> QED
  BY <1>1, Invariance, PTL

(* The agents agree on one that acts: in a round without a change of the    *)
(* channels every order has an answer, but for a MoveBallOrder when the     *)
(* ball is far or the location is lost.                                     *)
THEOREM OrdersAreAnswered == Spec => []EveryOrderAnswered
<1>1. IInv => EveryOrderAnswered
  <2> SUFFICES ASSUME IInv, Decided, changes = 0, order # "None",
                      order = "MoveBall" => good /\ ~BallIsFar
               PROVE  Chosen # "Nothing"
    BY DEF EveryOrderAnswered
  <2>1. inRound /\ \A a \in Names : Done(a)
    BY DEF Decided, Done
  <2>2. \E a \in Names : answer[a] # "Nothing"
    <3>1. CASE order = "WalkRelative"
      BY <2>1, <3>1 DEF IInv, AnswersFit, Names
    <3>2. CASE order \in WalkOrders \cup {"KeepGoal"}
      BY <2>1, <3>2 DEF IInv, LeftToAnother, Names
    <3>3. CASE order = "MoveBallGoal"
      BY <2>1, <3>3 DEF IInv, LeftToAnother, Names, StrikerOrders, BallOrders
    <3>4. CASE order = "MoveBall"
      BY <2>1, <3>4 DEF IInv, LeftToAnother, Names, StrikerOrders, BallOrders
    <3> QED
      BY <3>1, <3>2, <3>3, <3>4 DEF IInv, TypeOK, Orders, BallOrders
  <2> QED
    BY <2>2, FirstAnswerIsChosen, AgentList
<1> QED
  BY <1>1, Invariance, PTL

(* No robot that is to play the ball walks towards a ball that none of its  *)
(* agents has read in the last TTL ticks and no striker has seen, whatever  *)
(* the channels do between the agents of a round.                           *)
THEOREM BallWalksAreJustified == Spec => []BallWalkNeedsRecentBall
<1>1. IInv => BallWalkNeedsRecentBall
  <2> SUFFICES ASSUME IInv, Decided, order \in StrikerOrders,
                      Chosen \in BallCommands \cup {"position"}
               PROVE  Evidence
    BY DEF BallWalkNeedsRecentBall, Evidence
  <2>1. PICK i \in 1 .. 6 : /\ Chosen = answer[Agents[i]]
                            /\ \A j \in 1 .. i - 1 : answer[Agents[j]] = "Nothing"
    BY FirstAnswerIsChosen DEF BallCommands
  <2>2. i # 1 /\ i # 2 /\ i # 3
    BY <2>1, AgentList
    DEF IInv, AnswersFit, Decided, BallCommands, StrikerOrders, BallOrders
  <2>3. answer["BallSearch"] # "search"
    <3>1. CASE i = 4
      BY <2>1, <3>1, AgentList DEF BallCommands
    <3>2. CASE i \in 5 .. 6
      <4>1. answer[Agents[4]] = "Nothing"
        BY <2>1, <3>2
      <4> QED
        BY <4>1, AgentList
    <3> QED
      BY <2>2, <3>1, <3>2
  <2> QED
    BY <2>3 DEF IInv, SearchOrEvidence, Decided, Done
<1> QED
  BY <1>1, Invariance, PTL

(* In two rounds in a row that are well located throughout the robot is not *)
(* sent to look around twice, whatever the orders and balls in between.     *)
THEOREM LooksAroundOnce == Spec => []LooksOnce
<1>1. IInv => LooksOnce
  BY DEF IInv, LookIsRemembered, LooksOnce
<1> QED
  BY <1>1, Invariance, PTL
=============================================================================
