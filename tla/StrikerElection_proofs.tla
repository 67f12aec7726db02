------------------------- MODULE StrikerElection_proofs -------------------------
(***************************************************************************)
(* Proofs about the agreement of a team: about StrikerElection, for any    *)
(* number of robots and any clocks what a team hears, for two robots and   *)
(* any delays and for any number of robots without delays that they agree; *)
(* and, in the last part, about RoleDistribution for any teams, formations *)
(* and poses.                                                              *)
(***************************************************************************)
EXTENDS MCStrikerElection, FiniteSetTheorems, WellFoundedInduction, TLAPS

(* A set of natural numbers that is not empty has a least element.         *)
LEMMA LeastExists ==
  ASSUME NEW S, S \subseteq Nat, S # {}
  PROVE  \E s \in S : \A o \in S : s <= o
<1> DEFINE R == OpToRel(<, Nat)
<1>1. IsWellFoundedOn(R, Nat)
  BY NatLessThanWellFounded
<1>2. \A x, y \in Nat : ~(<<y, x>> \in R) => x <= y
  BY DEF OpToRel
<1> HIDE DEF R
<1>3. \E x \in S : \A y \in S : ~(<<y, x>> \in R)
  BY <1>1, WFMin
<1> QED
  BY <1>2, <1>3

(* The robots are finitely many, so their numbers have a bound.            *)
LEMMA NumbersAreBounded ==
  ASSUME NEW S, S \subseteq Nat, IsFiniteSet(S)
  PROVE  \E k \in Nat : \A s \in S : s < k
<1> DEFINE Bounded(s) == \E k \in Nat : \A x \in s : x < k
           wrong == {s \in SUBSET S : ~Bounded(s)}
           sizes == {Cardinality(s) : s \in wrong}
<1> SUFFICES ASSUME wrong # {} PROVE FALSE
  OBVIOUS
<1>1. sizes \subseteq Nat
  BY FS_Subset, FS_CardinalityType
<1>2. sizes # {}
  OBVIOUS
<1>3. PICK n \in sizes : \A o \in sizes : n <= o
  <2> HIDE DEF sizes
  <2> QED
    BY <1>1, <1>2, LeastExists
<1>4. PICK s \in wrong : n = Cardinality(s)
  BY <1>3
<1>5. s \in SUBSET S /\ IsFiniteSet(s) /\ n \in Nat /\ ~Bounded(s)
  BY <1>1, <1>4, FS_Subset
<1>6. s # {}
  BY <1>5
<1>7. PICK x \in s : TRUE
  BY <1>6
<1> DEFINE t == s \ {x}
<1>8. Bounded(t)
  <2>1. Cardinality(t) = n - 1
    BY <1>4, <1>5, <1>7, FS_RemoveElement
  <2>2. t \in SUBSET S
    BY <1>5
  <2>3. Cardinality(t) \notin sizes
    <3> HIDE DEF sizes, t
    <3> QED
      BY <1>3, <1>5, <2>1
  <2>4. t \notin wrong
    <3> HIDE DEF t
    <3> QED
      BY <2>3
  <2> QED
    BY <2>2, <2>4
<1>9. PICK k \in Nat : \A y \in t : y < k
  BY <1>8
<1>10. x \in Nat /\ \A y \in s : y \in Nat /\ (y = x \/ y \in t)
  BY <1>5, <1>7
<1>11. \A y \in s : y < k + x + 1
  BY <1>9, <1>10
<1>12. k + x + 1 \in Nat
  BY <1>9, <1>10
<1>13. Bounded(s)
  BY <1>11, <1>12
<1> QED
  BY <1>5, <1>13

(* The newest request of a team is one of its robots' or nobody's.         *)
LEMMA NewestIsInTeam ==
  ASSUME NEW mates \in SUBSET Robot, NEW data
  PROVE  NewestRequest(mates, data) \in mates \cup {Nobody}
<1> DEFINE asking == {s \in mates : data[s].request > 0}
           newest == {s \in asking : \A o \in asking : data[o].request <= data[s].request}
<1>1. CASE newest = {}
  BY <1>1 DEF NewestRequest
<1>2. CASE newest # {}
  <2>1. newest \subseteq mates /\ newest \subseteq Nat
    <3>1. newest \subseteq asking /\ asking \subseteq mates
      OBVIOUS
    <3>2. Robot \subseteq Nat
      BY ElectionAssumption DEF Robot
    <3> HIDE DEF newest, asking
    <3> QED
      BY <3>1, <3>2
  <2>2. \E s \in newest : \A o \in newest : s <= o
    <3> HIDE DEF newest
    <3> QED
      BY <1>2, <2>1, LeastExists
  <2>3. NewestRequest(mates, data) = CHOOSE s \in newest : \A o \in newest : s <= o
    BY <1>2 DEF NewestRequest
  <2> QED
    BY <2>1, <2>2, <2>3
<1> QED
  BY <1>1, <1>2

-----------------------------------------------------------------------------
(* What a round of proceed() ends in *)

Requests == request \in [Robot -> Nat] /\ striker \in [Robot -> Robot \cup {Nobody}]

LEMMA OutcomeTypes ==
  ASSUME Requests, NEW r \in Robot, NEW t \in Nat, NEW w
  PROVE  /\ DetermineStriker(r, t, w).striker \in Robot \cup {Nobody}
         /\ DetermineStriker(r, t, w).request \in Nat
         /\ DetermineStriker(r, t, w).request > 0 => DetermineStriker(r, t, w).striker \in {r, Nobody}
<1> DEFINE mates == Robots(r, t)
           data == [s \in mates |-> IF s = r THEN Own(r, t, w) ELSE heard[r][s]]
           newest == NewestRequest(mates, data)
           time == IF newest = Nobody THEN 0 ELSE data[newest].request
           current == Current(newest, data)
           asks == current # r /\ t > time /\ r \in mates /\ ShouldAsk(r, mates, data, current)
<1>1. mates \in SUBSET Robot
  BY DEF Robots
<1>2. newest \in Robot \cup {Nobody}
  BY <1>1, NewestIsInTeam
<1>3. current \in Robot \cup {Nobody}
  BY <1>2 DEF Current
<1>4. KeptRequest(r, current) \in Nat /\ (KeptRequest(r, current) > 0 => current \in {r, Nobody})
  BY DEF KeptRequest, Requests
<1>5. DetermineStriker(r, t, w) =
        IF asks THEN [striker |-> r, request |-> t]
        ELSE [striker |-> current, request |-> KeptRequest(r, current)]
  BY DEF DetermineStriker
<1> HIDE DEF asks, current
<1> QED
  BY <1>3, <1>4, <1>5

LEMMA InitTypeOK == Init => TypeOK
<1> SUFFICES ASSUME Init PROVE TypeOK
  OBVIOUS
<1>1. now \in 1 .. MaxTime
  BY ElectionAssumption DEF Init
<1>2. request \in [Robot -> Nat] /\ lastSend \in [Robot -> Nat]
  <2>1. PICK since \in [Robot -> 0 .. SendPause] : lastSend = [r \in Robot |-> since[r] + Skew[r]]
    BY DEF Init
  <2>2. \A r \in Robot : since[r] + Skew[r] \in Nat
    BY ElectionAssumption
  <2> QED
    BY <2>1, <2>2 DEF Init
<1>3. striker \in [Robot -> Robot \cup {Nobody}] /\ walk \in [Robot -> Times \cup {NoBall}]
  BY DEF Init
<1>4. heard \in [Robot -> [Robot -> Message \cup {None}]]
  BY DEF Init
<1> QED
  BY <1>1, <1>2, <1>3, <1>4 DEF Init, TypeOK

(* A round of a robot, with the message that it may send.                  *)
LEMMA ProceedTypes ==
  ASSUME TypeOK, NEW r \in Robot, NEW w \in Times \cup {NoBall}, NEW reached \in SUBSET Robot,
         Proceed(r, w, reached)
  PROVE  TypeOK'
<1> DEFINE t == now + Skew[r]
           outcome == DetermineStriker(r, t, w)
           message == [sent |-> t, request |-> outcome.request, walk |-> w]
<1>1. t \in Nat \ {0} /\ Skew[r] \in Nat
  BY ElectionAssumption DEF TypeOK
<1>2. outcome.striker \in Robot \cup {Nobody} /\ outcome.request \in Nat
  BY <1>1, OutcomeTypes DEF TypeOK, Requests
<1>3. /\ ran' = ran \cup {r}
      /\ walk' = [walk EXCEPT ![r] = w]
      /\ striker' = [striker EXCEPT ![r] = outcome.striker]
      /\ request' = [request EXCEPT ![r] = outcome.request]
      /\ Send(r, t, w, outcome.request, reached)
      /\ UNCHANGED <<now, penalized, heard>>
  BY DEF Proceed
<1> HIDE DEF t, outcome
<1>4. message \in Message
  BY <1>1, <1>2 DEF Message
<1>5. /\ lastSend' \in {lastSend, [lastSend EXCEPT ![r] = t]}
      /\ network' \in {network, network \cup [from : {r}, to : reached, data : {message}]}
  BY <1>3 DEF Send
<1> HIDE DEF message
<1>6. lastSend' \in [Robot -> Nat]
  BY <1>1, <1>5 DEF TypeOK
<1>7. network' \subseteq [from : Robot, to : Robot, data : Message]
  BY <1>4, <1>5 DEF TypeOK
<1>8. /\ ran' \subseteq Robot /\ walk' \in [Robot -> Times \cup {NoBall}]
      /\ request' \in [Robot -> Nat] /\ striker' \in [Robot -> Robot \cup {Nobody}]
  BY <1>2, <1>3 DEF TypeOK
<1> QED
  BY <1>3, <1>6, <1>7, <1>8 DEF TypeOK

LEMMA ReceiveTypes ==
  ASSUME TypeOK, NEW m \in network, Receive(m)
  PROVE  TypeOK'
<1>1. m.to \in Robot /\ m.from \in Robot /\ m.data \in Message
  BY DEF TypeOK
<1>2. heard' \in {heard, [heard EXCEPT ![m.to][m.from] = m.data]}
  BY DEF Receive
<1>3. heard' \in [Robot -> [Robot -> Message \cup {None}]]
  BY <1>1, <1>2 DEF TypeOK
<1>4. network' \subseteq [from : Robot, to : Robot, data : Message]
  BY DEF TypeOK, Receive
<1> QED
  BY <1>3, <1>4 DEF TypeOK, Receive

LEMMA NextTypes == TypeOK /\ [Next]_vars => TypeOK'
<1> SUFFICES ASSUME TypeOK, [Next]_vars PROVE TypeOK'
  OBVIOUS
<1>1. ASSUME NEW r \in Robot, NEW w \in Times \cup {NoBall}, NEW reached \in SUBSET Robot,
             Proceed(r, w, reached)
      PROVE  TypeOK'
  BY <1>1, ProceedTypes
<1>2. ASSUME NEW m \in network, Receive(m) PROVE TypeOK'
  BY <1>2, ReceiveTypes
<1>3. ASSUME NEW r \in Robot, Referee(r) PROVE TypeOK'
  BY <1>3 DEF Referee, TypeOK
<1>4. CASE Tick
  BY <1>4, ElectionAssumption DEF Tick, TypeOK
<1>5. CASE UNCHANGED vars
  BY <1>5 DEF vars, TypeOK
<1> QED
  BY <1>1, <1>2, <1>3, <1>4, <1>5 DEF Next, Done

(***************************************************************************)
(* The variables of the election keep their types.                         *)
(***************************************************************************)
THEOREM TypeCorrect == Spec => []TypeOK
BY InitTypeOK, NextTypes, PTL DEF Spec

-----------------------------------------------------------------------------
(* Whoever names another robot as the striker has given up its own request: *)
(* the two are decided in the same round.                                  *)
LoserGivesUp == \A r \in Robot : request[r] > 0 => striker[r] \in {r, Nobody}

LEMMA GivesUpInductive == TypeOK /\ LoserGivesUp /\ [Next]_vars => LoserGivesUp'
<1> SUFFICES ASSUME TypeOK, LoserGivesUp, [Next]_vars PROVE LoserGivesUp'
  OBVIOUS
<1>1. ASSUME NEW r \in Robot, NEW w \in Times \cup {NoBall}, NEW reached \in SUBSET Robot,
             Proceed(r, w, reached)
      PROVE  LoserGivesUp'
  <2> DEFINE outcome == DetermineStriker(r, now + Skew[r], w)
  <2>1. outcome.request > 0 => outcome.striker \in {r, Nobody}
    <3>1. now + Skew[r] \in Nat
      BY ElectionAssumption DEF TypeOK
    <3> QED
      BY <3>1, OutcomeTypes DEF TypeOK, Requests
  <2>2. /\ striker' = [striker EXCEPT ![r] = outcome.striker]
        /\ request' = [request EXCEPT ![r] = outcome.request]
    BY <1>1 DEF Proceed
  <2> HIDE DEF outcome
  <2> QED
    BY <2>1, <2>2 DEF LoserGivesUp, TypeOK
<1>2. ASSUME UNCHANGED <<striker, request>> PROVE LoserGivesUp'
  BY <1>2 DEF LoserGivesUp
<1> QED
  BY <1>1, <1>2 DEF Next, Receive, Referee, Tick, Done, vars

(***************************************************************************)
(* In no round does a robot keep a request beside a striker that is        *)
(* somebody else, so that none falls back to it when the striker is lost.  *)
(***************************************************************************)
THEOREM OnlyOneAsks == Spec => []OnlyStrikerAsks
<1>1. Init => LoserGivesUp
  BY DEF Init, LoserGivesUp
<1>2. LoserGivesUp => OnlyStrikerAsks
  BY DEF LoserGivesUp, OnlyStrikerAsks
<1> QED
  BY <1>1, <1>2, InitTypeOK, NextTypes, GivesUpInductive, PTL DEF Spec

-----------------------------------------------------------------------------
(* Once the field is quiet, nobody is lost *)

(* The last time on the clock of s at which anything might happen.         *)
Noise(s) == Chaos + Skew[s]

UnderWay(s, r) == {m \in network : m.from = s /\ m.to = r}

ClocksFit == \A s \in Robot : lastSend[s] <= now + Skew[s]

(* In the quiet a robot that plays has sent within the pause.              *)
SendsOften ==
  now > Chaos => \A s \in Robot \ penalized :
    /\ s \in ran => now + Skew[s] <= lastSend[s] + SendPause
    /\ now > Chaos + 1 => now + Skew[s] <= lastSend[s] + SendPause + 1

MessagesFit ==
  \A m \in network : /\ m.data.sent <= lastSend[m.from]
                     /\ now + Skew[m.from] <= m.data.sent + MaxDelay

(* No robot sends twice at the same time.                                  *)
SentOnce ==
  \A m, o \in network :
    m.from = o.from /\ m.to = o.to /\ m.data.sent = o.data.sent => m = o

(* What was sent in the quiet is received in order ...                     *)
InOrder ==
  \A r, s \in Robot :
    /\ heard[r][s].sent <= lastSend[s]
    /\ heard[r][s].sent > Noise(s) => \A m \in UnderWay(s, r) : m.data.sent > heard[r][s].sent

(* ... and tells the walking time that the sender still has.               *)
WalkIsTold ==
  /\ \A m \in network : m.data.sent > Noise(m.from) => m.data.walk = walk[m.from]
  /\ \A r, s \in Robot : heard[r][s].sent > Noise(s) => heard[r][s].walk = walk[s]

(* The last message of the quiet is heard of or under way ...              *)
LastArrives ==
  \A r, s \in Robot : r # s /\ lastSend[s] > Noise(s) =>
    \/ heard[r][s].sent >= lastSend[s]
    \/ \E m \in UnderWay(s, r) : m.data.sent = lastSend[s]

(* ... and so is, unless it was the first one, the one before, sent shortly before. *)
NoGap ==
  \A r, s \in Robot : \A m \in UnderWay(s, r) : m.data.sent > Noise(s) + SendPause + 1 =>
    \/ m.data.sent <= heard[r][s].sent + SendPause + 1
    \/ \E o \in UnderWay(s, r) : /\ o.data.sent < m.data.sent
                                 /\ m.data.sent <= o.data.sent + SendPause + 1

HearIInv ==
  /\ TypeOK /\ ClocksFit /\ SendsOften /\ MessagesFit /\ SentOnce
  /\ InOrder /\ WalkIsTold /\ LastArrives /\ NoGap

(***************************************************************************)
(* What a robot has from another one is recent and true.                   *)
(***************************************************************************)
NobodyIsLost ==
  now > Chaos + SendPause + MaxDelay + 1 =>
    \A r \in Robot, s \in Robot \ penalized : r # s =>
      /\ heard[r][s] # None
      /\ now + Skew[s] <= heard[r][s].sent + SendPause + MaxDelay + 1
      /\ heard[r][s].walk = walk[s]

LEMMA TimesAreNumbers ==
  ASSUME TypeOK
  PROVE  /\ now \in Nat
         /\ \A s \in Robot : Skew[s] \in Nat /\ lastSend[s] \in Nat
         /\ \A m \in network : m.from \in Robot /\ m.to \in Robot /\ m.data.sent \in Nat
         /\ \A r, s \in Robot : heard[r][s].sent \in Nat
<1>1. now \in Nat /\ \A s \in Robot : Skew[s] \in Nat /\ lastSend[s] \in Nat
  BY ElectionAssumption DEF TypeOK
<1>2. \A m \in network : m.from \in Robot /\ m.to \in Robot /\ m.data \in Message
  BY DEF TypeOK
<1>3. \A d \in Message \cup {None} : d.sent \in Nat
  BY DEF Message, None
<1>4. \A r, s \in Robot : heard[r][s] \in Message \cup {None}
  BY DEF TypeOK
<1> QED
  BY <1>1, <1>2, <1>3, <1>4

LEMMA InitHears == Init => HearIInv
<1> SUFFICES ASSUME Init PROVE HearIInv
  OBVIOUS
<1>1. TypeOK
  BY InitTypeOK
<1>2. ClocksFit /\ \A s \in Robot : lastSend[s] <= Noise(s)
  <2>1. PICK since \in [Robot -> 0 .. SendPause] : lastSend = [r \in Robot |-> since[r] + Skew[r]]
    BY DEF Init
  <2>2. \A s \in Robot : since[s] \in 0 .. SendPause /\ Skew[s] \in Nat /\ lastSend[s] = since[s] + Skew[s]
    BY <2>1, ElectionAssumption
  <2>3. now = SendPause + 1
    BY DEF Init
  <2> QED
    BY <2>2, <2>3, ElectionAssumption DEF ClocksFit, Noise
<1>3. SendsOften
  <2>1. now = SendPause + 1 /\ ran = {}
    BY DEF Init
  <2> QED
    BY <2>1, ElectionAssumption DEF SendsOften
<1>4. MessagesFit /\ SentOnce /\ NoGap
  BY DEF Init, MessagesFit, SentOnce, NoGap, UnderWay
<1>5. \A r, s \in Robot : heard[r][s] = None
  BY DEF Init
<1>6. \A s \in Robot : 0 <= lastSend[s] /\ 0 <= Noise(s) /\ Noise(s) \in Nat /\ lastSend[s] \in Nat
  BY <1>1, TimesAreNumbers, ElectionAssumption DEF Noise
<1>7. InOrder /\ WalkIsTold
  BY <1>5, <1>6 DEF InOrder, WalkIsTold, None, Init
<1>8. LastArrives
  BY <1>2, <1>6 DEF LastArrives
<1> QED
  BY <1>1, <1>2, <1>3, <1>4, <1>7, <1>8 DEF HearIInv

(* A round of a robot, with the message that it may send.                  *)
LEMMA ProceedHears ==
  ASSUME HearIInv, NEW r \in Robot, NEW w \in Times \cup {NoBall}, NEW reached \in SUBSET Robot,
         r \notin reached, Proceed(r, w, reached)
  PROVE  HearIInv'
<1> DEFINE t == now + Skew[r]
           asked == DetermineStriker(r, t, w).request
           message == [sent |-> t, request |-> asked, walk |-> w]
           due == r \notin penalized /\ t > lastSend[r] + SendPause
           new == [from : {r}, to : reached, data : {message}]
<1>1. TypeOK /\ TypeOK'
  BY ProceedTypes DEF HearIInv
<1>2. /\ Quiet => w = walk[r] /\ reached = Robot \ {r}
      /\ ran' = ran \cup {r} /\ walk' = [walk EXCEPT ![r] = w]
      /\ Send(r, t, w, asked, reached)
      /\ UNCHANGED <<now, penalized, heard>>
  BY DEF Proceed
<1>3. /\ due => lastSend' = [lastSend EXCEPT ![r] = t] /\ network' = network \cup new
      /\ ~due => lastSend' = lastSend /\ network' = network
  BY <1>2 DEF Send
<1>4. t \in Nat /\ SendPause \in Nat /\ MaxDelay \in Nat /\ Chaos \in Nat
  BY <1>1, TimesAreNumbers, ElectionAssumption
<1>5. \A m \in new : /\ m = [from |-> r, to |-> m.to, data |-> message]
                     /\ m.from = r /\ m.to \in reached /\ m.data.sent = t /\ m.data.walk = w
  OBVIOUS
<1>6. \A s \in reached : [from |-> r, to |-> s, data |-> message] \in new
  OBVIOUS
<1>7. network \subseteq network' /\ \A m \in network' : m \in network \/ (due /\ m \in new)
  BY <1>3
<1>8. /\ \A s \in Robot \ {r} : lastSend'[s] = lastSend[s]
      /\ lastSend'[r] = IF due THEN t ELSE lastSend[r]
      /\ due => lastSend[r] < t
  <2>1. lastSend \in [Robot -> Nat]
    BY <1>1 DEF TypeOK
  <2>2. due => lastSend[r] < t
    BY <2>1, <1>4
  <2> QED
    BY <1>3, <2>1, <2>2
<1>9. ~Quiet => t <= Noise(r)
  BY <1>1, <1>4, TimesAreNumbers, ElectionAssumption DEF Quiet, Noise
<1>10. Quiet => walk' = walk
  BY <1>1, <1>2 DEF TypeOK
<1> HIDE DEF new
<1>11. /\ \A s \in Robot : lastSend[s] <= lastSend'[s]
       /\ \A s \in Robot : lastSend[s] \in Nat /\ lastSend'[s] \in Nat /\ Noise(s) \in Nat
       /\ now \in Nat
  BY <1>1, <1>4, <1>8, TimesAreNumbers, ElectionAssumption DEF Noise
<1> HIDE DEF message
<1>12. ClocksFit'
  BY <1>2, <1>4, <1>8 DEF ClocksFit, HearIInv
<1>13. SendsOften'
  <2> SUFFICES ASSUME now > Chaos, NEW s \in Robot \ penalized
               PROVE  /\ s \in ran' => now + Skew[s] <= lastSend'[s] + SendPause
                      /\ now > Chaos + 1 => now + Skew[s] <= lastSend'[s] + SendPause + 1
    BY <1>2 DEF SendsOften
  <2>1. CASE s = r
    BY <2>1, <1>4, <1>8, <1>11
  <2>2. CASE s # r
    BY <2>2, <1>2, <1>8 DEF SendsOften, HearIInv
  <2> QED
    BY <2>1, <2>2
<1>14. MessagesFit'
  <2> SUFFICES ASSUME NEW m \in network'
               PROVE  /\ m.data.sent <= lastSend'[m.from]
                      /\ now + Skew[m.from] <= m.data.sent + MaxDelay
    BY <1>2 DEF MessagesFit
  <2>1. CASE m \in network
    BY <2>1, <1>1, <1>11, TimesAreNumbers DEF MessagesFit, HearIInv
  <2>2. CASE due /\ m \in new
    BY <2>2, <1>4, <1>5, <1>8
  <2> QED
    BY <2>1, <2>2, <1>7
<1>15. \A m \in network : m.from = r /\ due => m.data.sent < t
  BY <1>1, <1>4, <1>8, TimesAreNumbers DEF MessagesFit, HearIInv
<1>16. SentOnce'
  <2> SUFFICES ASSUME NEW m \in network', NEW o \in network',
                      m.from = o.from, m.to = o.to, m.data.sent = o.data.sent
               PROVE  m = o
    BY DEF SentOnce
  <2>1. CASE m \in network /\ o \in network
    BY <2>1 DEF SentOnce, HearIInv
  <2>2. CASE due /\ m \in new /\ o \in new
    BY <2>2, <1>5
  <2>3. CASE due /\ m \in new /\ o \in network
    BY <2>3, <1>4, <1>5, <1>15
  <2>4. CASE due /\ m \in network /\ o \in new
    BY <2>4, <1>4, <1>5, <1>15
  <2> QED
    BY <2>1, <2>2, <2>3, <2>4, <1>7
<1>17. InOrder'
  <2> SUFFICES ASSUME NEW q \in Robot, NEW s \in Robot
               PROVE  /\ heard[q][s].sent <= lastSend'[s]
                      /\ heard[q][s].sent > Noise(s) =>
                           \A m \in network' : m.from = s /\ m.to = q => m.data.sent > heard[q][s].sent
    BY <1>2 DEF InOrder, UnderWay, Noise
  <2>1. heard[q][s].sent \in Nat /\ heard[q][s].sent <= lastSend[s]
    BY <1>1, TimesAreNumbers DEF InOrder, HearIInv
  <2>2. ASSUME heard[q][s].sent > Noise(s), NEW m \in network', m.from = s, m.to = q
        PROVE  m.data.sent > heard[q][s].sent
    <3>1. CASE m \in network
      BY <2>2, <3>1 DEF InOrder, HearIInv, UnderWay
    <3>2. CASE due /\ m \in new
      BY <2>1, <2>2, <3>2, <1>4, <1>5, <1>8, <1>11
    <3> QED
      BY <3>1, <3>2, <1>7
  <2> QED
    BY <2>1, <2>2, <1>11
<1>18. WalkIsTold'
  <2>1. CASE Quiet
    <3>1. \A m \in new : m.data.walk = walk[m.from]
      BY <2>1, <1>2, <1>5
    <3> QED
      BY <3>1, <1>2, <1>7, <1>10, <2>1 DEF WalkIsTold, HearIInv, Noise
  <2>2. CASE ~Quiet
    <3>1. now <= Chaos
      BY <2>2, <1>4, <1>11 DEF Quiet
    <3>2. \A s \in Robot : lastSend'[s] <= Noise(s)
      BY <3>1, <1>1, <1>2, <1>11, <1>12, TimesAreNumbers, ElectionAssumption DEF ClocksFit, Noise
    <3>3. \A m \in network' : ~(m.data.sent > Noise(m.from))
      <4> SUFFICES ASSUME NEW m \in network' PROVE ~(m.data.sent > Noise(m.from))
        OBVIOUS
      <4>1. m.from \in Robot /\ m.data.sent \in Nat
        BY <1>1 DEF TypeOK, Message
      <4>2. m.data.sent <= lastSend'[m.from]
        BY <1>14 DEF MessagesFit
      <4> QED
        BY <4>1, <4>2, <3>2, <1>11
    <3>4. \A q, s \in Robot : ~(heard[q][s].sent > Noise(s))
      <4> SUFFICES ASSUME NEW q \in Robot, NEW s \in Robot PROVE ~(heard[q][s].sent > Noise(s))
        OBVIOUS
      <4>1. heard[q][s].sent \in Nat /\ heard[q][s].sent <= lastSend'[s]
        BY <1>1, <1>2, <1>17, TimesAreNumbers DEF InOrder
      <4> QED
        BY <4>1, <3>2, <1>11
    <3> QED
      BY <3>3, <3>4, <1>2 DEF WalkIsTold, Noise
  <2> QED
    BY <2>1, <2>2
<1>19. LastArrives'
  <2> SUFFICES ASSUME NEW q \in Robot, NEW s \in Robot, q # s, lastSend'[s] > Noise(s)
               PROVE  \/ heard[q][s].sent >= lastSend'[s]
                      \/ \E m \in network' : m.from = s /\ m.to = q /\ m.data.sent = lastSend'[s]
    BY <1>2 DEF LastArrives, UnderWay, Noise
  <2>1. CASE lastSend'[s] = lastSend[s]
    BY <2>1, <1>7 DEF LastArrives, UnderWay, HearIInv
  <2>2. CASE s = r /\ due
    <3>1. Quiet
      BY <2>2, <1>4, <1>8, <1>9, <1>11
    <3>2. [from |-> r, to |-> q, data |-> message] \in new
      BY <3>1, <2>2, <1>2, <1>6
    <3>3. [from |-> r, to |-> q, data |-> message] \in network'
      BY <3>2, <2>2, <1>3
    <3> QED
      BY <3>2, <3>3, <2>2, <1>5, <1>8
  <2> QED
    BY <2>1, <2>2, <1>8
<1>20. NoGap'
  <2> SUFFICES ASSUME NEW q \in Robot, NEW s \in Robot, NEW m \in network', m.from = s, m.to = q,
                      m.data.sent > Noise(s) + SendPause + 1
               PROVE  \/ m.data.sent <= heard[q][s].sent + SendPause + 1
                      \/ \E o \in network' : /\ o.from = s /\ o.to = q
                                             /\ o.data.sent < m.data.sent
                                             /\ m.data.sent <= o.data.sent + SendPause + 1
    BY <1>2 DEF NoGap, UnderWay, Noise
  <2>1. CASE m \in network
    BY <2>1, <1>7 DEF NoGap, UnderWay, HearIInv
  <2>2. CASE due /\ m \in new
    <3>1. s = r /\ q # r /\ m.data.sent = t
      BY <2>2, <1>5
    <3>2. now > Chaos + SendPause + 1
      BY <3>1, <1>1, <1>4, <1>11, TimesAreNumbers DEF Noise
    <3>3. t <= lastSend[r] + SendPause + 1
      BY <3>2, <2>2, <1>4, <1>11 DEF SendsOften, HearIInv
    <3>4. lastSend[r] > Noise(r) /\ lastSend[r] < t
      BY <3>1, <3>3, <2>2, <1>4, <1>8, <1>11
    <3>5. \/ heard[q][r].sent >= lastSend[r]
          \/ \E o \in UnderWay(r, q) : o.data.sent = lastSend[r]
      BY <3>1, <3>4 DEF LastArrives, HearIInv
    <3>6. heard[q][r].sent \in Nat
      BY <1>1, TimesAreNumbers
    <3>7. CASE heard[q][r].sent >= lastSend[r]
      BY <3>7, <3>1, <3>3, <3>6, <1>4, <1>11
    <3>8. CASE \E o \in UnderWay(r, q) : o.data.sent = lastSend[r]
      BY <3>8, <3>1, <3>3, <3>4, <1>7 DEF UnderWay
    <3> QED
      BY <3>5, <3>7, <3>8
  <2> QED
    BY <2>1, <2>2, <1>7
<1> QED
  BY <1>1, <1>12, <1>13, <1>14, <1>16, <1>17, <1>18, <1>19, <1>20 DEF HearIInv

LEMMA ReceiveHears ==
  ASSUME HearIInv, NEW m \in network, Receive(m)
  PROVE  HearIInv'
<1> DEFINE s == m.from
           r == m.to
<1>1. TypeOK /\ TypeOK'
  BY ReceiveTypes DEF HearIInv
<1>2. /\ Quiet => \A o \in UnderWay(s, r) : m.data.sent <= o.data.sent
      /\ network' = network \ {m}
      /\ heard' = IF IsOutdated(r, m) THEN heard ELSE [heard EXCEPT ![r][s] = m.data]
      /\ UNCHANGED <<now, ran, penalized, walk, request, striker, lastSend>>
  BY DEF Receive, UnderWay
<1>3. s \in Robot /\ r \in Robot /\ m.data.sent \in Nat
  BY <1>1, TimesAreNumbers
<1>4. /\ now \in Nat /\ Chaos \in Nat /\ SendPause \in Nat /\ Outdated \in Nat
      /\ \A q \in Robot : Noise(q) \in Nat /\ lastSend[q] \in Nat /\ Skew[q] \in Nat
      /\ \A q, p \in Robot : heard[q][p].sent \in Nat
      /\ \A o \in network : o.from \in Robot /\ o.to \in Robot /\ o.data.sent \in Nat
  BY <1>1, TimesAreNumbers, ElectionAssumption DEF Noise
<1>5. \A q, p \in Robot : <<q, p>> # <<r, s>> => heard'[q][p] = heard[q][p]
  <2>1. heard \in [Robot -> [Robot -> Message \cup {None}]]
    BY <1>1 DEF TypeOK
  <2> QED
    BY <2>1, <1>2, <1>3
<1>6. \/ heard'[r][s] = m.data
      \/ heard'[r][s] = heard[r][s] /\ m.data.sent + Outdated <= heard[r][s].sent
  <2>1. heard \in [Robot -> [Robot -> Message \cup {None}]]
    BY <1>1 DEF TypeOK
  <2> QED
    BY <2>1, <1>2, <1>3 DEF IsOutdated
\* In the quiet the message is newer than what was heard before.
<1>7. heard[r][s].sent > Noise(s) => m.data.sent > heard[r][s].sent
  BY <1>3 DEF InOrder, HearIInv, UnderWay
<1>8. m.data.sent > Noise(s) => Quiet
  <2>1. m.data.sent <= lastSend[s] /\ lastSend[s] <= now + Skew[s]
    BY <1>3 DEF MessagesFit, ClocksFit, HearIInv
  <2> QED
    BY <2>1, <1>3, <1>4 DEF Quiet, Noise
<1>9. \A o \in network' : o \in network /\ o # m
  BY <1>2
<1>10. ASSUME Quiet, NEW o \in network', o.from = s, o.to = r PROVE m.data.sent < o.data.sent
  <2>1. m.data.sent <= o.data.sent
    BY <1>2, <1>9, <1>10 DEF UnderWay
  <2>2. m.data.sent # o.data.sent
    BY <1>9, <1>10 DEF SentOnce, HearIInv
  <2>3. o.data.sent \in Nat /\ m.data.sent \in Nat
    BY <1>3, <1>4, <1>9
  <2> QED
    BY <2>1, <2>2, <2>3
<1> HIDE DEF r, s
<1>11. ClocksFit' /\ SendsOften' /\ MessagesFit' /\ SentOnce'
  BY <1>2, <1>9 DEF ClocksFit, SendsOften, MessagesFit, SentOnce, HearIInv
<1>12. InOrder'
  <2> SUFFICES ASSUME NEW q \in Robot, NEW p \in Robot
               PROVE  /\ heard'[q][p].sent <= lastSend[p]
                      /\ heard'[q][p].sent > Noise(p) =>
                           \A o \in network' : o.from = p /\ o.to = q => o.data.sent > heard'[q][p].sent
    BY <1>2 DEF InOrder, UnderWay, Noise
  <2>1. CASE heard'[q][p] = heard[q][p]
    BY <2>1, <1>9 DEF InOrder, UnderWay, HearIInv
  <2>2. CASE q = r /\ p = s /\ heard'[r][s] = m.data
    <3>1. m.data.sent <= lastSend[s]
      BY DEF MessagesFit, HearIInv, s
    <3> QED
      BY <2>2, <3>1, <1>8, <1>10
  <2> QED
    BY <2>1, <2>2, <1>5, <1>6
<1>13. WalkIsTold'
  <2>1. \A o \in network' : o.data.sent > Noise(o.from) => o.data.walk = walk[o.from]
    BY <1>9 DEF WalkIsTold, HearIInv
  <2>2. m.data.sent > Noise(s) => m.data.walk = walk[s]
    BY DEF WalkIsTold, HearIInv, s
  <2>3. ASSUME NEW q \in Robot, NEW p \in Robot, heard'[q][p].sent > Noise(p)
        PROVE  heard'[q][p].walk = walk[p]
    BY <2>2, <2>3, <1>5, <1>6 DEF WalkIsTold, HearIInv
  <2> QED
    BY <2>1, <2>3, <1>2 DEF WalkIsTold, Noise
\* What is heard of or under way remains one of both.
<1>14. ASSUME NEW x \in Nat, x > Noise(s), x <= heard[r][s].sent
       PROVE  x <= heard'[r][s].sent
  <2>1. heard[r][s].sent > Noise(s) /\ heard[r][s].sent \in Nat /\ m.data.sent \in Nat
    BY <1>3, <1>4, <1>14
  <2>2. m.data.sent > heard[r][s].sent
    BY <2>1, <1>7
  <2> QED
    BY <2>1, <2>2, <1>6, <1>14
<1>15. m.data.sent <= heard'[r][s].sent
  BY <1>3, <1>4, <1>6
<1>16. LastArrives'
  <2> SUFFICES ASSUME NEW q \in Robot, NEW p \in Robot, q # p, lastSend[p] > Noise(p)
               PROVE  \/ heard'[q][p].sent >= lastSend[p]
                      \/ \E o \in network' : o.from = p /\ o.to = q /\ o.data.sent = lastSend[p]
    BY <1>2 DEF LastArrives, UnderWay, Noise
  <2>1. \/ heard[q][p].sent >= lastSend[p]
        \/ \E o \in UnderWay(p, q) : o.data.sent = lastSend[p]
    BY DEF LastArrives, HearIInv
  <2>2. CASE heard[q][p].sent >= lastSend[p]
    BY <2>2, <1>4, <1>5, <1>14
  <2>3. ASSUME NEW o \in UnderWay(p, q), o.data.sent = lastSend[p]
        PROVE  \/ heard'[q][p].sent >= lastSend[p]
               \/ o \in network'
    <3>1. CASE o = m
      BY <2>3, <3>1, <1>15 DEF UnderWay, r, s
    <3>2. CASE o # m
      BY <2>3, <3>2, <1>2 DEF UnderWay
    <3> QED
      BY <3>1, <3>2
  <2> QED
    BY <2>1, <2>2, <2>3 DEF UnderWay
<1>17. NoGap'
  <2> SUFFICES ASSUME NEW q \in Robot, NEW p \in Robot, NEW o \in network', o.from = p, o.to = q,
                      o.data.sent > Noise(p) + SendPause + 1
               PROVE  \/ o.data.sent <= heard'[q][p].sent + SendPause + 1
                      \/ \E a \in network' : /\ a.from = p /\ a.to = q
                                             /\ a.data.sent < o.data.sent
                                             /\ o.data.sent <= a.data.sent + SendPause + 1
    BY <1>2 DEF NoGap, UnderWay, Noise
  <2>1. \/ o.data.sent <= heard[q][p].sent + SendPause + 1
        \/ \E a \in UnderWay(p, q) : /\ a.data.sent < o.data.sent
                                     /\ o.data.sent <= a.data.sent + SendPause + 1
    BY <1>9 DEF NoGap, UnderWay, HearIInv
  <2>2. CASE o.data.sent <= heard[q][p].sent + SendPause + 1
    <3>1. heard[q][p].sent \in Nat /\ o.data.sent \in Nat /\ Noise(p) \in Nat /\ SendPause \in Nat
      BY <1>4, <1>9
    <3>2. heard[q][p].sent > Noise(p)
      BY <2>2, <3>1
    <3>3. heard[q][p].sent <= heard'[q][p].sent
      BY <3>1, <3>2, <1>5, <1>14
    <3>4. heard'[q][p].sent \in Nat
      BY <1>3, <1>4, <1>5, <1>6
    <3> QED
      BY <2>2, <3>1, <3>3, <3>4
  <2>3. ASSUME NEW a \in UnderWay(p, q), a.data.sent < o.data.sent,
               o.data.sent <= a.data.sent + SendPause + 1
        PROVE  \/ o.data.sent <= heard'[q][p].sent + SendPause + 1
               \/ a \in network'
    <3>1. CASE a = m
      <4>1. p = s /\ q = r
        BY <3>1 DEF UnderWay, r, s
      <4>2. heard'[r][s].sent \in {m.data.sent, heard[r][s].sent}
        BY <1>6
      <4>3. heard'[r][s].sent \in Nat /\ o.data.sent \in Nat
        BY <4>2, <1>3, <1>4, <1>9
      <4> QED
        BY <2>3, <3>1, <4>1, <4>3, <1>3, <1>4, <1>15
    <3>2. CASE a # m
      BY <3>2, <1>2 DEF UnderWay
    <3> QED
      BY <3>1, <3>2
  <2> QED
    BY <2>1, <2>2, <2>3 DEF UnderWay
<1> QED
  BY <1>1, <1>11, <1>12, <1>13, <1>16, <1>17 DEF HearIInv

LEMMA RefereeHears ==
  ASSUME HearIInv, NEW r \in Robot, Referee(r)
  PROVE  HearIInv'
<1>1. TypeOK'
  BY NextTypes DEF HearIInv, Next
<1>2. /\ ~Quiet /\ now \in Nat /\ Chaos \in Nat
      /\ UNCHANGED <<now, ran, walk, request, striker, lastSend, heard, network>>
  BY TimesAreNumbers, ElectionAssumption DEF Referee, HearIInv
<1>3. SendsOften'
  BY <1>2 DEF SendsOften, Quiet
<1>4. ClocksFit' /\ MessagesFit' /\ SentOnce'
  BY <1>2 DEF ClocksFit, MessagesFit, SentOnce, HearIInv
<1>5. InOrder' /\ WalkIsTold' /\ LastArrives' /\ NoGap'
  BY <1>2 DEF InOrder, WalkIsTold, LastArrives, NoGap, UnderWay, Noise, HearIInv
<1> QED
  BY <1>1, <1>3, <1>4, <1>5 DEF HearIInv

(* When the clocks go on, each robot has had its round and no message is late. *)
LEMMA TickHears ==
  ASSUME HearIInv, Tick
  PROVE  HearIInv'
<1>1. TypeOK /\ TypeOK'
  BY NextTypes DEF HearIInv, Next
<1>2. /\ ran = Robot /\ now' = now + 1 /\ ran' = {}
      /\ \A m \in network : m.data.sent - Skew[m.from] + MaxDelay > now
      /\ UNCHANGED <<penalized, walk, request, striker, lastSend, heard, network>>
  BY DEF Tick
<1>3. /\ now \in Nat /\ Chaos \in Nat /\ SendPause \in Nat /\ MaxDelay \in Nat
      /\ \A s \in Robot : lastSend[s] \in Nat /\ Skew[s] \in Nat
      /\ \A m \in network : m.from \in Robot /\ m.data.sent \in Nat
  BY <1>1, TimesAreNumbers, ElectionAssumption
<1>4. ClocksFit'
  BY <1>2, <1>3 DEF ClocksFit, HearIInv
<1>5. SendsOften'
  <2> SUFFICES ASSUME NEW s \in Robot \ penalized, now + 1 > Chaos + 1
               PROVE  now + 1 + Skew[s] <= lastSend[s] + SendPause + 1
    BY <1>2 DEF SendsOften
  <2>1. now + Skew[s] <= lastSend[s] + SendPause
    BY <1>2, <1>3 DEF SendsOften, HearIInv
  <2> QED
    BY <2>1, <1>3
<1>6. MessagesFit'
  <2> SUFFICES ASSUME NEW m \in network
               PROVE  /\ m.data.sent <= lastSend[m.from]
                      /\ now + 1 + Skew[m.from] <= m.data.sent + MaxDelay
    BY <1>2 DEF MessagesFit
  <2>1. m.data.sent <= lastSend[m.from] /\ m.data.sent - Skew[m.from] + MaxDelay > now
    BY <1>2 DEF MessagesFit, HearIInv
  <2> QED
    BY <2>1, <1>3
<1>7. SentOnce'
  BY <1>2 DEF SentOnce, HearIInv
<1>8. InOrder' /\ WalkIsTold' /\ LastArrives' /\ NoGap'
  BY <1>2 DEF InOrder, WalkIsTold, LastArrives, NoGap, UnderWay, Noise, HearIInv
<1> QED
  BY <1>1, <1>4, <1>5, <1>6, <1>7, <1>8 DEF HearIInv

LEMMA HearInductive == HearIInv /\ [Next]_vars => HearIInv'
<1> SUFFICES ASSUME HearIInv, [Next]_vars PROVE HearIInv'
  OBVIOUS
<1>1. ASSUME NEW r \in Robot, NEW w \in Times \cup {NoBall}, NEW reached \in SUBSET Robot,
             r \notin reached, Proceed(r, w, reached)
      PROVE  HearIInv'
  BY <1>1, ProceedHears
<1>2. ASSUME NEW m \in network, Receive(m) PROVE HearIInv'
  BY <1>2, ReceiveHears
<1>3. ASSUME NEW r \in Robot, Referee(r) PROVE HearIInv'
  BY <1>3, RefereeHears
<1>4. CASE Tick
  BY <1>4, TickHears
<1>5. CASE UNCHANGED vars
  <2>1. TypeOK'
    BY <1>5, NextTypes DEF HearIInv
  <2>2. ClocksFit' /\ SendsOften' /\ MessagesFit' /\ SentOnce'
    BY <1>5 DEF vars, ClocksFit, SendsOften, MessagesFit, SentOnce, HearIInv
  <2>3. InOrder' /\ WalkIsTold' /\ LastArrives' /\ NoGap'
    BY <1>5 DEF vars, InOrder, WalkIsTold, LastArrives, NoGap, UnderWay, Noise, HearIInv
  <2> QED
    BY <2>1, <2>2, <2>3 DEF HearIInv
<1> QED
  BY <1>1, <1>2, <1>3, <1>4, <1>5 DEF Next, Done

(* The oldest of the messages under way is late by MaxDelay at most, and the one before it *)
(* has been heard of.                                                                     *)
LEMMA HeardLately ==
  ASSUME HearIInv, now > Chaos + SendPause + MaxDelay + 1,
         NEW r \in Robot, NEW s \in Robot \ penalized, r # s
  PROVE  now + Skew[s] <= heard[r][s].sent + SendPause + MaxDelay + 1
<1>1. /\ now \in Nat /\ Chaos \in Nat /\ SendPause \in Nat /\ MaxDelay \in Nat
      /\ lastSend[s] \in Nat /\ Skew[s] \in Nat /\ heard[r][s].sent \in Nat
      /\ \A m \in network : m.data.sent \in Nat
  BY TimesAreNumbers, ElectionAssumption DEF HearIInv
<1>2. now + Skew[s] <= lastSend[s] + SendPause + 1
  BY <1>1 DEF SendsOften, HearIInv
<1>3. lastSend[s] > Noise(s)
  BY <1>1, <1>2 DEF Noise
<1>4. CASE heard[r][s].sent >= lastSend[s]
  BY <1>1, <1>2, <1>4
<1>5. CASE \E m \in UnderWay(s, r) : m.data.sent = lastSend[s]
  <2> DEFINE times == {m.data.sent : m \in {o \in UnderWay(s, r) : o.data.sent > Noise(s)}}
  <2>1. times \subseteq Nat /\ times # {}
    BY <1>1, <1>3, <1>5 DEF UnderWay
  <2>2. PICK first \in times : \A x \in times : first <= x
    <3> HIDE DEF times
    <3> QED
      BY <2>1, LeastExists
  <2>3. PICK m \in UnderWay(s, r) : m.data.sent = first /\ first > Noise(s)
    BY <2>2
  <2>4. \A o \in UnderWay(s, r) : o.data.sent > Noise(s) => first <= o.data.sent
    BY <2>2
  <2>5. first \in Nat
    BY <2>1, <2>2
  <2> HIDE DEF times
  <2>6. now + Skew[s] <= first + MaxDelay
    BY <2>3 DEF MessagesFit, HearIInv, UnderWay
  <2>7. first > Noise(s) + SendPause + 1
    BY <2>5, <2>6, <1>1 DEF Noise
  <2>8. ~ \E o \in UnderWay(s, r) : o.data.sent < first /\ first <= o.data.sent + SendPause + 1
    <3> SUFFICES ASSUME NEW o \in UnderWay(s, r), o.data.sent < first,
                        first <= o.data.sent + SendPause + 1
                 PROVE  FALSE
      OBVIOUS
    <3>1. o.data.sent \in Nat
      BY <1>1 DEF UnderWay
    <3>2. o.data.sent > Noise(s)
      BY <3>1, <2>5, <2>7, <1>1 DEF Noise
    <3> QED
      BY <3>1, <3>2, <2>4, <2>5
  <2>9. first <= heard[r][s].sent + SendPause + 1
    BY <2>3, <2>7, <2>8 DEF NoGap, HearIInv
  <2> QED
    BY <2>5, <2>6, <2>9, <1>1
<1> QED
  BY <1>3, <1>4, <1>5 DEF LastArrives, HearIInv

LEMMA HearIInvSuffices == HearIInv => NobodyIsLost
<1> SUFFICES ASSUME HearIInv, now > Chaos + SendPause + MaxDelay + 1,
                    NEW r \in Robot, NEW s \in Robot \ penalized, r # s
             PROVE  /\ heard[r][s] # None
                    /\ now + Skew[s] <= heard[r][s].sent + SendPause + MaxDelay + 1
                    /\ heard[r][s].walk = walk[s]
  BY DEF NobodyIsLost
<1>1. /\ now \in Nat /\ Chaos \in Nat /\ SendPause \in Nat /\ MaxDelay \in Nat
      /\ Skew[s] \in Nat /\ heard[r][s].sent \in Nat
  BY TimesAreNumbers, ElectionAssumption DEF HearIInv
<1>2. now + Skew[s] <= heard[r][s].sent + SendPause + MaxDelay + 1
  BY HeardLately
<1>3. heard[r][s].sent > Noise(s)
  BY <1>1, <1>2 DEF Noise
<1>4. heard[r][s].sent # 0
  BY <1>1, <1>3 DEF Noise
<1> QED
  BY <1>2, <1>3, <1>4 DEF WalkIsTold, HearIInv, None

(***************************************************************************)
(* When the field has been quiet for a pause and the delay of a message,   *)
(* what every robot has from every other one that plays is hardly older,   *)
(* and tells its present walking time.                                     *)
(***************************************************************************)
THEOREM EveryoneIsHeard == Spec => []NobodyIsLost
<1>1. HearIInv => NobodyIsLost
  BY HearIInvSuffices
<1> QED
  BY <1>1, InitHears, HearInductive, PTL DEF Spec

(***************************************************************************)
(* The team that elects the striker is then the same for each robot: all   *)
(* that the referee lets play, if a message counts for as long as a pause, *)
(* a delay and the difference of two clocks.                               *)
(***************************************************************************)
TeamIsComplete ==
  now > Chaos + SendPause + MaxDelay + 1 =>
    \A r \in Robot : Robots(r, now + Skew[r]) = Robot \ penalized

THEOREM TeamsAreComplete ==
  ASSUME \A r, s \in Robot : Skew[r] + SendPause + MaxDelay + 1 <= TTL + Skew[s]
  PROVE  Spec => []TeamIsComplete
<1>1. HearIInv => TeamIsComplete
  <2> SUFFICES ASSUME HearIInv, now > Chaos + SendPause + MaxDelay + 1, NEW r \in Robot
               PROVE  Robots(r, now + Skew[r]) = Robot \ penalized
    BY DEF TeamIsComplete
  <2>1. ASSUME NEW s \in Robot \ penalized, s # r
        PROVE  heard[r][s] # None /\ heard[r][s].sent + TTL >= now + Skew[r]
    <3>1. heard[r][s] # None /\ now + Skew[s] <= heard[r][s].sent + SendPause + MaxDelay + 1
      BY <2>1, HearIInvSuffices DEF NobodyIsLost
    <3>2. /\ now \in Nat /\ SendPause \in Nat /\ MaxDelay \in Nat /\ TTL \in Nat
          /\ Skew[r] \in Nat /\ Skew[s] \in Nat /\ heard[r][s].sent \in Nat
      BY TimesAreNumbers, ElectionAssumption DEF HearIInv
    <3>3. Skew[r] + SendPause + MaxDelay + 1 <= TTL + Skew[s]
      OBVIOUS
    <3> QED
      BY <3>1, <3>2, <3>3
  <2> QED
    BY <2>1 DEF Robots
<1> QED
  BY <1>1, InitHears, HearInductive, PTL DEF Spec

-----------------------------------------------------------------------------
(* What messages tell, with any number of robots. *)

(* How old the last message of another robot may be once it is heard, and from when on it is. *)
Age == SendPause + MaxDelay + 1
Informed == Chaos + Age

(* The clock of r at its last round.                                       *)
LastClock(r) == IF r \in ran THEN now + Skew[r] ELSE now + Skew[r] - 1

Players == Robot \ penalized

(* The request x of s comes before the request y of r.                     *)
Beats(s, x, r, y) == x > y \/ (x = y /\ s < r)

Told(s, r) == {m.data : m \in UnderWay(s, r)} \cup {heard[r][s]}

(* All that a robot has done lies in its past.                             *)
PastOnly == \A s \in Robot : lastSend[s] <= LastClock(s) /\ request[s] <= LastClock(s)

(* A message tells the request of its time.                                *)
RequestIsTold ==
  \A r, s \in Robot : r # s => \A d \in Told(s, r) \ {None} :
    /\ d.request <= d.sent
    /\ request[s] > 0 => d.request <= request[s]
    /\ request[s] > 0 /\ d.sent >= request[s] => d.request = request[s]

(* What s says in this tick. *)
Fresh(s, d) == d.sent = now + Skew[s]
Said(s) == lastSend[s] = now + Skew[s]

(* A message of this tick tells the request that its sender has.           *)
FreshIsTrue ==
  \A r, s \in Robot : r # s => \A d \in Told(s, r) \ {None} : Fresh(s, d) => d.request = request[s]

(* Whoever has the last message of a robot has the same one.               *)
SameNews ==
  \A s \in Robot : \A r, o \in Robot \ {s} : \A d \in Told(s, r), e \in Told(s, o) :
    d.sent = e.sent /\ d.sent > Noise(s) => d = e

NewsIInv == HearIInv /\ PastOnly /\ RequestIsTold /\ FreshIsTrue /\ SameNews

LEMMA RobotsAreNumbers == Robot \subseteq Nat /\ (NumRobots = 2 => Robot = {0, 1} /\ Nobody = 2)
BY ElectionAssumption DEF Robot, Nobody

LEMMA ToldTypes ==
  ASSUME HearIInv, NEW r \in Robot, NEW s \in Robot, NEW d \in Told(s, r)
  PROVE  /\ d \in Message \cup {None} /\ d.sent \in Nat /\ d.sent <= lastSend[s]
         /\ d # None => d.request \in Nat /\ d.sent > 0
         /\ d = None => d.sent = 0
         /\ d.sent > Noise(s) => d # None /\ d \in Message
<1>1. \/ \E m \in UnderWay(s, r) : d = m.data
      \/ d = heard[r][s]
  BY DEF Told
<1>2. d \in Message \cup {None}
  BY <1>1 DEF UnderWay, HearIInv, TypeOK
<1>3. d.sent <= lastSend[s]
  BY <1>1 DEF UnderWay, HearIInv, MessagesFit, InOrder
<1>4. Noise(s) \in Nat
  BY ElectionAssumption DEF Noise
<1>5. /\ d \in Message => d.sent \in Nat \ {0} /\ d.request \in Nat
      /\ d = None => d.sent = 0
  BY DEF Message, None
<1> QED
  BY <1>2, <1>3, <1>4, <1>5

LEMMA ClockTypes ==
  ASSUME TypeOK, NEW s \in Robot
  PROVE  /\ LastClock(s) \in Nat /\ Skew[s] \in Nat /\ request[s] \in Nat /\ lastSend[s] \in Nat
         /\ LastClock(s) <= now + Skew[s]
         /\ s \notin ran => LastClock(s) < now + Skew[s]
         /\ now \in Nat /\ now > 0 /\ Chaos \in Nat /\ Age \in Nat /\ Informed \in Nat /\ Noise(s) \in Nat
         /\ Noise(s) = Chaos + Skew[s] /\ Noise(s) <= Informed + Skew[s]
<1>1. Skew[s] \in Nat /\ request[s] \in Nat /\ lastSend[s] \in Nat /\ now \in Nat /\ now > 0
  BY ElectionAssumption DEF TypeOK
<1>2. Age \in Nat /\ Chaos \in Nat
  BY ElectionAssumption DEF Age
<1> QED
  BY <1>1, <1>2 DEF LastClock, Informed, Noise

(* What a player has heard is newer than the chaos once everybody is heard. *)
LEMMA HeardIsRecent ==
  ASSUME HearIInv, now > Informed, NEW r \in Robot, NEW s \in Players, r # s
  PROVE  /\ heard[r][s] \in Told(s, r) /\ heard[r][s].sent > Noise(s) /\ heard[r][s] \in Message
         /\ now + Skew[s] <= heard[r][s].sent + Age
         /\ heard[r][s].walk = walk[s] /\ heard[r][s].request \in Nat
<1>1. s \in Robot \ penalized
  BY DEF Players
<1>2. now > Chaos + SendPause + MaxDelay + 1
  BY ElectionAssumption DEF HearIInv, TypeOK, Informed, Age
<1>3. /\ heard[r][s] # None
      /\ now + Skew[s] <= heard[r][s].sent + SendPause + MaxDelay + 1
      /\ heard[r][s].walk = walk[s]
  BY <1>1, <1>2, HearIInvSuffices DEF NobodyIsLost
<1>4. heard[r][s] \in Told(s, r)
  BY DEF Told
<1>5. heard[r][s].sent \in Nat /\ heard[r][s] \in Message /\ heard[r][s].request \in Nat
  BY <1>1, <1>3, <1>4, ToldTypes
<1>6. now + Skew[s] <= heard[r][s].sent + Age
  BY <1>1, <1>3, <1>5, ElectionAssumption, ClockTypes DEF Age, HearIInv
<1>7. heard[r][s].sent > Noise(s)
  BY <1>1, <1>5, <1>6, ClockTypes DEF HearIInv, Informed
<1> QED
  BY <1>1, <1>3, <1>4, <1>5, <1>6, <1>7

LEMMA AskOrKeep ==
  ASSUME NEW p \in Robot, NEW t, NEW w
  PROVE  DetermineStriker(p, t, w).request \in {0, t, request[p]}
<1> DEFINE mates == Robots(p, t)
           data == [s \in mates |-> IF s = p THEN Own(p, t, w) ELSE heard[p][s]]
           newest == NewestRequest(mates, data)
           time == IF newest = Nobody THEN 0 ELSE data[newest].request
           current == Current(newest, data)
           asks == current # p /\ t > time /\ p \in mates /\ ShouldAsk(p, mates, data, current)
<1>1. KeptRequest(p, current) \in {0, request[p]}
  BY DEF KeptRequest
<1>2. DetermineStriker(p, t, w) =
        IF asks THEN [striker |-> p, request |-> t]
        ELSE [striker |-> current, request |-> KeptRequest(p, current)]
  BY DEF DetermineStriker
<1> HIDE DEF asks, current
<1> QED
  BY <1>1, <1>2

LEMMA ToldLately ==
  ASSUME NewsIInv, NEW r \in Robot, NEW s \in Robot, NEW d \in Told(s, r)
  PROVE  /\ d.sent \in Nat /\ d.sent <= lastSend[s] /\ lastSend[s] <= LastClock(s)
         /\ LastClock(s) <= now + Skew[s] /\ (s \notin ran => LastClock(s) < now + Skew[s])
<1>1. d.sent \in Nat /\ d.sent <= lastSend[s]
  BY ToldTypes DEF NewsIInv
<1>2. lastSend[s] <= LastClock(s)
  BY DEF NewsIInv, PastOnly
<1>3. LastClock(s) <= now + Skew[s] /\ (s \notin ran => LastClock(s) < now + Skew[s])
  BY ClockTypes DEF NewsIInv, HearIInv
<1> QED
  BY <1>1, <1>2, <1>3

(* What a round adds to what has been told.                                *)
LEMMA ProceedTells ==
  ASSUME NewsIInv, NEW p \in Robot, NEW w \in Times \cup {NoBall}, NEW reached \in SUBSET Robot,
         p \notin reached, Proceed(p, w, reached)
  PROVE  LET t == now + Skew[p]
             outcome == DetermineStriker(p, t, w)
             due == p \notin penalized /\ t > lastSend[p] + SendPause
         IN  /\ t \in Nat \ {0} /\ p \notin ran /\ ran' = ran \cup {p}
             /\ UNCHANGED <<now, penalized, heard>>
             /\ request'[p] = outcome.request /\ striker'[p] = outcome.striker
             /\ lastSend'[p] = IF due THEN t ELSE lastSend[p]
             /\ \A s \in Robot \ {p} :
                  request'[s] = request[s] /\ striker'[s] = striker[s] /\ lastSend'[s] = lastSend[s]
             /\ \A r, s \in Robot : \A d \in Told(s, r)' :
                  \/ d \in Told(s, r)
                  \/ s = p /\ due /\ d = [sent |-> t, request |-> outcome.request, walk |-> w]
<1> DEFINE t == now + Skew[p]
           outcome == DetermineStriker(p, t, w)
           due == p \notin penalized /\ t > lastSend[p] + SendPause
           message == [sent |-> t, request |-> outcome.request, walk |-> w]
<1>1. TypeOK
  BY DEF NewsIInv, HearIInv
<1>2. /\ p \notin ran /\ ran' = ran \cup {p}
      /\ request' = [request EXCEPT ![p] = outcome.request]
      /\ striker' = [striker EXCEPT ![p] = outcome.striker]
      /\ Send(p, t, w, outcome.request, reached)
      /\ UNCHANGED <<now, penalized, heard>>
  BY DEF Proceed
<1>3. /\ lastSend' = IF due THEN [lastSend EXCEPT ![p] = t] ELSE lastSend
      /\ network' = IF due THEN network \cup [from : {p}, to : reached, data : {message}] ELSE network
  BY <1>2 DEF Send
<1>4. t \in Nat \ {0}
  BY <1>1, ClockTypes
<1> HIDE DEF message, due, outcome, t
<1>5. /\ request'[p] = outcome.request /\ striker'[p] = outcome.striker
      /\ lastSend'[p] = IF due THEN t ELSE lastSend[p]
      /\ \A s \in Robot \ {p} :
           request'[s] = request[s] /\ striker'[s] = striker[s] /\ lastSend'[s] = lastSend[s]
  <2>1. request \in [Robot -> Nat] /\ lastSend \in [Robot -> Nat] /\ striker \in [Robot -> Robot \cup {Nobody}]
    BY <1>1 DEF TypeOK
  <2> QED
    BY <2>1, <1>2, <1>3
<1>6. ASSUME NEW r \in Robot, NEW s \in Robot, NEW d \in Told(s, r)'
      PROVE  d \in Told(s, r) \/ (s = p /\ due /\ d = message)
  <2>1. CASE d = heard'[r][s]
    BY <2>1, <1>2 DEF Told
  <2>2. ASSUME NEW m \in network', m.from = s, m.to = r, d = m.data
        PROVE  d \in Told(s, r) \/ (s = p /\ due /\ d = message)
    <3>1. CASE m \in network
      BY <2>2, <3>1 DEF Told, UnderWay
    <3>2. CASE due /\ m \in [from : {p}, to : reached, data : {message}]
      BY <2>2, <3>2
    <3> QED
      BY <2>2, <1>3, <3>1, <3>2
  <2> QED
    BY <2>1, <2>2, <1>6 DEF Told, UnderWay
<1> QED
  BY <1>2, <1>4, <1>5, <1>6 DEF message, due, outcome, t

LEMMA NewsProceed ==
  ASSUME NewsIInv, NEW p \in Robot, NEW w \in Times \cup {NoBall}, NEW reached \in SUBSET Robot,
         p \notin reached, Proceed(p, w, reached)
  PROVE  NewsIInv'
<1> DEFINE t == now + Skew[p]
           asked == DetermineStriker(p, t, w).request
           due == p \notin penalized /\ t > lastSend[p] + SendPause
           message == [sent |-> t, request |-> asked, walk |-> w]
<1>1. HearIInv /\ TypeOK /\ HearIInv' /\ TypeOK'
  BY ProceedHears DEF NewsIInv, HearIInv
<1>2. /\ t \in Nat \ {0} /\ p \notin ran /\ ran' = ran \cup {p}
      /\ UNCHANGED <<now, penalized, heard>>
      /\ request'[p] = asked
      /\ lastSend'[p] \in {t, lastSend[p]}
      /\ due => lastSend'[p] = t
      /\ \A s \in Robot \ {p} : request'[s] = request[s] /\ lastSend'[s] = lastSend[s]
      /\ \A r, s \in Robot : \A d \in Told(s, r)' : d \in Told(s, r) \/ (s = p /\ due /\ d = message)
  BY ProceedTells
<1>3. asked \in {0, t, request[p]} /\ asked \in Nat
  <2>1. request[p] \in Nat /\ asked \in {0, t, request[p]}
    BY <1>1, AskOrKeep, ClockTypes
  <2> HIDE DEF asked, t
  <2> QED
    BY <2>1, <1>2
<1>4. /\ LastClock(p) < t /\ LastClock(p) \in Nat /\ LastClock(p)' = t
      /\ \A s \in Robot \ {p} : LastClock(s)' = LastClock(s)
      /\ lastSend[p] <= LastClock(p) /\ request[p] <= LastClock(p)
      /\ lastSend[p] \in Nat /\ request[p] \in Nat
  <2>1. LastClock(p) < t /\ LastClock(p) \in Nat /\ lastSend[p] \in Nat /\ request[p] \in Nat
    BY <1>1, <1>2, ClockTypes
  <2>2. LastClock(p)' = t /\ \A s \in Robot \ {p} : LastClock(s)' = LastClock(s)
    BY <1>2 DEF LastClock
  <2> QED
    BY <2>1, <2>2 DEF NewsIInv, PastOnly
<1>5. message.sent = t /\ message.request = asked /\ message # None
  <2> HIDE DEF t, asked
  <2>1. message.sent = t /\ message.request = asked
    OBVIOUS
  <2> HIDE DEF message
  <2> QED
    BY <2>1, <1>2 DEF None
\* Whatever has been told is older than this round.
<1>6. \A r \in Robot : \A d \in Told(p, r) : d.sent \in Nat /\ d.sent < t
  <2> HIDE DEF t
  <2>1. \A r \in Robot : \A d \in Told(p, r) : d.sent \in Nat /\ d.sent <= lastSend[p]
    BY ToldLately
  <2> QED
    BY <2>1, <1>2, <1>4
<1>7. \A r, s \in Robot : \A d \in Told(s, r) \ {None} : d.request \in Nat
  BY <1>1, ToldTypes
<1> HIDE DEF t, asked, message, due
<1>8. PastOnly'
  <2> SUFFICES ASSUME NEW s \in Robot
               PROVE  lastSend'[s] <= LastClock(s)' /\ request'[s] <= LastClock(s)'
    BY DEF PastOnly
  <2>1. CASE s = p
    BY <2>1, <1>2, <1>3, <1>4
  <2>2. CASE s # p
    BY <2>2, <1>2, <1>4 DEF NewsIInv, PastOnly
  <2> QED
    BY <2>1, <2>2
<1>9. RequestIsTold'
  <2> SUFFICES ASSUME NEW r \in Robot, NEW s \in Robot, r # s, NEW d \in Told(s, r)', d # None
               PROVE  /\ d.request <= d.sent
                      /\ request'[s] > 0 => d.request <= request'[s]
                      /\ request'[s] > 0 /\ d.sent >= request'[s] => d.request = request'[s]
    BY DEF RequestIsTold
  <2>1. CASE d \in Told(s, r) /\ request'[s] = request[s]
    BY <2>1 DEF NewsIInv, RequestIsTold
  <2>2. CASE d \in Told(s, r) /\ request'[s] # request[s]
    <3>1. s = p /\ request'[s] \in {0, t}
      BY <2>2, <1>2, <1>3
    <3>2. d.sent \in Nat /\ d.request \in Nat /\ d.sent < t
      BY <2>2, <3>1, <1>6, <1>7
    <3>3. d.request <= d.sent
      BY <2>2 DEF NewsIInv, RequestIsTold
    <3> QED
      BY <3>1, <3>2, <3>3, <1>2
  <2>3. CASE s = p /\ d = message
    BY <2>3, <1>2, <1>3, <1>4, <1>5
  <2> QED
    BY <2>1, <2>2, <2>3, <1>2
<1>10. FreshIsTrue'
  <2> SUFFICES ASSUME NEW r \in Robot, NEW s \in Robot, r # s, NEW d \in Told(s, r)', d # None,
                      d.sent = now + Skew[s]
               PROVE  d.request = request'[s]
    BY <1>2 DEF FreshIsTrue, Fresh
  <2>1. CASE s = p /\ d = message
    BY <2>1, <1>2, <1>5
  <2>2. CASE d \in Told(s, r)
    <3>1. s # p
      BY <2>2, <1>6 DEF t
    <3> QED
      BY <2>2, <3>1, <1>2 DEF NewsIInv, FreshIsTrue, Fresh
  <2> QED
    BY <2>1, <2>2, <1>2
<1>11. SameNews'
  <2> SUFFICES ASSUME NEW s \in Robot, NEW r \in Robot \ {s}, NEW o \in Robot \ {s},
                      NEW d \in Told(s, r)', NEW e \in Told(s, o)',
                      d.sent = e.sent, d.sent > Noise(s)
               PROVE  d = e
    BY DEF SameNews, Noise
  <2>1. CASE d \in Told(s, r) /\ e \in Told(s, o)
    BY <2>1 DEF NewsIInv, SameNews
  <2>2. s = p => (d = message \/ d.sent < t) /\ (e = message \/ e.sent < t)
    BY <1>2, <1>6
  <2>3. s = p /\ d = message /\ e # message => d.sent > e.sent /\ e.sent \in Nat
    BY <2>2, <1>2, <1>5, <1>6
  <2>4. s = p /\ e = message /\ d # message => e.sent > d.sent /\ d.sent \in Nat
    BY <2>2, <1>2, <1>5, <1>6
  <2> QED
    BY <2>1, <2>3, <2>4, <1>2, <1>5
<1> QED
  BY <1>1, <1>8, <1>9, <1>10, <1>11 DEF NewsIInv

LEMMA ReceiveTells ==
  ASSUME TypeOK, NEW m \in network, Receive(m)
  PROVE  /\ UNCHANGED <<now, ran, penalized, walk, request, striker, lastSend>>
         /\ \A r, s \in Robot : Told(s, r)' \subseteq Told(s, r)
<1>1. /\ network' = network \ {m}
      /\ heard' \in {heard, [heard EXCEPT ![m.to][m.from] = m.data]}
      /\ UNCHANGED <<now, ran, penalized, walk, request, striker, lastSend>>
  BY DEF Receive
<1>2. ASSUME NEW r \in Robot, NEW s \in Robot, NEW d \in Told(s, r)'
      PROVE  d \in Told(s, r)
  <2>1. CASE \E o \in UnderWay(s, r)' : d = o.data
    BY <2>1, <1>1 DEF Told, UnderWay
  <2>2. CASE d = heard'[r][s]
    <3>1. heard \in [Robot -> [Robot -> Message \cup {None}]]
      BY DEF TypeOK
    <3>2. heard'[r][s] = heard[r][s] \/ (m.from = s /\ m.to = r /\ heard'[r][s] = m.data)
      BY <1>1, <3>1
    <3> QED
      BY <2>2, <3>2 DEF Told, UnderWay
  <2> QED
    BY <2>1, <2>2, <1>2 DEF Told
<1> QED
  BY <1>1, <1>2

LEMMA NewsInductive == NewsIInv /\ [Next]_vars => NewsIInv'
<1> SUFFICES ASSUME NewsIInv, [Next]_vars PROVE NewsIInv'
  OBVIOUS
<1>1. HearIInv' /\ TypeOK /\ HearIInv
  BY HearInductive DEF NewsIInv, HearIInv
<1>2. ASSUME NEW p \in Robot, NEW w \in Times \cup {NoBall}, NEW reached \in SUBSET Robot,
             p \notin reached, Proceed(p, w, reached)
      PROVE  NewsIInv'
  BY <1>2, NewsProceed
<1>3. ASSUME UNCHANGED <<now, ran, request, lastSend>>,
             \A r, s \in Robot : Told(s, r)' \subseteq Told(s, r)
      PROVE  NewsIInv'
  <2>1. PastOnly'
    BY <1>3 DEF NewsIInv, PastOnly, LastClock
  <2>2. RequestIsTold'
    BY <1>3 DEF NewsIInv, RequestIsTold
  <2>3. FreshIsTrue'
    BY <1>3 DEF NewsIInv, FreshIsTrue, Fresh
  <2>4. SameNews'
    <3> SUFFICES ASSUME NEW s \in Robot, NEW r \in Robot \ {s}, NEW o \in Robot \ {s},
                        NEW d \in Told(s, r)', NEW e \in Told(s, o)',
                        d.sent = e.sent, d.sent > Noise(s)
                 PROVE  d = e
      BY DEF SameNews, Noise
    <3>1. d \in Told(s, r) /\ e \in Told(s, o)
      BY <1>3
    <3> QED
      BY <3>1 DEF NewsIInv, SameNews
  <2> QED
    BY <1>1, <2>1, <2>2, <2>3, <2>4 DEF NewsIInv
<1>4. ASSUME NEW m \in network, Receive(m) PROVE NewsIInv'
  BY <1>1, <1>3, <1>4, ReceiveTells
<1>5. ASSUME NEW r \in Robot, Referee(r) PROVE NewsIInv'
  <2>1. UNCHANGED <<now, ran, request, lastSend, heard, network>>
    BY <1>5 DEF Referee
  <2>2. \A q, s \in Robot : Told(s, q)' \subseteq Told(s, q)
    BY <2>1 DEF Told, UnderWay
  <2> QED
    BY <2>1, <2>2, <1>3
<1>6. CASE Tick
  <2>1. /\ ran = Robot /\ now' = now + 1 /\ ran' = {}
        /\ UNCHANGED <<penalized, walk, request, striker, lastSend, heard, network>>
    BY <1>6 DEF Tick
  <2>2. \A s \in Robot : LastClock(s)' = LastClock(s)
    BY <1>1, <2>1, ClockTypes DEF LastClock
  <2>3. \A q, s \in Robot : Told(s, q)' = Told(s, q)
    BY <2>1 DEF Told, UnderWay
  <2>4. PastOnly' /\ RequestIsTold'
    BY <2>1, <2>2, <2>3 DEF NewsIInv, PastOnly, RequestIsTold
  <2>5. FreshIsTrue'
    <3> SUFFICES ASSUME NEW r \in Robot, NEW s \in Robot, NEW d \in Told(s, r), d.sent = now + 1 + Skew[s]
                 PROVE  FALSE
      BY <2>1, <2>3 DEF FreshIsTrue, Fresh
    <3>1. d.sent \in Nat /\ d.sent <= lastSend[s] /\ lastSend[s] <= LastClock(s) /\ LastClock(s) <= now + Skew[s]
      BY ToldLately
    <3>2. now \in Nat /\ Skew[s] \in Nat /\ LastClock(s) \in Nat /\ lastSend[s] \in Nat
      BY <1>1, ClockTypes
    <3> QED
      BY <3>1, <3>2
  <2>6. SameNews'
    <3> SUFFICES ASSUME NEW s \in Robot, NEW r \in Robot \ {s}, NEW o \in Robot \ {s},
                        NEW d \in Told(s, r), NEW e \in Told(s, o),
                        d.sent = e.sent, d.sent > Noise(s)
                 PROVE  d = e
      BY <2>3 DEF SameNews, Noise
    <3> QED
      BY DEF NewsIInv, SameNews
  <2> QED
    BY <1>1, <2>4, <2>5, <2>6 DEF NewsIInv
<1>7. CASE UNCHANGED vars
  <2>1. UNCHANGED <<now, ran, request, lastSend, heard, network>>
    BY <1>7 DEF vars
  <2>2. \A q, s \in Robot : Told(s, q)' \subseteq Told(s, q)
    BY <2>1 DEF Told, UnderWay
  <2> QED
    BY <2>1, <2>2, <1>3
<1> QED
  BY <1>2, <1>4, <1>5, <1>6, <1>7 DEF Next, Done

LEMMA InitNews == Init => NewsIInv
<1> SUFFICES ASSUME Init PROVE NewsIInv
  OBVIOUS
<1>1. HearIInv
  BY InitHears
<1>2. \A r, s \in Robot : \A d \in Told(s, r) : d = None
  BY DEF Init, Told, UnderWay
<1>3. PastOnly
  <2>1. PICK since \in [Robot -> 0 .. SendPause] : lastSend = [r \in Robot |-> since[r] + Skew[r]]
    BY DEF Init
  <2>2. \A s \in Robot : since[s] \in 0 .. SendPause /\ Skew[s] \in Nat /\ lastSend[s] = since[s] + Skew[s]
    BY <2>1, ElectionAssumption
  <2>3. now = SendPause + 1 /\ ran = {} /\ SendPause \in Nat
    BY ElectionAssumption DEF Init
  <2>4. \A s \in Robot : request[s] = 0
    BY DEF Init
  <2> QED
    BY <2>2, <2>3, <2>4 DEF PastOnly, LastClock
<1>4. RequestIsTold /\ FreshIsTrue
  BY <1>2 DEF RequestIsTold, FreshIsTrue
<1>5. SameNews
  <2> SUFFICES ASSUME NEW s \in Robot, NEW r \in Robot \ {s}, NEW o \in Robot \ {s},
                      NEW d \in Told(s, r), NEW e \in Told(s, o)
               PROVE  d = e
    BY DEF SameNews
  <2> QED
    BY <1>2
<1> QED
  BY <1>1, <1>3, <1>4, <1>5 DEF NewsIInv

-----------------------------------------------------------------------------
(* Two robots agree *)

(* How far one of two clocks is ahead of the other.                        *)
Ahead == IF Skew[0] > Skew[1] THEN Skew[0] - Skew[1] ELSE Skew[1] - Skew[0]

(* When everyone has something to say, when no request will be made any more, when it is heard. *)
Begun == Informed + Age + Ahead
Closed == Begun + Age + 1
Announced == Closed + Age

(* A request that has been given up was beaten by one of the other robot.  *)
StaleIsBeaten ==
  \A r, s \in Players : r # s => \A d \in Told(s, r) :
    d.sent > Noise(s) /\ d.request > 0 /\ d.request # request[s] =>
      /\ d.request <= LastClock(r)
      /\ request[r] > 0 => Beats(r, request[r], s, d.request)

(* If nobody has a request, nobody has had one since everybody is heard.   *)
SilentSinceInformed ==
  now > Informed /\ penalized = {} /\ (\A s \in Robot : request[s] = 0) =>
    \A r, s \in Robot : r # s => \A d \in Told(s, r) :
      d.sent > Informed + Skew[s] => d.request = 0

AskIInv == NewsIInv /\ StaleIsBeaten /\ SilentSinceInformed

(* r would ask for the place of s.                                         *)
Faster(r, s) == walk[r] # NoBall /\ (walk[s] = NoBall \/ walk[s] > walk[r] + Margin)

(* r would not ask if it knew of w and nobody had a request.               *)
Weak(r, w) == walk[r] = NoBall \/ walk[r] >= walk[w] + Margin

(* w has the request that wins, and nobody will make another one.          *)
Settling(w) ==
  /\ w \in Candidates
  /\ request[w] > 0
  /\ \A r \in Players \ {w} :
       /\ ~Beats(r, request[r], w, request[w])
       /\ ~Faster(r, w)
       /\ Weak(r, w) \/ request[r] > 0 \/ heard[r][w].sent >= request[w]

WeakIsOld ==
  now > Informed => \A a \in Candidates, b \in Players :
    a # b /\ Weak(b, a) => request[b] <= Informed + Skew[b]

(* The tick after t has begun, or r has had its round in it.               *)
After(t, r) == now > t /\ (r \in ran \/ now > t + 1)

LonelyAsks == \A a \in Candidates : Players = {a} /\ After(Informed, a) => request[a] > 0

StrongAsks ==
  \A a \in Candidates, b \in Players : a # b /\ Faster(a, b) /\ After(Begun, a) => Settling(a)

(* Two that are about as fast.                                             *)
Alike == Players = Robot /\ Candidates = Robot /\ \A r, s \in Robot : ~Faster(r, s)

SomebodyAsks ==
  Alike => \A a, b \in Robot : a # b /\ walk[a] <= walk[b] /\ After(Begun, a) =>
    request[a] > 0 \/ request[b] > 0

OneMayFollow ==
  Alike /\ now > Begun + 1 =>
    \/ \E w \in Robot : Settling(w)
    \/ \E h \in Robot : request[h] > 0 /\ request[h] <= Begun + 1 + Skew[h]

ChosenInTime ==
  now > Closed =>
    Candidates = {} \/ \E w \in Robot : Settling(w) /\ request[w] <= Closed + Skew[w]

NamedInTime ==
  \A r \in Robot : After(Announced, r) =>
    \/ Candidates = {} /\ striker[r] = Nobody
    \/ \E w \in Robot : Settling(w) /\ striker[r] = w

AgreeIInv ==
  /\ AskIInv /\ WeakIsOld /\ LonelyAsks /\ StrongAsks
  /\ SomebodyAsks /\ OneMayFollow /\ ChosenInTime /\ NamedInTime

(* The newest of two requests, x of p and v of o.                          *)
LEMMA NewestOfTwo ==
  ASSUME NumRobots = 2, NEW p \in Robot, NEW o \in Robot, p # o,
         NEW mates \in SUBSET Robot, NEW data, NEW x \in Nat, NEW v \in Nat,
         IF p \in mates THEN data[p].request = x ELSE x = 0,
         IF o \in mates THEN data[o].request = v ELSE v = 0
  PROVE  /\ v > 0 /\ Beats(o, v, p, x) => NewestRequest(mates, data) = o
         /\ ~(v > 0 /\ Beats(o, v, p, x)) /\ x > 0 => NewestRequest(mates, data) = p
         /\ ~(v > 0 /\ Beats(o, v, p, x)) /\ x = 0 => NewestRequest(mates, data) = Nobody
<1> DEFINE asking == {s \in mates : data[s].request > 0}
           newest == {s \in asking : \A q \in asking : data[q].request <= data[s].request}
<1>1. Robot = {0, 1} /\ p \in Nat /\ o \in Nat /\ \A s \in mates : s = p \/ s = o
  BY RobotsAreNumbers
<1>2. ASSUME NEW y \in newest, \A s \in newest : y <= s
      PROVE  NewestRequest(mates, data) = y
  <2>1. newest \subseteq Nat
    <3>1. newest \subseteq mates
      OBVIOUS
    <3> HIDE DEF newest
    <3> QED
      BY <3>1, <1>1
  <2>2. NewestRequest(mates, data) = CHOOSE s \in newest : \A q \in newest : s <= q
    BY <1>2 DEF NewestRequest
  <2> HIDE DEF newest
  <2>3. \A z \in newest : (\A q \in newest : z <= q) => z = y
    BY <1>2, <2>1
  <2> QED
    BY <1>2, <2>2, <2>3
<1>3. /\ p \in asking <=> x > 0
      /\ o \in asking <=> v > 0
  BY <1>1
<1>4. /\ p \in newest <=> x > 0 /\ v <= x
      /\ o \in newest <=> v > 0 /\ x <= v
  <2>1. (o \in asking => data[o].request = v) /\ (p \in asking => data[p].request = x)
    OBVIOUS
  <2>2. \A s \in asking : s = p \/ s = o
    BY <1>1
  <2>3. p \in newest <=> p \in asking /\ \A q \in asking : data[q].request <= x
    BY <2>1
  <2>4. o \in newest <=> o \in asking /\ \A q \in asking : data[q].request <= v
    BY <2>1
  <2> HIDE DEF newest, asking
  <2> QED
    BY <2>1, <2>2, <2>3, <2>4, <1>3
<1>5. \A s \in newest : s = p \/ s = o
  BY <1>1
<1>6. CASE v > 0 /\ Beats(o, v, p, x)
  <2>1. o \in newest /\ (p \in newest => o <= p)
    BY <1>1, <1>4, <1>6 DEF Beats
  <2> QED
    BY <1>1, <1>2, <1>5, <1>6, <2>1
<1>7. CASE ~(v > 0 /\ Beats(o, v, p, x)) /\ x > 0
  <2>1. p \in newest /\ (o \in newest => p <= o)
    BY <1>1, <1>4, <1>7 DEF Beats
  <2> QED
    BY <1>1, <1>2, <1>5, <1>7, <2>1
<1>8. CASE ~(v > 0 /\ Beats(o, v, p, x)) /\ x = 0
  <2>1. newest = {}
    BY <1>4, <1>5, <1>8 DEF Beats
  <2> QED
    BY <1>8, <2>1 DEF NewestRequest
<1> QED
  BY <1>6, <1>7, <1>8

(* What p knows of the request and the walk of o at the time t of its clock. *)
RequestOf(o, p, t) == IF o \in Robots(p, t) THEN heard[p][o].request ELSE 0
WalkOf(o, p, t) == IF o \in Robots(p, t) THEN heard[p][o].walk ELSE NoBall

LEMMA ViewTypes ==
  ASSUME TypeOK, NEW p \in Robot, NEW o \in Robot, p # o, NEW t
  PROVE  RequestOf(o, p, t) \in Nat /\ WalkOf(o, p, t) \in Times \cup {NoBall}
<1>1. heard[p][o] \in Message \cup {None}
  BY DEF TypeOK
<1>2. o \in Robots(p, t) => heard[p][o] \in Message
  BY <1>1 DEF Robots
<1> QED
  BY <1>2 DEF RequestOf, WalkOf, Message

(* What proceed() of one of two robots makes of its own request x, the request v and the walk *)
(* u of the other one.                                                                        *)
LEMMA PlayerDecides ==
  ASSUME NumRobots = 2, TypeOK, NEW p \in Players, NEW o \in Robot, p # o,
         NEW t \in Nat, NEW w \in Times \cup {NoBall},
         NEW x, x = request[p], NEW v, v = RequestOf(o, p, t), NEW u, u = WalkOf(o, p, t)
  PROVE  /\ v > 0 /\ Beats(o, v, p, x) =>
              DetermineStriker(p, t, w) =
                IF t > v /\ w # NoBall /\ (u = NoBall \/ u > w + Margin)
                THEN [striker |-> p, request |-> t]
                ELSE IF u # NoBall THEN [striker |-> o, request |-> 0]
                                   ELSE [striker |-> Nobody, request |-> x]
         /\ ~(v > 0 /\ Beats(o, v, p, x)) /\ x > 0 =>
              DetermineStriker(p, t, w) = [striker |-> IF w # NoBall THEN p ELSE Nobody, request |-> x]
         /\ ~(v > 0 /\ Beats(o, v, p, x)) /\ x = 0 =>
              DetermineStriker(p, t, w) =
                IF t > 0 /\ w # NoBall /\ (u = NoBall \/ w < u + Margin)
                THEN [striker |-> p, request |-> t]
                ELSE [striker |-> Nobody, request |-> 0]
<1> DEFINE mates == Robots(p, t)
           data == [s \in mates |-> IF s = p THEN Own(p, t, w) ELSE heard[p][s]]
           newest == NewestRequest(mates, data)
           time == IF newest = Nobody THEN 0 ELSE data[newest].request
           current == Current(newest, data)
           should == ShouldAsk(p, mates, data, current)
           beaten == v > 0 /\ Beats(o, v, p, x)
<1>1. p \in Robot /\ p \notin penalized /\ x \in Nat /\ v \in Nat /\ u \in Times \cup {NoBall}
  <2>1. p \in Robot /\ p \notin penalized
    BY DEF Players
  <2> QED
    BY <2>1, ViewTypes DEF TypeOK
<1>2. mates \in SUBSET Robot /\ p \in mates
  BY <1>1 DEF Robots
<1>3. /\ data[p] = Own(p, t, w)
      /\ IF o \in mates THEN data[o].request = v /\ data[o].walk = u ELSE v = 0 /\ u = NoBall
  BY <1>2 DEF RequestOf, WalkOf
<1>4. data[p].request = x /\ data[p].walk = w
  BY <1>3 DEF Own
<1>5. p # Nobody /\ o # Nobody /\ \A s \in mates : s = p \/ s = o
  BY <1>1, <1>2, RobotsAreNumbers
<1> HIDE DEF mates, data
<1>6. /\ beaten => newest = o
      /\ ~beaten /\ x > 0 => newest = p
      /\ ~beaten /\ x = 0 => newest = Nobody
  BY <1>1, <1>2, <1>3, <1>4, NewestOfTwo
<1>7. DetermineStriker(p, t, w) =
        IF current # p /\ t > time /\ p \in mates /\ should
        THEN [striker |-> p, request |-> t]
        ELSE [striker |-> current, request |-> KeptRequest(p, current)]
  BY DEF DetermineStriker, mates, data
<1>8. KeptRequest(p, p) = x /\ KeptRequest(p, Nobody) = x /\ KeptRequest(p, o) = 0
  BY <1>1, <1>5 DEF KeptRequest
<1>9. w # NoBall => w < w + Margin
  BY ElectionAssumption
<1>10. should <=> /\ w # NoBall
                  /\ current \in mates => data[current].walk > w + Margin
                  /\ u # NoBall => w < u + Margin
  BY <1>2, <1>3, <1>4, <1>5, <1>9 DEF ShouldAsk
<1> HIDE DEF newest, should
<1>11. ASSUME beaten
       PROVE  DetermineStriker(p, t, w) =
                IF t > v /\ w # NoBall /\ (u = NoBall \/ u > w + Margin)
                THEN [striker |-> p, request |-> t]
                ELSE IF u # NoBall THEN [striker |-> o, request |-> 0]
                                   ELSE [striker |-> Nobody, request |-> x]
  <2>1. newest = o /\ o \in mates /\ time = v
    BY <1>1, <1>3, <1>5, <1>6, <1>11
  <2>2. current = IF u # NoBall THEN o ELSE Nobody
    BY <1>3, <1>5, <2>1 DEF Current
  <2>3. Nobody \notin mates
    BY <1>5
  <2>4. w # NoBall /\ u # NoBall /\ u > w + Margin => w < u + Margin
    BY <1>1, ElectionAssumption
  <2>5. should <=> w # NoBall /\ (u = NoBall \/ u > w + Margin)
    BY <1>3, <1>10, <2>1, <2>2, <2>3, <2>4
  <2> HIDE DEF current, time
  <2> QED
    BY <1>2, <1>5, <1>7, <1>8, <2>1, <2>2, <2>5
<1>12. ASSUME ~beaten, x > 0
       PROVE  DetermineStriker(p, t, w) = [striker |-> IF w # NoBall THEN p ELSE Nobody, request |-> x]
  <2>1. newest = p
    BY <1>6, <1>12
  <2>2. current = IF w # NoBall THEN p ELSE Nobody
    BY <1>4, <1>5, <2>1 DEF Current
  <2> HIDE DEF current, time
  <2> QED
    BY <1>7, <1>8, <1>10, <2>2
<1>13. ASSUME ~beaten, x = 0
       PROVE  DetermineStriker(p, t, w) =
                IF t > 0 /\ w # NoBall /\ (u = NoBall \/ w < u + Margin)
                THEN [striker |-> p, request |-> t]
                ELSE [striker |-> Nobody, request |-> 0]
  <2>1. newest = Nobody /\ time = 0
    BY <1>6, <1>13
  <2>2. current = Nobody /\ Nobody \notin mates
    BY <1>5, <2>1 DEF Current
  <2> HIDE DEF current, time
  <2> QED
    BY <1>2, <1>5, <1>7, <1>8, <1>10, <1>13, <2>1, <2>2
<1> QED
  BY <1>11, <1>12, <1>13

LEMMA PenalizedDecides ==
  ASSUME NumRobots = 2, TypeOK, NEW p \in penalized, NEW o \in Robot, p # o, NEW t \in Nat, NEW w,
         NEW v, v = RequestOf(o, p, t), NEW u, u = WalkOf(o, p, t)
  PROVE  DetermineStriker(p, t, w) =
           IF v > 0 /\ u # NoBall THEN [striker |-> o, request |-> 0]
                                  ELSE [striker |-> Nobody, request |-> 0]
<1> DEFINE mates == Robots(p, t)
           data == [s \in mates |-> IF s = p THEN Own(p, t, w) ELSE heard[p][s]]
           newest == NewestRequest(mates, data)
           current == Current(newest, data)
<1>1. p \in Robot /\ v \in Nat
  <2>1. p \in Robot
    BY DEF TypeOK
  <2> QED
    BY <2>1, ViewTypes
<1>2. mates \in SUBSET Robot /\ p \notin mates
  BY DEF Robots
<1>3. IF o \in mates THEN data[o].request = v /\ data[o].walk = u ELSE v = 0 /\ u = NoBall
  BY <1>2 DEF RequestOf, WalkOf
<1>4. o # Nobody
  BY RobotsAreNumbers
<1> HIDE DEF mates, data
<1>5. newest = IF v > 0 THEN o ELSE Nobody
  <2>1. v > 0 => Beats(o, v, p, 0)
    BY <1>1 DEF Beats
  <2> QED
    BY <1>1, <1>2, <1>3, <2>1, NewestOfTwo
<1>6. current = IF v > 0 /\ u # NoBall THEN o ELSE Nobody
  BY <1>1, <1>3, <1>4, <1>5 DEF Current
<1>7. DetermineStriker(p, t, w) = [striker |-> current, request |-> 0]
  BY <1>2 DEF DetermineStriker, mates, data, KeptRequest
<1> HIDE DEF current
<1> QED
  BY <1>6, <1>7

(* A player changes its request only if it has none, or if it hears of one that beats it. *)
LEMMA AskOrDrop ==
  ASSUME NumRobots = 2, TypeOK, NEW p \in Players, NEW o \in Robot, p # o,
         NEW t \in Nat, NEW w \in Times \cup {NoBall},
         DetermineStriker(p, t, w).request # request[p]
  PROVE  /\ DetermineStriker(p, t, w).request \in {0, t}
         /\ \/ request[p] = 0
            \/ /\ o \in Players /\ heard[p][o] # None /\ heard[p][o].request > 0
               /\ Beats(o, heard[p][o].request, p, request[p])
<1> DEFINE x == request[p]
           v == RequestOf(o, p, t)
           u == WalkOf(o, p, t)
           out == DetermineStriker(p, t, w)
<1>1. p \in Robot /\ x \in Nat
  BY DEF Players, TypeOK
<1>2. v > 0 => o \in Players /\ heard[p][o] # None /\ heard[p][o].request = v
  BY <1>1 DEF RequestOf, Robots, Players
<1>3. /\ v > 0 /\ Beats(o, v, p, x) =>
           out = IF t > v /\ w # NoBall /\ (u = NoBall \/ u > w + Margin)
                 THEN [striker |-> p, request |-> t]
                 ELSE IF u # NoBall THEN [striker |-> o, request |-> 0]
                                    ELSE [striker |-> Nobody, request |-> x]
      /\ ~(v > 0 /\ Beats(o, v, p, x)) /\ x > 0 =>
           out = [striker |-> IF w # NoBall THEN p ELSE Nobody, request |-> x]
      /\ ~(v > 0 /\ Beats(o, v, p, x)) /\ x = 0 =>
           out = IF t > 0 /\ w # NoBall /\ (u = NoBall \/ w < u + Margin)
                 THEN [striker |-> p, request |-> t]
                 ELSE [striker |-> Nobody, request |-> 0]
  BY PlayerDecides
<1>4. out.request # x
  OBVIOUS
<1> HIDE DEF out, u, v, x
<1>5. CASE v > 0 /\ Beats(o, v, p, x)
  <2>1. out.request \in {0, t, x}
    BY <1>3, <1>5
  <2> QED
    BY <1>2, <1>4, <1>5, <2>1 DEF out, x
<1>6. CASE ~(v > 0 /\ Beats(o, v, p, x)) /\ x > 0
  BY <1>3, <1>4, <1>6
<1>7. CASE ~(v > 0 /\ Beats(o, v, p, x)) /\ x = 0
  <2>1. out.request \in {0, t}
    BY <1>3, <1>7
  <2> QED
    BY <1>7, <2>1 DEF out, x
<1> QED
  BY <1>1, <1>5, <1>6, <1>7

LEMMA PenalizedDrop ==
  ASSUME NEW p \in penalized, NEW t, NEW w
  PROVE  DetermineStriker(p, t, w).request = 0
<1>1. p \notin Robots(p, t)
  BY DEF Robots
<1>2. \A c : KeptRequest(p, c) = 0
  BY DEF KeptRequest
<1> QED
  BY <1>1, <1>2 DEF DetermineStriker

LEMMA InitAsks == Init => AskIInv
<1> SUFFICES ASSUME Init PROVE AskIInv
  OBVIOUS
<1>1. NewsIInv /\ TypeOK
  BY InitNews DEF NewsIInv, HearIInv
<1>2. \A r, s \in Robot : \A d \in Told(s, r) : d = None
  BY DEF Init, Told, UnderWay
<1>3. \A r, s \in Robot : \A d \in Told(s, r) : ~(d.sent > Noise(s)) /\ ~(d.sent > Informed + Skew[s])
  <2> SUFFICES ASSUME NEW r \in Robot, NEW s \in Robot, NEW d \in Told(s, r)
               PROVE  ~(d.sent > Noise(s)) /\ ~(d.sent > Informed + Skew[s])
    OBVIOUS
  <2>1. d.sent = 0
    BY <1>2 DEF None
  <2> QED
    BY <2>1, <1>1, ClockTypes
<1>4. StaleIsBeaten /\ SilentSinceInformed
  BY <1>3 DEF StaleIsBeaten, SilentSinceInformed, Players
<1> QED
  BY <1>1, <1>4 DEF AskIInv

(* Who gives up a request once everybody is heard leaves the other one with one. *)
LEMMA OtherKeeps ==
  ASSUME NumRobots = 2, AskIInv, now > Informed, NEW p \in Players, NEW o \in Players, p # o,
         request[p] > 0, heard[p][o].request > 0,
         Beats(o, heard[p][o].request, p, request[p])
  PROVE  request[o] > 0 /\ heard[p][o].request = request[o]
<1>1. p \in Robot /\ o \in Robot
  BY DEF Players
<1>2. heard[p][o] \in Told(o, p) /\ heard[p][o].sent > Noise(o) /\ heard[p][o].request \in Nat
  BY <1>1, HeardIsRecent DEF AskIInv, NewsIInv
<1>3. request[p] \in Nat /\ request[o] \in Nat
  BY <1>1, ClockTypes DEF AskIInv, NewsIInv, HearIInv
<1>4. heard[p][o].request # request[o] => Beats(p, request[p], o, heard[p][o].request)
  BY <1>2 DEF AskIInv, StaleIsBeaten
<1>5. ~Beats(p, request[p], o, heard[p][o].request)
  BY <1>1, <1>2, <1>3, RobotsAreNumbers DEF Beats
<1> QED
  BY <1>4, <1>5

LEMMA ProceedAsks ==
  ASSUME NumRobots = 2, AskIInv,
         NEW p \in Robot, NEW w \in Times \cup {NoBall}, NEW reached \in SUBSET Robot,
         p \notin reached, Proceed(p, w, reached)
  PROVE  AskIInv'
<1> DEFINE t == now + Skew[p]
           asked == DetermineStriker(p, t, w).request
           message == [sent |-> t, request |-> asked, walk |-> w]
<1>1. NewsIInv' /\ NewsIInv /\ HearIInv /\ TypeOK
  BY NewsProceed DEF AskIInv, NewsIInv, HearIInv
<1>2. /\ t \in Nat \ {0} /\ p \notin ran /\ ran' = ran \cup {p} /\ request'[p] = asked
      /\ UNCHANGED <<now, penalized, heard>>
      /\ \A s \in Robot : s # p => request'[s] = request[s]
      /\ \A r, s \in Robot : \A d \in Told(s, r)' : d \in Told(s, r) \/ (s = p /\ d = message)
  BY <1>1, ProceedTells
<1> HIDE DEF message
<1>3. LastClock(p) < t /\ request[p] \in Nat
  BY <1>1, <1>2, ClockTypes
<1>4. /\ asked \in {0, t, request[p]} /\ asked \in Nat
      /\ p \in Players => \A o \in Robot : o # p /\ asked # request[p] =>
           \/ request[p] = 0
           \/ /\ o \in Players /\ heard[p][o] # None /\ heard[p][o].request > 0
              /\ Beats(o, heard[p][o].request, p, request[p])
  <2>1. CASE p \in Players
    <3>1. \A o \in Robot : o # p /\ asked # request[p] =>
            /\ asked \in {0, t}
            /\ \/ request[p] = 0
               \/ /\ o \in Players /\ heard[p][o] # None /\ heard[p][o].request > 0
                  /\ Beats(o, heard[p][o].request, p, request[p])
      BY <2>1, <1>1, <1>2, <1>3, AskOrDrop
    <3>2. \E o \in Robot : o # p
      BY RobotsAreNumbers
    <3> HIDE DEF asked, t
    <3> QED
      BY <3>1, <3>2, <1>2, <1>3
  <2>2. CASE p \notin Players
    <3>1. asked = 0
      BY <2>2, PenalizedDrop DEF Players
    <3> QED
      BY <2>2, <3>1
  <2> QED
    BY <2>1, <2>2
<1>5. message.sent = t /\ message.request = asked /\ message # None
  <2>1. message.sent = t /\ message.request = asked
    BY DEF message
  <2>2. t # 0
    BY <1>2
  <2> QED
    BY <2>1, <2>2 DEF None
<1> HIDE DEF t, asked
<1>6. /\ \A s \in Robot : s # p => LastClock(s)' = LastClock(s)
      /\ LastClock(p)' = t
  BY <1>2 DEF LastClock, t
\* Whatever has been told is older than this round.
<1>7. \A r, s \in Robot : \A d \in Told(s, r) : d # None =>
         /\ d.sent \in Nat /\ d.request \in Nat
         /\ d.sent <= LastClock(s)
         /\ r # s => d.request <= d.sent
  <2> SUFFICES ASSUME NEW r \in Robot, NEW s \in Robot, NEW d \in Told(s, r), d # None
               PROVE  /\ d.sent \in Nat /\ d.request \in Nat /\ d.sent <= LastClock(s)
                      /\ r # s => d.request <= d.sent
    OBVIOUS
  <2>1. d.sent \in Nat /\ d.request \in Nat /\ d.sent <= lastSend[s]
    BY <1>1, ToldTypes
  <2>2. lastSend[s] <= LastClock(s) /\ lastSend[s] \in Nat /\ LastClock(s) \in Nat
    BY <1>1, ClockTypes DEF NewsIInv, PastOnly
  <2>3. r # s => d.request <= d.sent
    BY <1>1 DEF NewsIInv, RequestIsTold
  <2> QED
    BY <2>1, <2>2, <2>3
<1>8. LastClock(p) \in Nat
  BY <1>1, ClockTypes
<1>9. StaleIsBeaten'
  <2> SUFFICES ASSUME NEW r \in Players, NEW s \in Players, r # s, NEW d \in Told(s, r)',
                      d.sent > Noise(s), d.request > 0, d.request # request'[s]
               PROVE  /\ d.request <= LastClock(r)'
                      /\ request'[r] > 0 => Beats(r, request'[r], s, d.request)
    BY <1>2 DEF StaleIsBeaten, Players, Noise
  <2>1. r \in Robot /\ s \in Robot /\ (r = p \/ s = p)
    BY RobotsAreNumbers DEF Players
  <2>2. d \in Told(s, r)
    BY <2>1, <1>2, <1>5
  <2>3. d # None /\ d.request \in Nat
    BY <2>1, <2>2, <1>1, ToldTypes
  <2>4. /\ LastClock(r) \in Nat /\ LastClock(s) \in Nat /\ request[r] \in Nat /\ request[s] \in Nat
    BY <2>1, <1>1, ClockTypes
  <2>5. ASSUME d.request # request[s]
        PROVE  /\ d.request <= LastClock(r)
               /\ request[r] > 0 => Beats(r, request[r], s, d.request)
    BY <2>2, <2>5 DEF AskIInv, StaleIsBeaten
  <2>6. CASE s = p /\ d.request # request[p]
    BY <2>1, <2>5, <2>6, <1>2, <1>6
  <2>7. CASE s = p /\ d.request = request[p]
    <3> DEFINE v == heard[p][r].request
    <3>1. asked # request[p] /\ request[p] > 0
      BY <2>7, <1>2
    <3>2. heard[p][r] # None /\ v > 0 /\ Beats(r, v, p, request[p])
      BY <2>1, <2>7, <3>1, <1>3, <1>4
    <3>3. heard[p][r] \in Told(r, p)
      BY DEF Told
    <3>4. v \in Nat /\ v <= LastClock(r)
      <4>1. heard[p][r].sent \in Nat /\ v \in Nat /\ heard[p][r].sent <= LastClock(r) /\ v <= heard[p][r].sent
        BY <2>1, <2>7, <3>2, <3>3, <1>7
      <4> QED
        BY <4>1, <2>4
    <3>5. request[r] > 0 => v <= request[r]
      BY <1>1, <2>1, <2>7, <3>2, <3>3 DEF NewsIInv, RequestIsTold
    <3> HIDE DEF v
    <3>6. r # p /\ r \in Nat /\ p \in Nat
      BY <2>1, <2>7, RobotsAreNumbers
    <3>7. request'[r] = request[r] /\ LastClock(r)' = LastClock(r)
      BY <2>1, <3>6, <1>2, <1>6
    <3> QED
      BY <2>3, <2>4, <2>7, <3>2, <3>4, <3>5, <3>6, <3>7 DEF Beats
  <2>8. CASE r = p
    <3>1. request'[s] = request[s]
      BY <2>1, <2>8, <1>2
    <3>2. d.request <= LastClock(p) /\ (request[p] > 0 => Beats(p, request[p], s, d.request))
      BY <2>5, <2>8, <3>1
    <3>3. d.request < t
      BY <2>3, <3>2, <1>2, <1>3, <1>8
    <3>4. request'[p] \in {0, t, request[p]}
      BY <1>2, <1>4
    <3> QED
      BY <2>3, <2>8, <3>2, <3>3, <3>4, <1>2, <1>3, <1>6 DEF Beats
  <2> QED
    BY <2>1, <2>6, <2>7, <2>8
<1>10. SilentSinceInformed'
  <2> SUFFICES ASSUME now > Informed, penalized = {}, \A s \in Robot : request'[s] = 0,
                      NEW r \in Robot, NEW s \in Robot, r # s, NEW d \in Told(s, r)',
                      d.sent > Informed + Skew[s]
               PROVE  d.request = 0
    BY <1>2 DEF SilentSinceInformed, Informed, Age
  <2>1. p \in Players /\ r \in Players /\ s \in Players
    BY DEF Players
  <2>2. \A q \in Robot : request[q] = 0
    <3>1. PICK o \in Robot : o # p /\ \A q \in Robot : q = p \/ q = o
      BY RobotsAreNumbers
    <3>2. request[o] = 0
      BY <3>1, <1>2
    <3>3. o \in Players
      BY DEF Players
    <3>4. request[p] = 0
      <4> SUFFICES ASSUME request[p] # 0 PROVE FALSE
        OBVIOUS
      <4>1. request[p] > 0 /\ asked # request[p]
        BY <1>3, <1>2
      <4>2. heard[p][o].request > 0 /\ Beats(o, heard[p][o].request, p, request[p])
        BY <2>1, <3>1, <4>1, <1>3, <1>4
      <4>3. request[o] > 0
        BY <2>1, <3>1, <3>3, <4>1, <4>2, OtherKeeps
      <4> QED
        BY <3>2, <4>3
    <3> QED
      BY <3>1, <3>2, <3>4
  <2>3. CASE d \in Told(s, r)
    BY <2>2, <2>3 DEF AskIInv, SilentSinceInformed
  <2>4. CASE s = p /\ d = message
    BY <2>4, <1>2, <1>5
  <2> QED
    BY <2>3, <2>4, <1>2
<1> QED
  BY <1>1, <1>9, <1>10 DEF AskIInv

LEMMA ReceiveAsks ==
  ASSUME AskIInv, NEW m \in network, Receive(m)
  PROVE  AskIInv'
<1>1. NewsIInv' /\ NewsIInv /\ TypeOK
  BY NewsInductive DEF AskIInv, NewsIInv, HearIInv, Next
<1>2. /\ UNCHANGED <<now, ran, penalized, walk, request, striker, lastSend>>
      /\ \A r, s \in Robot : Told(s, r)' \subseteq Told(s, r)
  BY <1>1, ReceiveTells
<1>3. \A s \in Robot : LastClock(s)' = LastClock(s)
  BY <1>2 DEF LastClock
<1>4. StaleIsBeaten'
  <2> SUFFICES ASSUME NEW r \in Players, NEW s \in Players, r # s, NEW d \in Told(s, r)',
                      d.sent > Noise(s), d.request > 0, d.request # request[s]
               PROVE  /\ d.request <= LastClock(r)'
                      /\ request[r] > 0 => Beats(r, request[r], s, d.request)
    BY <1>2 DEF StaleIsBeaten, Players, Noise
  <2>1. d \in Told(s, r) /\ LastClock(r)' = LastClock(r)
    BY <1>2, <1>3 DEF Players
  <2> QED
    BY <2>1 DEF AskIInv, StaleIsBeaten
<1>5. SilentSinceInformed'
  BY <1>2 DEF AskIInv, SilentSinceInformed
<1> QED
  BY <1>1, <1>4, <1>5 DEF AskIInv

LEMMA RefereeAsks ==
  ASSUME AskIInv, NEW r \in Robot, Referee(r)
  PROVE  AskIInv'
<1>1. NewsIInv' /\ HearIInv /\ TypeOK
  BY NewsInductive DEF AskIInv, NewsIInv, HearIInv, Next
<1>2. /\ ~Quiet /\ now \in Nat /\ Chaos \in Nat
      /\ UNCHANGED <<now, ran, walk, request, striker, lastSend, heard, network>>
  BY <1>1, TimesAreNumbers, ElectionAssumption DEF Referee
\* Nothing has been told in the quiet yet.
<1>3. \A q, s \in Robot : \A d \in Told(s, q) : ~(d.sent > Noise(s))
  <2> SUFFICES ASSUME NEW q \in Robot, NEW s \in Robot, NEW d \in Told(s, q), d.sent > Noise(s)
               PROVE  FALSE
    OBVIOUS
  <2>1. d.sent \in Nat /\ d.sent <= lastSend[s]
    BY <1>1, ToldTypes
  <2>2. lastSend[s] <= now + Skew[s]
    BY <1>1 DEF HearIInv, ClocksFit
  <2> QED
    BY <2>1, <2>2, <1>1, <1>2, ClockTypes DEF Quiet
<1>4. \A q, s \in Robot : Told(s, q)' = Told(s, q)
  BY <1>2 DEF Told, UnderWay
<1>5. StaleIsBeaten'
  BY <1>3, <1>4 DEF StaleIsBeaten, Players, Noise
<1>6. SilentSinceInformed'
  <2>1. ~(now > Informed)
    BY <1>1, <1>2, ClockTypes DEF Quiet, Informed
  <2> QED
    BY <1>2, <2>1 DEF SilentSinceInformed, Informed, Age
<1> QED
  BY <1>1, <1>5, <1>6 DEF AskIInv

LEMMA TickAsks ==
  ASSUME AskIInv, Tick
  PROVE  AskIInv'
<1>1. NewsIInv' /\ HearIInv /\ TypeOK
  BY NewsInductive DEF AskIInv, NewsIInv, HearIInv, Next
<1>2. /\ ran = Robot /\ now' = now + 1 /\ ran' = {}
      /\ UNCHANGED <<penalized, walk, request, striker, lastSend, heard, network>>
  BY DEF Tick
<1>3. \A s \in Robot : LastClock(s)' = LastClock(s)
  BY <1>1, <1>2, ClockTypes DEF LastClock
<1>4. \A q, s \in Robot : Told(s, q)' = Told(s, q)
  BY <1>2 DEF Told, UnderWay
<1>5. StaleIsBeaten'
  <2> SUFFICES ASSUME NEW r \in Players, NEW s \in Players, r # s, NEW d \in Told(s, r)',
                      d.sent > Noise(s), d.request > 0, d.request # request[s]
               PROVE  /\ d.request <= LastClock(r)'
                      /\ request[r] > 0 => Beats(r, request[r], s, d.request)
    BY <1>2 DEF StaleIsBeaten, Players, Noise
  <2>1. r \in Robot /\ s \in Robot
    BY DEF Players
  <2> QED
    BY <2>1, <1>3, <1>4 DEF AskIInv, StaleIsBeaten
\* When everybody begins to be informed nothing has been sent since.
<1>6. SilentSinceInformed'
  <2> SUFFICES ASSUME now + 1 > Informed, penalized = {}, \A s \in Robot : request[s] = 0,
                      NEW r \in Robot, NEW s \in Robot, r # s, NEW d \in Told(s, r),
                      d.sent > Informed + Skew[s]
               PROVE  d.request = 0
    BY <1>2, <1>4 DEF SilentSinceInformed, Informed, Age
  <2>1. now \in Nat /\ Informed \in Nat /\ Skew[s] \in Nat /\ lastSend[s] \in Nat
    BY <1>1, ClockTypes
  <2>2. d.sent \in Nat /\ d.sent <= lastSend[s] /\ lastSend[s] <= now + Skew[s]
    BY <1>1, ToldTypes DEF HearIInv, ClocksFit
  <2>3. now > Informed
    BY <2>1, <2>2
  <2> QED
    BY <2>3 DEF AskIInv, SilentSinceInformed
<1> QED
  BY <1>1, <1>5, <1>6 DEF AskIInv

LEMMA AskInductive == NumRobots = 2 /\ AskIInv /\ [Next]_vars => AskIInv'
<1> SUFFICES ASSUME NumRobots = 2, AskIInv, [Next]_vars PROVE AskIInv'
  OBVIOUS
<1>1. ASSUME NEW r \in Robot, NEW w \in Times \cup {NoBall}, NEW reached \in SUBSET Robot,
             r \notin reached, Proceed(r, w, reached)
      PROVE  AskIInv'
  BY <1>1, ProceedAsks
<1>2. ASSUME NEW m \in network, Receive(m) PROVE AskIInv'
  BY <1>2, ReceiveAsks
<1>3. ASSUME NEW r \in Robot, Referee(r) PROVE AskIInv'
  BY <1>3, RefereeAsks
<1>4. CASE Tick
  BY <1>4, TickAsks
<1>5. CASE UNCHANGED vars
  <2>1. NewsIInv'
    BY <1>5, NewsInductive DEF AskIInv
  <2>2. StaleIsBeaten' /\ SilentSinceInformed'
    BY <1>5 DEF vars, AskIInv, LastClock, StaleIsBeaten, SilentSinceInformed,
                Told, UnderWay, Players, Noise, Informed, Age
  <2> QED
    BY <2>1, <2>2 DEF AskIInv
<1> QED
  BY <1>1, <1>2, <1>3, <1>4, <1>5 DEF Next, Done

-----------------------------------------------------------------------------
(* A message counts for long enough.                                       *)
TwoRobots == NumRobots = 2 /\ Age + Ahead <= TTL

LEMMA Stages ==
  /\ Age \in Nat \ {0} /\ Chaos \in Nat /\ Informed \in Nat
  /\ Informed = Chaos + Age
  /\ NumRobots = 2 =>
       /\ Ahead \in Nat /\ Begun \in Nat /\ Closed \in Nat /\ Announced \in Nat
       /\ Begun = Informed + Age + Ahead
       /\ Closed = Begun + Age + 1
       /\ Announced = Closed + Age
       /\ \A r, s \in Robot : Skew[r] \in Nat /\ Skew[s] \in Nat /\ Skew[r] <= Skew[s] + Ahead
<1>1. Age \in Nat \ {0} /\ Chaos \in Nat /\ Informed \in Nat /\ Informed = Chaos + Age
  BY ElectionAssumption DEF Age, Informed
<1>2. ASSUME NumRobots = 2
      PROVE  Ahead \in Nat /\ \A r, s \in Robot : Skew[r] \in Nat /\ Skew[s] \in Nat /\ Skew[r] <= Skew[s] + Ahead
  <2>1. Robot = {0, 1}
    BY <1>2, RobotsAreNumbers
  <2>2. Skew[0] \in Nat /\ Skew[1] \in Nat
    BY <2>1, ElectionAssumption
  <2> QED
    BY <2>1, <2>2 DEF Ahead
<1> QED
  BY <1>1, <1>2 DEF Begun, Closed, Announced

(* What p has heard of the request of o.                                   *)
HeardRequest(p, o) == IF o \in Players THEN heard[p][o].request ELSE 0

(* Once everybody is heard p knows whether o plays and how far it is from the ball. *)
LEMMA InformedView ==
  ASSUME TwoRobots, AskIInv, now > Informed, NEW p \in Robot, NEW o \in Robot, p # o
  PROVE  /\ RequestOf(o, p, now + Skew[p]) = HeardRequest(p, o)
         /\ WalkOf(o, p, now + Skew[p]) = IF o \in Players THEN walk[o] ELSE NoBall
         /\ HeardRequest(p, o) \in Nat
<1>1. CASE o \in Players
  <2>1. /\ heard[p][o] \in Message /\ now + Skew[o] <= heard[p][o].sent + Age
        /\ heard[p][o].walk = walk[o] /\ heard[p][o].request \in Nat
    BY <1>1, HeardIsRecent DEF AskIInv, NewsIInv
  <2>2. heard[p][o].sent \in Nat /\ heard[p][o] # None
    BY <2>1 DEF Message, None
  <2>3. now \in Nat /\ Age \in Nat /\ Ahead \in Nat /\ TTL \in Nat /\ Skew[p] \in Nat /\ Skew[o] \in Nat
        /\ Skew[p] <= Skew[o] + Ahead /\ Age + Ahead <= TTL
    BY Stages, ClockTypes, ElectionAssumption DEF TwoRobots, AskIInv, NewsIInv, HearIInv
  <2>4. heard[p][o].sent + TTL >= now + Skew[p]
    BY <2>1, <2>2, <2>3
  <2>5. o \in Robots(p, now + Skew[p])
    BY <1>1, <2>2, <2>4 DEF Robots, Players
  <2> QED
    BY <1>1, <2>1, <2>5 DEF RequestOf, WalkOf, HeardRequest
<1>2. CASE o \notin Players
  BY <1>2 DEF RequestOf, WalkOf, HeardRequest, Robots, Players
<1> QED
  BY <1>1, <1>2

(* A request that is older than any message on its way is known.           *)
LEMMA HeardTells ==
  ASSUME AskIInv, now > Informed, NEW r \in Robot, NEW s \in Players, r # s,
         request[s] > 0, request[s] + Age <= now + Skew[s]
  PROVE  heard[r][s].request = request[s] /\ heard[r][s].sent >= request[s]
<1>1. s \in Robot
  BY DEF Players
<1>2. /\ heard[r][s] \in Told(s, r) /\ heard[r][s] \in Message
      /\ now + Skew[s] <= heard[r][s].sent + Age
  BY HeardIsRecent DEF AskIInv, NewsIInv
<1>3. heard[r][s].sent \in Nat /\ heard[r][s] # None
  BY <1>2 DEF Message, None
<1>4. heard[r][s].sent >= request[s]
  BY <1>1, <1>2, <1>3, ClockTypes DEF AskIInv, NewsIInv, HearIInv
<1> QED
  BY <1>1, <1>2, <1>3, <1>4 DEF AskIInv, NewsIInv, RequestIsTold

-----------------------------------------------------------------------------
(* The steps once everybody is heard: a round of p, a message that arrives, a tick. *)
RoundOf(p) ==
  LET outcome == DetermineStriker(p, now + Skew[p], walk[p])
  IN  /\ p \notin ran
      /\ ran' = ran \cup {p}
      /\ request' = [request EXCEPT ![p] = outcome.request]
      /\ striker' = [striker EXCEPT ![p] = outcome.striker]
      /\ UNCHANGED <<now, penalized, walk, heard>>

Listening ==
  /\ \A r \in Robot, s \in Players : r # s => heard'[r][s].sent >= heard[r][s].sent
  /\ UNCHANGED <<now, ran, penalized, walk, request, striker>>

Ticking ==
  /\ ran = Robot /\ ran' = {} /\ now' = now + 1
  /\ UNCHANGED <<penalized, walk, request, striker, heard>>

LEMMA HeardGrows ==
  ASSUME AskIInv, now > Informed, NEW m \in network, Receive(m)
  PROVE  Listening
<1>1. TypeOK /\ HearIInv
  BY DEF AskIInv, NewsIInv, HearIInv
<1>2. /\ heard' = IF IsOutdated(m.to, m) THEN heard ELSE [heard EXCEPT ![m.to][m.from] = m.data]
      /\ UNCHANGED <<now, ran, penalized, walk, request, striker>>
  BY DEF Receive
<1>3. ASSUME NEW r \in Robot, NEW s \in Players, r # s
      PROVE  heard'[r][s].sent >= heard[r][s].sent
  <2>1. s \in Robot /\ heard[r][s].sent > Noise(s) /\ heard[r][s].sent \in Nat
    BY <1>1, <1>3, HeardIsRecent, TimesAreNumbers DEF Players
  <2>2. heard'[r][s] = heard[r][s] \/ (m.from = s /\ m.to = r /\ heard'[r][s] = m.data)
    <3>1. heard \in [Robot -> [Robot -> Message \cup {None}]]
      BY <1>1 DEF TypeOK
    <3> QED
      BY <1>2, <2>1, <3>1
  <2>3. m.from = s /\ m.to = r => m.data.sent > heard[r][s].sent /\ m.data.sent \in Nat
    BY <1>1, <1>3, <2>1, TimesAreNumbers DEF HearIInv, InOrder, UnderWay
  <2> QED
    BY <2>1, <2>2, <2>3
<1> QED
  BY <1>2, <1>3 DEF Listening

LEMMA InformedSteps ==
  ASSUME AskIInv, now > Informed, [Next]_vars
  PROVE  (\E p \in Robot : RoundOf(p)) \/ Listening \/ Ticking
<1>1. TypeOK /\ Quiet
  BY Stages, ClockTypes, ElectionAssumption DEF AskIInv, NewsIInv, HearIInv, Quiet, TypeOK
<1>2. ASSUME NEW p \in Robot, NEW w \in Times \cup {NoBall}, NEW reached \in SUBSET Robot,
             Proceed(p, w, reached)
      PROVE  RoundOf(p)
  <2>1. w = walk[p] /\ walk' = [walk EXCEPT ![p] = w] /\ walk \in [Robot -> Times \cup {NoBall}]
    BY <1>1, <1>2 DEF Proceed, TypeOK
  <2>2. walk' = walk
    BY <2>1
  <2> QED
    BY <1>2, <2>1, <2>2 DEF Proceed, RoundOf
<1>3. ASSUME NEW m \in network, Receive(m) PROVE Listening
  BY <1>3, HeardGrows
<1>4. ~ \E r \in Robot : Referee(r)
  BY <1>1 DEF Referee
<1>5. Tick => Ticking
  BY DEF Tick, Ticking
<1>6. CASE UNCHANGED vars
  <2>1. \A r \in Robot, s \in Players : heard[r][s].sent \in Nat
    BY <1>1, TimesAreNumbers DEF Players
  <2> QED
    BY <1>6, <2>1 DEF vars, Listening
<1> QED
  BY <1>2, <1>3, <1>4, <1>5, <1>6 DEF Next, Done

LEMMA RoundOutcome ==
  ASSUME TwoRobots, AskIInv, now > Informed,
         NEW p \in Robot, NEW o \in Robot, p # o, RoundOf(p), NEW v, v = HeardRequest(p, o)
  PROVE  /\ v \in Nat /\ request[p] \in Nat /\ request[o] \in Nat
         /\ request'[o] = request[o] /\ striker'[o] = striker[o]
         /\ p \notin Players =>
              /\ request'[p] = 0
              /\ striker'[p] = IF v > 0 /\ walk[o] # NoBall THEN o ELSE Nobody
         /\ p \in Players /\ v > 0 /\ Beats(o, v, p, request[p]) =>
              /\ Faster(p, o) /\ now + Skew[p] > v => request'[p] = now + Skew[p]
              /\ ~Faster(p, o) /\ walk[o] # NoBall => request'[p] = 0 /\ striker'[p] = o
              /\ walk[p] = NoBall /\ walk[o] = NoBall => striker'[p] = Nobody
         /\ p \in Players /\ ~(v > 0 /\ Beats(o, v, p, request[p])) /\ request[p] > 0 =>
              /\ request'[p] = request[p]
              /\ striker'[p] = IF walk[p] # NoBall THEN p ELSE Nobody
         /\ p \in Players /\ ~(v > 0 /\ Beats(o, v, p, request[p])) /\ request[p] = 0 =>
              IF walk[p] # NoBall /\ (o \in Players /\ walk[o] # NoBall => walk[p] < walk[o] + Margin)
              THEN request'[p] = now + Skew[p] /\ striker'[p] = p
              ELSE request'[p] = 0 /\ striker'[p] = Nobody
<1> DEFINE t == now + Skew[p]
           out == DetermineStriker(p, t, walk[p])
           u == IF o \in Players THEN walk[o] ELSE NoBall
           x == request[p]
<1>1. TypeOK /\ NumRobots = 2
  BY DEF AskIInv, NewsIInv, HearIInv, TwoRobots
<1>2. /\ t \in Nat /\ t > 0 /\ x \in Nat /\ request[o] \in Nat
      /\ walk[p] \in Times \cup {NoBall}
  BY <1>1, ClockTypes DEF TypeOK
<1>3. v = RequestOf(o, p, t) /\ u = WalkOf(o, p, t) /\ v \in Nat
  BY InformedView
<1>4. /\ request'[p] = out.request /\ striker'[p] = out.striker
      /\ request'[o] = request[o] /\ striker'[o] = striker[o]
  <2>1. request \in [Robot -> Nat] /\ striker \in [Robot -> Robot \cup {Nobody}]
    BY <1>1 DEF TypeOK
  <2> QED
    BY <2>1 DEF RoundOf
<1>5. v > 0 => o \in Players
  BY DEF HeardRequest
<1>6. p \notin Players =>
        out = IF v > 0 /\ u # NoBall THEN [striker |-> o, request |-> 0]
                                    ELSE [striker |-> Nobody, request |-> 0]
  BY <1>1, <1>2, <1>3, PenalizedDecides DEF Players
<1>7. p \in Players =>
        /\ v > 0 /\ Beats(o, v, p, x) =>
             out = IF t > v /\ walk[p] # NoBall /\ (u = NoBall \/ u > walk[p] + Margin)
                   THEN [striker |-> p, request |-> t]
                   ELSE IF u # NoBall THEN [striker |-> o, request |-> 0]
                                      ELSE [striker |-> Nobody, request |-> x]
        /\ ~(v > 0 /\ Beats(o, v, p, x)) /\ x > 0 =>
             out = [striker |-> IF walk[p] # NoBall THEN p ELSE Nobody, request |-> x]
        /\ ~(v > 0 /\ Beats(o, v, p, x)) /\ x = 0 =>
             out = IF t > 0 /\ walk[p] # NoBall /\ (u = NoBall \/ walk[p] < u + Margin)
                   THEN [striker |-> p, request |-> t]
                   ELSE [striker |-> Nobody, request |-> 0]
  <2> HIDE DEF out, t, u, x
  <2>1. p \in Players => o \in Robot /\ p # o
    OBVIOUS
  <2> QED
    BY <1>1, <1>2, <1>3, PlayerDecides DEF out, x
<1> HIDE DEF out
<1>8. p \notin Players =>
        request'[p] = 0 /\ striker'[p] = IF v > 0 /\ walk[o] # NoBall THEN o ELSE Nobody
  BY <1>4, <1>5, <1>6
<1>9. ASSUME p \in Players, v > 0, Beats(o, v, p, x)
      PROVE  /\ Faster(p, o) /\ t > v => request'[p] = t
             /\ ~Faster(p, o) /\ walk[o] # NoBall => request'[p] = 0 /\ striker'[p] = o
             /\ walk[p] = NoBall /\ walk[o] = NoBall => striker'[p] = Nobody
  <2>1. u = walk[o]
    BY <1>5, <1>9
  <2>2. out = IF t > v /\ Faster(p, o)
              THEN [striker |-> p, request |-> t]
              ELSE IF walk[o] # NoBall THEN [striker |-> o, request |-> 0]
                                       ELSE [striker |-> Nobody, request |-> x]
    BY <1>7, <1>9, <2>1 DEF Faster
  <2>3. walk[p] = NoBall => ~Faster(p, o)
    BY DEF Faster
  <2> HIDE DEF t, u, x
  <2> QED
    BY <1>4, <2>2, <2>3
<1>10. ASSUME p \in Players, ~(v > 0 /\ Beats(o, v, p, x)), x > 0
       PROVE  request'[p] = x /\ striker'[p] = IF walk[p] # NoBall THEN p ELSE Nobody
  BY <1>4, <1>7, <1>10
<1>11. ASSUME p \in Players, ~(v > 0 /\ Beats(o, v, p, x)), x = 0
       PROVE  IF walk[p] # NoBall /\ (o \in Players /\ walk[o] # NoBall => walk[p] < walk[o] + Margin)
              THEN request'[p] = t /\ striker'[p] = p
              ELSE request'[p] = 0 /\ striker'[p] = Nobody
  <2>1. (u = NoBall \/ walk[p] < u + Margin) <=>
           (o \in Players /\ walk[o] # NoBall => walk[p] < walk[o] + Margin)
    OBVIOUS
  <2> HIDE DEF u
  <2> QED
    BY <1>2, <1>4, <1>7, <1>11, <2>1
<1> QED
  BY <1>2, <1>3, <1>4, <1>8, <1>9, <1>10, <1>11

-----------------------------------------------------------------------------
(* A settling request stays as it is, and the other robot that plays makes none. *)
LEMMA SettlingStays ==
  ASSUME TwoRobots, AskIInv, now > Informed, [Next]_vars, NEW w \in Robot, Settling(w)
  PROVE  Settling(w)' /\ request'[w] = request[w]
<1>1. TypeOK /\ HearIInv /\ NumRobots = 2
  BY DEF AskIInv, NewsIInv, HearIInv, TwoRobots
<1>2. PICK o \in Robot : o # w /\ \A r \in Robot : r = o \/ r = w
  BY <1>1, RobotsAreNumbers
<1>3. /\ w \in Candidates /\ w \in Players /\ walk[w] # NoBall /\ request[w] > 0
      /\ o \in Players =>
           /\ ~Beats(o, request[o], w, request[w])
           /\ ~Faster(o, w)
           /\ Weak(o, w) \/ request[o] > 0 \/ heard[o][w].sent >= request[w]
  BY <1>2 DEF Settling, Candidates, Players
<1>4. ASSUME UNCHANGED <<penalized, walk>>, request'[w] = request[w],
             o \in Players =>
               /\ ~Beats(o, request'[o], w, request[w])
               /\ Weak(o, w) \/ request'[o] > 0 \/ heard'[o][w].sent >= request[w]
      PROVE  Settling(w)' /\ request'[w] = request[w]
  <2>1. /\ Players' = Players /\ Candidates' = Candidates
        /\ \A r \in Robot : Beats(r, request[r], w, request[w])' = Beats(r, request'[r], w, request'[w])
        /\ \A r \in Robot : Faster(r, w)' = Faster(r, w) /\ Weak(r, w)' = Weak(r, w)
    BY <1>4 DEF Players, Candidates, Faster, Weak, Beats
  <2>2. Players \ {w} \subseteq {o}
    BY <1>2 DEF Players
  <2>3. ASSUME NEW r \in Players \ {w}
        PROVE  /\ ~Beats(r, request'[r], w, request'[w])
               /\ ~Faster(r, w)'
               /\ Weak(r, w)' \/ request'[r] > 0 \/ heard'[r][w].sent >= request'[w]
    <3>1. r = o /\ o \in Players
      BY <2>2
    <3> QED
      BY <2>1, <3>1, <1>2, <1>3, <1>4
  <2>4. w \in Candidates' /\ request'[w] > 0
    BY <2>1, <1>3, <1>4
  <2>5. \A r \in Players' \ {w} :
          /\ ~Beats(r, request'[r], w, request'[w])
          /\ ~Faster(r, w)'
          /\ Weak(r, w)' \/ request'[r] > 0 \/ heard'[r][w].sent >= request'[w]
    BY <2>1, <2>3
  <2>6. Settling(w)'
    BY <2>4, <2>5 DEF Settling
  <2> QED
    BY <2>6, <1>4
<1>5. ASSUME RoundOf(w)
      PROVE  request'[w] = request[w] /\ request'[o] = request[o]
  <2> DEFINE v == HeardRequest(w, o)
  <2>1. ~(v > 0 /\ Beats(o, v, w, request[w]))
    <3> SUFFICES ASSUME v > 0, Beats(o, v, w, request[w]) PROVE FALSE
      OBVIOUS
    <3>1. o \in Players /\ v = heard[w][o].request
      BY DEF HeardRequest
    <3>2. heard[w][o] \in Told(o, w) /\ heard[w][o].sent > Noise(o)
      BY <3>1, <1>1, <1>2, HeardIsRecent
    <3>3. v # request[o]
      <4> HIDE DEF v
      <4> QED
        BY <3>1, <1>3
    <3>4. Beats(w, request[w], o, v)
      BY <3>1, <3>2, <3>3, <1>2, <1>3 DEF AskIInv, StaleIsBeaten
    <3>5. v \in Nat /\ request[w] \in Nat /\ w \in Nat /\ o \in Nat
      BY <1>1, <1>2, <1>5, RoundOutcome, RobotsAreNumbers
    <3> HIDE DEF v
    <3> QED
      BY <3>4, <3>5 DEF Beats
  <2> QED
    BY <2>1, <1>2, <1>3, <1>5, RoundOutcome
<1>6. ASSUME RoundOf(o), o \in Players
      PROVE  /\ request'[w] = request[w]
             /\ ~Beats(o, request'[o], w, request[w])
             /\ Weak(o, w) \/ request'[o] > 0 \/ heard[o][w].sent >= request[w]
  <2> DEFINE v == HeardRequest(o, w)
  <2>1. /\ v \in Nat /\ request[o] \in Nat /\ request[w] \in Nat /\ w \in Nat /\ o \in Nat
        /\ request'[w] = request[w]
    BY <1>1, <1>2, <1>6, RoundOutcome, RobotsAreNumbers
  <2>2. v = heard[o][w].request /\ heard[o][w] \in Told(w, o) /\ heard[o][w].sent > Noise(w)
        /\ heard[o][w] # None
    <3>1. heard[o][w] \in Message
      BY <1>1, <1>2, <1>3, HeardIsRecent
    <3> QED
      BY <3>1, <1>1, <1>2, <1>3, HeardIsRecent DEF HeardRequest, Message, None
  <2>3. /\ v <= heard[o][w].sent /\ heard[o][w].sent \in Nat
        /\ heard[o][w].sent >= request[w] => v = request[w]
    BY <2>2, <1>1, <1>2, <1>3, TimesAreNumbers DEF AskIInv, NewsIInv, RequestIsTold
  <2>7. /\ v > 0 /\ Beats(w, v, o, request[o]) => request'[o] = 0
        /\ ~(v > 0 /\ Beats(w, v, o, request[o])) /\ request[o] > 0 => request'[o] = request[o]
        /\ /\ ~(v > 0 /\ Beats(w, v, o, request[o])) /\ request[o] = 0
           /\ ~(walk[o] # NoBall /\ walk[o] < walk[w] + Margin)
           => request'[o] = 0
    <3>1. ~Faster(o, w) /\ walk[w] # NoBall /\ w \in Players
      BY <1>3, <1>6
    <3> HIDE DEF v
    <3> QED
      BY <3>1, <1>2, <1>6, RoundOutcome DEF v
  <2> HIDE DEF v
  <2>4. CASE v > 0 /\ Beats(w, v, o, request[o])
    <3>1. request'[o] = 0
      BY <2>4, <2>7
    <3>2. request[o] > 0 => heard[o][w].sent >= request[w]
      <4> SUFFICES ASSUME request[o] > 0 PROVE v = request[w]
        BY <2>3
      <4>1. v # request[w] => Beats(o, request[o], w, v)
        BY <2>2, <2>4, <1>2, <1>3, <1>6 DEF AskIInv, StaleIsBeaten
      <4> QED
        BY <4>1, <2>1, <2>4 DEF Beats
    <3> QED
      BY <3>1, <3>2, <2>1, <1>3, <1>6 DEF Beats
  <2>5. CASE ~(v > 0 /\ Beats(w, v, o, request[o])) /\ request[o] > 0
    <3>1. request'[o] = request[o]
      BY <2>5, <2>7
    <3>2. ~Beats(o, request[o], w, request[w])
      BY <1>3, <1>6
    <3> QED
      BY <3>1, <3>2, <2>1, <2>5
  <2>6. CASE ~(v > 0 /\ Beats(w, v, o, request[o])) /\ request[o] = 0
    <3>1. v = 0
      BY <2>1, <2>6 DEF Beats
    <3>2. Weak(o, w)
      BY <3>1, <2>1, <2>3, <2>6, <1>3, <1>6
    <3>3. ~(walk[o] # NoBall /\ walk[o] < walk[w] + Margin)
      <4>1. walk[o] # NoBall => walk[o] \in Nat /\ walk[w] \in Nat
        BY <1>1, <1>3, ElectionAssumption DEF TypeOK
      <4> QED
        BY <3>2, <4>1, ElectionAssumption DEF Weak
    <3>4. request'[o] = 0
      BY <2>6, <2>7, <3>3
    <3> QED
      BY <3>2, <3>4, <2>1, <1>3 DEF Beats
  <2> QED
    BY <2>1, <2>4, <2>5, <2>6
<1>7. CASE \E p \in Robot : RoundOf(p)
  <2>1. PICK p \in Robot : RoundOf(p)
    BY <1>7
  <2>2. UNCHANGED <<penalized, walk, heard>>
    BY <2>1 DEF RoundOf
  <2>3. CASE p = w
    BY <2>1, <2>2, <2>3, <1>3, <1>4, <1>5
  <2>4. CASE p = o
    <3>1. request'[w] = request[w]
      BY <2>1, <2>4, <1>2, RoundOutcome
    <3> QED
      BY <2>1, <2>2, <2>4, <3>1, <1>4, <1>6
  <2> QED
    BY <2>3, <2>4, <1>2
<1>8. CASE Listening
  <2>1. o \in Players => heard'[o][w].sent >= heard[o][w].sent
    BY <1>2, <1>3, <1>8 DEF Listening
  <2>2. heard[o][w].sent \in Nat /\ heard'[o][w].sent \in Nat /\ request[w] \in Nat
    <3>1. heard'[o][w] \in Message \cup {None} /\ request[w] \in Nat
      BY <1>1, <1>2, NextTypes DEF TypeOK
    <3> QED
      BY <3>1, <1>1, <1>2, TimesAreNumbers DEF Message, None
  <2>3. UNCHANGED <<penalized, walk, request>>
    BY <1>8 DEF Listening
  <2>4. heard[o][w].sent >= request[w] /\ o \in Players => heard'[o][w].sent >= request[w]
    BY <2>1, <2>2
  <2> QED
    BY <2>3, <2>4, <1>3, <1>4
<1>9. CASE Ticking
  BY <1>3, <1>4, <1>9 DEF Ticking
<1> QED
  BY <1>7, <1>8, <1>9, InformedSteps

(* The winner of two requests is only one.                                 *)
LEMMA OnlyOneSettles ==
  ASSUME NumRobots = 2, TypeOK, NEW w \in Robot, NEW o \in Robot, Settling(w), Settling(o)
  PROVE  w = o
<1>1. SUFFICES ASSUME w # o PROVE FALSE
  OBVIOUS
<1>2. w \in Nat /\ o \in Nat /\ request[w] \in Nat /\ request[o] \in Nat
  BY RobotsAreNumbers DEF TypeOK
<1>3. ~Beats(w, request[w], o, request[o]) /\ ~Beats(o, request[o], w, request[w])
  BY <1>1 DEF Settling, Candidates, Players
<1> QED
  BY <1>1, <1>2, <1>3 DEF Beats

-----------------------------------------------------------------------------

LEMMA InformedSame ==
  ASSUME AskIInv, now > Informed, [Next]_vars
  PROVE  /\ UNCHANGED <<penalized, walk>>
         /\ Players' = Players /\ Candidates' = Candidates /\ Alike' = Alike
         /\ \A r, s : Faster(r, s)' = Faster(r, s) /\ Weak(r, s)' = Weak(r, s)
<1>1. UNCHANGED <<penalized, walk>>
  BY InformedSteps DEF RoundOf, Listening, Ticking
<1> QED
  BY <1>1 DEF Players, Candidates, Alike, Faster, Weak

(* Who comes to be after t has its round now, or has been before.          *)
LEMMA AfterStep ==
  ASSUME AskIInv, [Next]_vars, NEW t \in Nat, t >= Informed, NEW a \in Robot, After(t, a)'
  PROVE  /\ now > Informed
         /\ \/ RoundOf(a) /\ now > t
            \/ ~RoundOf(a) /\ After(t, a) /\ request'[a] = request[a] /\ striker'[a] = striker[a]
<1>1. now \in Nat /\ Informed \in Nat /\ TypeOK
  BY Stages, TimesAreNumbers DEF AskIInv, NewsIInv, HearIInv
<1>2. now' > t /\ (a \in ran' \/ now' > t + 1)
  BY DEF After
<1>3. now' = now \/ (now' = now + 1 /\ ran' = {})
  BY DEF Next, Proceed, Receive, Referee, Tick, Done, vars
<1>4. now > Informed
  BY <1>1, <1>2, <1>3
<1>5. ASSUME NEW p \in Robot, p # a, RoundOf(p)
      PROVE  After(t, a) /\ request'[a] = request[a] /\ striker'[a] = striker[a]
  <2>1. request \in [Robot -> Nat] /\ striker \in [Robot -> Robot \cup {Nobody}]
    BY <1>1 DEF TypeOK
  <2>2. request'[a] = request[a] /\ striker'[a] = striker[a]
    BY <1>5, <2>1 DEF RoundOf
  <2>3. now' = now /\ ran' = ran \cup {p}
    BY <1>5 DEF RoundOf
  <2> QED
    BY <1>2, <1>5, <2>2, <2>3 DEF After
<1>6. CASE RoundOf(a)
  <2>1. now' = now
    BY <1>6 DEF RoundOf
  <2> QED
    BY <1>2, <1>4, <1>6, <2>1
<1>7. CASE Listening
  <2>1. UNCHANGED <<now, ran, request, striker>>
    BY <1>7 DEF Listening
  <2> QED
    BY <1>2, <1>4, <1>6, <2>1 DEF After
<1>8. CASE Ticking
  <2>1. ran = Robot /\ now' = now + 1 /\ ran' = {} /\ UNCHANGED <<request, striker>>
    BY <1>8 DEF Ticking
  <2>2. now > t
    BY <1>1, <1>2, <2>1
  <2> QED
    BY <1>4, <1>6, <2>1, <2>2 DEF After
<1> QED
  BY <1>4, <1>5, <1>6, <1>7, <1>8, InformedSteps

LEMMA WeakIsNotFaster ==
  ASSUME TypeOK, NEW a \in Candidates, NEW b \in Robot
  PROVE  /\ a \in Robot /\ a \in Players /\ walk[a] # NoBall /\ walk[a] \in Nat
         /\ walk[b] # NoBall => walk[b] \in Nat
         /\ Weak(b, a) => ~Faster(b, a) /\ ~(walk[b] # NoBall /\ walk[b] < walk[a] + Margin)
         /\ Faster(a, b) => Weak(b, a) /\ (walk[b] # NoBall => walk[a] < walk[b] + Margin)
<1>1. a \in Robot /\ a \in Players /\ walk[a] # NoBall
  BY DEF Candidates, Players
<1>2. walk[a] \in Nat /\ (walk[b] # NoBall => walk[b] \in Nat)
  BY <1>1, ElectionAssumption DEF TypeOK
<1>3. Margin \in Nat \ {0}
  BY ElectionAssumption
<1> QED
  BY <1>1, <1>2, <1>3 DEF Weak, Faster

LEMMA OtherRobot ==
  ASSUME NumRobots = 2, NEW a \in Robot
  PROVE  \E o \in Robot : o # a /\ (\A r \in Robot : r = a \/ r = o) /\ a \in Nat /\ o \in Nat
BY RobotsAreNumbers

(* Once everybody is heard, two that play do not both give up.             *)
LEMMA OneKeeps ==
  ASSUME TwoRobots, AskIInv, now > Informed, Players = Robot, [Next]_vars,
         \E r \in Robot : request[r] > 0
  PROVE  \E r \in Robot : request'[r] > 0
<1>1. ASSUME NEW p \in Robot, RoundOf(p)
      PROVE  \E r \in Robot : request'[r] > 0
  <2>1. PICK o \in Robot : o # p /\ \A r \in Robot : r = p \/ r = o
    BY OtherRobot DEF TwoRobots
  <2>2. request'[o] = request[o]
    BY <1>1, <2>1, RoundOutcome
  <2>3. CASE request[o] > 0
    BY <2>2, <2>3
  <2>4. CASE ~(request[o] > 0)
    <3> DEFINE v == HeardRequest(p, o)
    <3>1. request[p] > 0
      BY <2>1, <2>4
    <3>2. v = heard[p][o].request
      BY DEF HeardRequest
    <3>3. ~(v > 0 /\ Beats(o, v, p, request[p]))
      BY <2>1, <2>4, <3>1, <3>2, OtherKeeps DEF TwoRobots
    <3>4. request'[p] = request[p]
      BY <1>1, <2>1, <3>1, <3>3, RoundOutcome
    <3> QED
      BY <3>1, <3>4
  <2> QED
    BY <2>3, <2>4
<1>2. Listening \/ Ticking => request' = request
  BY DEF Listening, Ticking
<1> QED
  BY <1>1, <1>2, InformedSteps

LEMMA WeakStays ==
  ASSUME TwoRobots, AskIInv, WeakIsOld, [Next]_vars
  PROVE  WeakIsOld'
<1> SUFFICES ASSUME now' > Informed, NEW a \in Candidates', NEW b \in Players', a # b, Weak(b, a)'
             PROVE  request'[b] <= Informed + Skew[b]
  BY DEF WeakIsOld, Informed, Age
<1>1. TypeOK /\ TypeOK' /\ AskIInv' /\ NumRobots = 2
  BY AskInductive, NextTypes DEF AskIInv, NewsIInv, HearIInv, TwoRobots
<1>2. b \in Robot /\ now \in Nat /\ Informed \in Nat /\ Skew[b] \in Nat /\ request'[b] \in Nat
  <2>1. b \in Robot
    BY DEF Players
  <2> QED
    BY <1>1, <2>1, Stages, TimesAreNumbers DEF TypeOK
<1>3. CASE ~(now > Informed)
  <2>1. now' = now \/ (now' = now + 1 /\ ran' = {})
    BY DEF Next, Proceed, Receive, Referee, Tick, Done, vars
  <2>2. now' = Informed + 1 /\ ran' = {}
    BY <1>2, <1>3, <2>1
  <2>3. request'[b] <= now' + Skew[b] - 1
    BY <1>1, <1>2, <2>2 DEF AskIInv, NewsIInv, PastOnly, LastClock
  <2> QED
    BY <1>2, <2>2, <2>3
<1>4. CASE now > Informed
  <2>1. a \in Candidates /\ b \in Players /\ Weak(b, a)
    BY <1>4, InformedSame
  <2>2. request[b] <= Informed + Skew[b]
    BY <1>4, <2>1 DEF WeakIsOld
  <2>3. /\ a \in Robot /\ a \in Players /\ walk[a] # NoBall
        /\ ~Faster(b, a) /\ ~(walk[b] # NoBall /\ walk[b] < walk[a] + Margin)
    BY <1>1, <1>2, <2>1, WeakIsNotFaster
  <2>4. CASE RoundOf(b)
    <3> DEFINE v == HeardRequest(b, a)
    <3>1. /\ v > 0 /\ Beats(a, v, b, request[b]) => request'[b] = 0
          /\ ~(v > 0 /\ Beats(a, v, b, request[b])) /\ request[b] > 0 => request'[b] = request[b]
          /\ ~(v > 0 /\ Beats(a, v, b, request[b])) /\ request[b] = 0 => request'[b] = 0
      BY <1>2, <1>4, <2>1, <2>3, <2>4, RoundOutcome
    <3>2. request[b] \in Nat
      BY <1>1, <1>2 DEF TypeOK
    <3> HIDE DEF v
    <3>3. request'[b] = 0 \/ request'[b] = request[b]
      BY <3>1, <3>2
    <3> QED
      BY <1>2, <2>2, <3>3
  <2>5. CASE \E p \in Robot : p # b /\ RoundOf(p)
    <3>1. request \in [Robot -> Nat]
      BY <1>1 DEF TypeOK
    <3>2. request'[b] = request[b]
      BY <1>2, <2>5, <3>1 DEF RoundOf
    <3> QED
      BY <2>2, <3>2
  <2>6. CASE Listening \/ Ticking
    BY <2>2, <2>6 DEF Listening, Ticking
  <2> QED
    BY <1>4, <2>4, <2>5, <2>6, InformedSteps
<1> QED
  BY <1>3, <1>4

LEMMA LonelyStays ==
  ASSUME TwoRobots, AskIInv, LonelyAsks, [Next]_vars
  PROVE  LonelyAsks'
<1> SUFFICES ASSUME NEW a \in Candidates', Players' = {a}, After(Informed, a)'
             PROVE  request'[a] > 0
  BY DEF LonelyAsks, Informed, Age
<1>1. a \in Robot /\ Informed \in Nat /\ NumRobots = 2
  BY Stages DEF Candidates, TwoRobots
<1>2. /\ now > Informed
      /\ \/ RoundOf(a)
         \/ After(Informed, a) /\ request'[a] = request[a]
  BY <1>1, AfterStep
<1>3. a \in Candidates /\ Players = {a} /\ walk[a] # NoBall
  BY <1>2, InformedSame DEF Candidates
<1>4. CASE RoundOf(a)
  <2>1. PICK o \in Robot : o # a
    BY <1>1, OtherRobot
  <2>2. HeardRequest(a, o) = 0 /\ o \notin Players /\ a \in Players
    BY <1>3, <2>1 DEF HeardRequest
  <2>3. /\ request[a] \in Nat
        /\ request[a] > 0 => request'[a] = request[a]
        /\ request[a] = 0 => request'[a] = now + Skew[a]
    BY <1>1, <1>2, <1>3, <1>4, <2>1, <2>2, RoundOutcome
  <2>4. now + Skew[a] > 0
    BY <1>1, ClockTypes DEF AskIInv, NewsIInv, HearIInv
  <2> QED
    BY <2>3, <2>4
<1>5. CASE After(Informed, a) /\ request'[a] = request[a]
  BY <1>3, <1>5 DEF LonelyAsks
<1> QED
  BY <1>2, <1>4, <1>5

(* The faster of two has the winning request after its round.              *)
LEMMA StrongRound ==
  ASSUME TwoRobots, AskIInv, WeakIsOld, now > Begun,
         NEW a \in Candidates, NEW b \in Players, a # b, Faster(a, b), RoundOf(a)
  PROVE  Settling(a)'
<1> DEFINE v == HeardRequest(a, b)
           t == now + Skew[a]
<1>1. TypeOK /\ HearIInv /\ NumRobots = 2
  BY DEF AskIInv, NewsIInv, HearIInv, TwoRobots
<1>2. b \in Robot /\ \A r \in Robot : r = a \/ r = b
  BY <1>1, RobotsAreNumbers DEF Players, Candidates
<1>3. /\ a \in Robot /\ a \in Players /\ walk[a] # NoBall
      /\ Weak(b, a) /\ ~Faster(b, a)
      /\ walk[b] # NoBall => walk[a] < walk[b] + Margin
  BY <1>1, <1>2, WeakIsNotFaster
<1>4. /\ now \in Nat /\ t \in Nat /\ t > 0 /\ request[a] \in Nat /\ request[b] \in Nat
      /\ LastClock(a) \in Nat /\ LastClock(a) < t
  BY <1>1, <1>2, <1>3, ClockTypes DEF RoundOf
<1>5. now > Informed /\ request[b] + Age <= now + Skew[b] /\ request[b] < t
  <2>1. now > Informed
    BY <1>1, <1>4, Stages
  <2>2. request[b] <= Informed + Skew[b]
    BY <1>3, <2>1 DEF WeakIsOld
  <2>3. /\ Informed \in Nat /\ Age \in Nat /\ Ahead \in Nat /\ Skew[a] \in Nat /\ Skew[b] \in Nat
        /\ Skew[b] <= Skew[a] + Ahead /\ now > Informed + Age + Ahead
    BY <1>1, <1>2, <1>3, Stages
  <2> QED
    BY <1>4, <2>1, <2>2, <2>3
<1>6. /\ request'[b] = request[b] /\ v \in Nat
      /\ v > 0 /\ Beats(b, v, a, request[a]) /\ t > v => request'[a] = t
      /\ ~(v > 0 /\ Beats(b, v, a, request[a])) /\ request[a] > 0 => request'[a] = request[a]
      /\ ~(v > 0 /\ Beats(b, v, a, request[a])) /\ request[a] = 0 => request'[a] = t
  BY <1>2, <1>3, <1>5, RoundOutcome
<1>7. v = heard[a][b].request /\ heard[a][b] \in Told(b, a) /\ heard[a][b].sent > Noise(b)
  BY <1>1, <1>2, <1>3, <1>5, HeardIsRecent DEF HeardRequest
<1>8. request[b] > 0 => v = request[b]
  BY <1>2, <1>3, <1>5, <1>7, HeardTells
<1> HIDE DEF v, t
<1>9. t > v
  <2>1. CASE v = 0
    BY <2>1, <1>4
  <2>2. CASE v > 0 /\ v = request[b]
    BY <2>2, <1>5
  <2>3. CASE v > 0 /\ v # request[b]
    <3>1. v <= LastClock(a)
      BY <2>3, <1>3, <1>7 DEF AskIInv, StaleIsBeaten
    <3> QED
      BY <3>1, <1>4, <1>6
  <2> QED
    BY <2>1, <2>2, <2>3, <1>6
<1>10. request'[a] \in Nat /\ request'[a] > 0 /\ ~Beats(b, request[b], a, request'[a])
  <2>1. CASE v > 0 /\ Beats(b, v, a, request[a])
    BY <2>1, <1>4, <1>5, <1>6, <1>9 DEF Beats
  <2>2. CASE ~(v > 0 /\ Beats(b, v, a, request[a])) /\ request[a] > 0
    <3>1. ~Beats(b, request[b], a, request[a])
      BY <2>2, <1>4, <1>6, <1>8 DEF Beats
    <3> QED
      BY <2>2, <3>1, <1>4, <1>6
  <2>3. CASE ~(v > 0 /\ Beats(b, v, a, request[a])) /\ request[a] = 0
    BY <2>3, <1>4, <1>5, <1>6 DEF Beats
  <2> QED
    BY <2>1, <2>2, <2>3, <1>4
<1>11. UNCHANGED <<penalized, walk>>
  BY DEF RoundOf
<1>12. /\ Players' = Players /\ Candidates' = Candidates
       /\ Faster(b, a)' = Faster(b, a) /\ Weak(b, a)' = Weak(b, a)
  BY <1>11 DEF Players, Candidates, Faster, Weak
<1>13. \A r \in Players' \ {a} : r = b
  BY <1>2, <1>12 DEF Players
<1>14. ~Beats(b, request'[b], a, request'[a]) /\ ~Faster(b, a)' /\ Weak(b, a)'
  BY <1>3, <1>6, <1>10, <1>12
<1> QED
  BY <1>10, <1>12, <1>13, <1>14 DEF Settling

LEMMA StrongStays ==
  ASSUME TwoRobots, AskIInv, WeakIsOld, StrongAsks, [Next]_vars
  PROVE  StrongAsks'
<1> SUFFICES ASSUME NEW a \in Candidates', NEW b \in Players', a # b, Faster(a, b)', After(Begun, a)'
             PROVE  Settling(a)'
  BY DEF StrongAsks, Begun, Informed, Age, Ahead
<1>1. a \in Robot /\ Begun \in Nat /\ Begun >= Informed
  BY Stages DEF Candidates, TwoRobots
<1>2. /\ now > Informed
      /\ \/ RoundOf(a) /\ now > Begun
         \/ After(Begun, a)
  BY <1>1, AfterStep
<1>3. a \in Candidates /\ b \in Players /\ Faster(a, b)
  BY <1>2, InformedSame
<1>4. After(Begun, a) => Settling(a)
  BY <1>3 DEF StrongAsks
<1> QED
  BY <1>1, <1>2, <1>3, <1>4, StrongRound, SettlingStays

(* Of two that are about as fast one has a request after the round of the better one. *)
LEMMA SomebodyStays ==
  ASSUME TwoRobots, AskIInv, SomebodyAsks, [Next]_vars
  PROVE  SomebodyAsks'
<1> SUFFICES ASSUME Alike', NEW a \in Robot, NEW b \in Robot, a # b, walk'[a] <= walk'[b], After(Begun, a)'
             PROVE  request'[a] > 0 \/ request'[b] > 0
  BY DEF SomebodyAsks, Begun, Informed, Age, Ahead
<1>1. /\ Begun \in Nat /\ Begun >= Informed /\ Informed \in Nat /\ Age \in Nat
      /\ NumRobots = 2 /\ TypeOK /\ HearIInv
  BY Stages DEF TwoRobots, AskIInv, NewsIInv, HearIInv
<1>2. /\ now > Informed
      /\ \/ RoundOf(a) /\ now > Begun
         \/ After(Begun, a)
  BY <1>1, AfterStep
<1>3. Alike /\ walk' = walk /\ Players = Robot /\ Candidates = Robot
  BY <1>2, InformedSame DEF Alike
<1>4. \A r \in Robot : r = a \/ r = b
  BY <1>1, RobotsAreNumbers
<1>5. CASE request[a] > 0 \/ request[b] > 0
  <2>1. \E r \in Robot : request'[r] > 0
    BY <1>2, <1>3, <1>5, OneKeeps
  <2> QED
    BY <1>4, <2>1
<1>6. CASE ~(request[a] > 0 \/ request[b] > 0)
  <2> DEFINE v == HeardRequest(a, b)
  <2>1. RoundOf(a) /\ now > Begun
    BY <1>2, <1>3, <1>6 DEF SomebodyAsks
  <2>2. request[a] = 0 /\ request[b] = 0
    BY <1>1, <1>6 DEF TypeOK
  <2>3. penalized = {} /\ b \in Players /\ a \in Players
    BY <1>1, <1>3 DEF Players, TypeOK
  <2>4. /\ heard[a][b] \in Told(b, a) /\ heard[a][b].sent > Informed + Skew[b]
    <3>1. heard[a][b] \in Told(b, a) /\ now + Skew[b] <= heard[a][b].sent + Age
      BY <1>1, <1>2, <2>3, HeardIsRecent
    <3>2. now \in Nat /\ Skew[b] \in Nat /\ Ahead \in Nat /\ heard[a][b].sent \in Nat
          /\ now > Informed + Age + Ahead
      BY <1>1, <2>1, Stages, TimesAreNumbers
    <3> QED
      BY <1>1, <3>1, <3>2
  <2>5. v = 0
    <3>1. \A s \in Robot : request[s] = 0
      BY <1>4, <2>2
    <3>2. heard[a][b].request = 0
      BY <1>2, <2>3, <2>4, <3>1 DEF AskIInv, SilentSinceInformed
    <3> QED
      BY <3>2 DEF HeardRequest
  <2>6. walk[a] # NoBall /\ walk[b] # NoBall /\ walk[a] < walk[b] + Margin
    <3>1. walk[a] # NoBall /\ walk[b] # NoBall
      BY <1>3 DEF Candidates
    <3>2. walk[a] \in Nat /\ walk[b] \in Nat
      BY <1>1, <3>1, ElectionAssumption DEF TypeOK
    <3> QED
      BY <1>3, <3>1, <3>2, ElectionAssumption
  <2>7. request'[a] = now + Skew[a]
    BY <1>2, <2>1, <2>2, <2>3, <2>5, <2>6, RoundOutcome
  <2> QED
    BY <1>1, <2>7, ClockTypes
<1> QED
  BY <1>5, <1>6

(* The one who gives up its request knows of the one that wins.            *)
LEMMA FollowRound ==
  ASSUME TwoRobots, AskIInv, now > Informed, Alike, NEW h \in Robot, request[h] > 0, RoundOf(h)
  PROVE  request'[h] = request[h] \/ \E w \in Robot : Settling(w)'
<1>1. TypeOK /\ HearIInv /\ NumRobots = 2
  BY DEF AskIInv, NewsIInv, HearIInv, TwoRobots
<1>2. PICK o \in Robot : o # h /\ (\A r \in Robot : r = h \/ r = o) /\ h \in Nat /\ o \in Nat
  BY <1>1, OtherRobot
<1> DEFINE v == HeardRequest(h, o)
<1>3. /\ Players = Robot /\ Candidates = Robot /\ walk[o] # NoBall /\ ~Faster(h, o)
  BY DEF Alike, Candidates
<1>4. /\ request'[o] = request[o] /\ v \in Nat /\ request[o] \in Nat
      /\ v > 0 /\ Beats(o, v, h, request[h]) => request'[h] = 0
      /\ ~(v > 0 /\ Beats(o, v, h, request[h])) => request'[h] = request[h]
  BY <1>2, <1>3, RoundOutcome
<1>5. /\ v = heard[h][o].request /\ heard[h][o] \in Told(o, h) /\ heard[h][o] # None
  <2>1. heard[h][o] \in Message /\ heard[h][o] \in Told(o, h)
    BY <1>1, <1>2, <1>3, HeardIsRecent
  <2> QED
    BY <1>3, <2>1 DEF HeardRequest, Message, None
<1>6. CASE ~(v > 0 /\ Beats(o, v, h, request[h]))
  BY <1>4, <1>6
<1>7. CASE v > 0 /\ Beats(o, v, h, request[h])
  <2>1. request[o] > 0 /\ v = request[o]
    BY <1>1, <1>2, <1>3, <1>5, <1>7, OtherKeeps
  <2>2. v <= heard[h][o].sent /\ heard[h][o].sent \in Nat
    BY <1>1, <1>2, <1>5, TimesAreNumbers DEF AskIInv, NewsIInv, RequestIsTold
  <2>3. UNCHANGED <<penalized, walk, heard>>
    BY DEF RoundOf
  <2>4. Players' = Robot /\ Candidates' = Robot /\ Faster(h, o)' = Faster(h, o)
    BY <1>3, <2>3 DEF Players, Candidates, Faster
  <2> HIDE DEF v
  <2>5. request'[h] = 0 /\ request'[o] = request[o]
    BY <1>4, <1>7
  <2>6. ~Beats(h, request'[h], o, request'[o])
    BY <1>4, <2>1, <2>5 DEF Beats
  <2>7. heard'[h][o].sent >= request'[o]
    BY <1>4, <2>1, <2>2, <2>3, <2>5
  <2>8. \A r \in Players' \ {o} : r = h
    BY <1>2, <2>4
  <2>9. Settling(o)'
    BY <1>2, <1>3, <2>1, <2>4, <2>5, <2>6, <2>7, <2>8 DEF Settling
  <2> QED
    BY <1>2, <2>9
<1> QED
  BY <1>6, <1>7

LEMMA FollowStays ==
  ASSUME TwoRobots, AskIInv, SomebodyAsks, OneMayFollow, [Next]_vars
  PROVE  OneMayFollow'
<1> SUFFICES ASSUME Alike', now' > Begun + 1
             PROVE  \/ \E w \in Robot : Settling(w)'
                    \/ \E h \in Robot : request'[h] > 0 /\ request'[h] <= Begun + 1 + Skew[h]
  BY DEF OneMayFollow, Begun, Informed, Age, Ahead
<1>1. /\ Begun \in Nat /\ Begun >= Informed /\ Informed \in Nat /\ now \in Nat
      /\ NumRobots = 2 /\ TypeOK /\ HearIInv
  BY Stages, TimesAreNumbers DEF TwoRobots, AskIInv, NewsIInv, HearIInv
<1>2. now' = now \/ (now' = now + 1 /\ Tick)
  BY DEF Next, Proceed, Receive, Referee, Tick, Done, vars
<1>3. now > Informed
  BY <1>1, <1>2
<1>4. Alike /\ Players = Robot /\ Candidates = Robot
  BY <1>3, InformedSame DEF Alike
<1>5. CASE ~(now > Begun + 1)
  <2>1. now = Begun + 1 /\ ran = Robot /\ request' = request
    BY <1>1, <1>2, <1>5 DEF Tick
  <2>2. \A r \in Robot : walk[r] \in Nat
    BY <1>1, <1>4, ElectionAssumption DEF Candidates, TypeOK
  <2>3. PICK a \in Robot, b \in Robot : a # b /\ walk[a] <= walk[b]
    BY <1>1, <2>2, RobotsAreNumbers
  <2>4. After(Begun, a)
    BY <1>1, <2>1 DEF After
  <2>5. PICK h \in Robot : request[h] > 0
    BY <1>4, <2>3, <2>4 DEF SomebodyAsks
  <2>6. request[h] <= Begun + 1 + Skew[h]
    BY <2>1 DEF AskIInv, NewsIInv, PastOnly, LastClock
  <2> QED
    BY <2>1, <2>5, <2>6
<1>6. CASE now > Begun + 1
  <2>1. CASE \E w \in Robot : Settling(w)
    BY <1>3, <2>1, SettlingStays
  <2>2. CASE \E h \in Robot : request[h] > 0 /\ request[h] <= Begun + 1 + Skew[h]
    <3>1. PICK h \in Robot : request[h] > 0 /\ request[h] <= Begun + 1 + Skew[h]
      BY <2>2
    <3>2. request'[h] = request[h] \/ RoundOf(h)
      <4>1. request \in [Robot -> Nat]
        BY <1>1 DEF TypeOK
      <4>2. ASSUME NEW p \in Robot, p # h, RoundOf(p) PROVE request'[h] = request[h]
        BY <4>1, <4>2 DEF RoundOf
      <4>3. Listening \/ Ticking => request' = request
        BY DEF Listening, Ticking
      <4> QED
        BY <1>3, <4>2, <4>3, InformedSteps
    <3> QED
      BY <1>3, <1>4, <3>1, <3>2, FollowRound
  <2> QED
    BY <1>4, <1>6, <2>1, <2>2 DEF OneMayFollow
<1> QED
  BY <1>5, <1>6

(* When the last request has been heard of one of them has won.            *)
LEMMA ChosenAtClose ==
  ASSUME TwoRobots, AskIInv, LonelyAsks, StrongAsks, OneMayFollow, now > Begun + Age, ran = Robot,
         Candidates # {}
  PROVE  \E w \in Robot : Settling(w)
<1>1. /\ TypeOK /\ HearIInv /\ NumRobots = 2 /\ now \in Nat
      /\ Begun \in Nat /\ Begun >= Informed /\ Informed \in Nat /\ Age \in Nat \ {0}
  BY Stages, TimesAreNumbers DEF TwoRobots, AskIInv, NewsIInv, HearIInv
<1>2. PICK a \in Robot : a \in Candidates
  BY DEF Candidates
<1>3. PICK b \in Robot : b # a /\ (\A r \in Robot : r = a \/ r = b)
  BY <1>1, OtherRobot
<1>4. now > Informed /\ now > Begun + 1 /\ \A r \in Robot : After(Informed, r) /\ After(Begun, r)
  BY <1>1 DEF After
<1>5. a \in Players
  BY <1>2 DEF Candidates, Players
<1>6. CASE b \notin Players
  <2>1. Players = {a}
    BY <1>3, <1>5, <1>6 DEF Players
  <2>2. request[a] > 0
    BY <1>2, <1>4, <2>1 DEF LonelyAsks
  <2> QED
    BY <1>2, <2>1, <2>2 DEF Settling
<1>7. CASE b \in Players /\ Faster(a, b)
  BY <1>2, <1>3, <1>4, <1>7 DEF StrongAsks
<1>8. CASE b \in Candidates /\ Faster(b, a)
  BY <1>2, <1>3, <1>4, <1>5, <1>8 DEF StrongAsks
<1>9. CASE b \in Players /\ ~Faster(a, b) /\ ~(b \in Candidates /\ Faster(b, a))
  <2>1. walk[a] # NoBall
    BY <1>2 DEF Candidates
  <2>2. walk[b] # NoBall /\ b \in Candidates
    BY <1>9, <2>1 DEF Faster, Candidates, Players
  <2>3. ~Faster(a, a) /\ ~Faster(b, b)
    <3>1. walk[a] \in Nat /\ walk[b] \in Nat /\ Margin \in Nat
      BY <1>1, <2>1, <2>2, ElectionAssumption DEF TypeOK
    <3> QED
      BY <2>1, <2>2, <3>1 DEF Faster
  <2>4. Alike
    <3>1. Players = Robot /\ Candidates = Robot
      BY <1>2, <1>3, <1>5, <1>9, <2>2 DEF Players, Candidates
    <3> QED
      BY <1>3, <1>9, <2>2, <2>3, <3>1 DEF Alike
  <2>5. CASE \E h \in Robot : request[h] > 0 /\ request[h] <= Begun + 1 + Skew[h]
    <3>1. PICK h \in Robot : request[h] > 0 /\ request[h] <= Begun + 1 + Skew[h]
      BY <2>5
    <3>2. PICK o \in Robot : o # h /\ (\A r \in Robot : r = h \/ r = o) /\ h \in Nat /\ o \in Nat
      BY <1>1, OtherRobot
    <3>3. Players = Robot /\ Candidates = Robot /\ ~Faster(o, h) /\ ~Faster(h, o)
      BY <2>4 DEF Alike
    <3>4. heard[o][h].sent >= request[h]
      <4>1. Skew[h] \in Nat /\ request[h] \in Nat
        BY <1>1, Stages DEF TypeOK
      <4>2. request[h] + Age <= now + Skew[h]
        BY <1>1, <3>1, <4>1
      <4> QED
        BY <1>4, <3>1, <3>2, <3>3, <4>2, HeardTells
    <3>5. request[h] \in Nat /\ request[o] \in Nat
      BY <1>1 DEF TypeOK
    <3>6. CASE ~Beats(o, request[o], h, request[h])
      BY <3>1, <3>2, <3>3, <3>4, <3>6 DEF Settling
    <3>7. CASE Beats(o, request[o], h, request[h])
      <4>1. request[o] > 0 /\ ~Beats(h, request[h], o, request[o])
        BY <3>1, <3>2, <3>5, <3>7 DEF Beats
      <4> QED
        BY <3>1, <3>2, <3>3, <4>1 DEF Settling
    <3> QED
      BY <3>6, <3>7
  <2> QED
    BY <1>4, <2>4, <2>5 DEF OneMayFollow
<1> QED
  BY <1>6, <1>7, <1>8, <1>9

LEMMA ChosenStays ==
  ASSUME TwoRobots, AskIInv, LonelyAsks, StrongAsks, OneMayFollow, ChosenInTime, [Next]_vars
  PROVE  ChosenInTime'
<1> SUFFICES ASSUME now' > Closed, Candidates' # {}
             PROVE  \E w \in Robot : Settling(w)' /\ request'[w] <= Closed + Skew[w]
  BY DEF ChosenInTime, Closed, Begun, Informed, Age, Ahead
<1>1. /\ Begun \in Nat /\ Informed \in Nat /\ Age \in Nat \ {0} /\ Closed \in Nat /\ now \in Nat
      /\ Closed = Begun + Age + 1 /\ Begun >= Informed
  BY Stages, TimesAreNumbers DEF TwoRobots, AskIInv, NewsIInv, HearIInv
<1>2. now' = now \/ (now' = now + 1 /\ ran = Robot)
  BY DEF Next, Proceed, Receive, Referee, Tick, Done, vars
<1>3. now > Informed
  BY <1>1, <1>2
<1>4. Candidates # {}
  BY <1>3, InformedSame
<1>5. \E w \in Robot : Settling(w) /\ request[w] <= Closed + Skew[w]
  <2>1. CASE now > Closed
    BY <1>4, <2>1 DEF ChosenInTime
  <2>2. CASE ~(now > Closed)
    <3>1. now = Closed /\ ran = Robot
      BY <1>1, <1>2, <2>2
    <3>2. PICK w \in Robot : Settling(w)
      BY <1>1, <1>4, <3>1, ChosenAtClose
    <3>3. request[w] <= Closed + Skew[w]
      BY <3>1 DEF AskIInv, NewsIInv, PastOnly, LastClock
    <3> QED
      BY <3>2, <3>3
  <2> QED
    BY <2>1, <2>2
<1> QED
  BY <1>3, <1>5, SettlingStays

(* Who is informed of the winner names it.                                 *)
LEMMA RoundNames ==
  ASSUME TwoRobots, AskIInv, ChosenInTime, now > Announced, NEW p \in Robot, RoundOf(p)
  PROVE  \/ Candidates = {} /\ striker'[p] = Nobody
         \/ \E w \in Robot : Settling(w) /\ striker'[p] = w
<1>1. /\ TypeOK /\ HearIInv /\ NumRobots = 2 /\ now \in Nat
      /\ Informed \in Nat /\ Age \in Nat /\ Closed \in Nat /\ Announced = Closed + Age /\ Closed >= Informed
      /\ \A r \in Robot : Skew[r] \in Nat /\ request[r] \in Nat
  BY Stages, TimesAreNumbers DEF TwoRobots, AskIInv, NewsIInv, HearIInv, TypeOK
<1>2. now > Informed /\ now > Closed
  BY <1>1
<1>3. PICK o \in Robot : o # p /\ (\A r \in Robot : r = p \/ r = o) /\ p \in Nat /\ o \in Nat
  BY <1>1, OtherRobot
<1> DEFINE v == HeardRequest(p, o)
<1>4. /\ v \in Nat
      /\ p \notin Players => striker'[p] = IF v > 0 /\ walk[o] # NoBall THEN o ELSE Nobody
      /\ p \in Players /\ v > 0 /\ Beats(o, v, p, request[p]) =>
           /\ ~Faster(p, o) /\ walk[o] # NoBall => striker'[p] = o
           /\ walk[p] = NoBall /\ walk[o] = NoBall => striker'[p] = Nobody
      /\ p \in Players /\ ~(v > 0 /\ Beats(o, v, p, request[p])) /\ request[p] > 0 =>
           striker'[p] = IF walk[p] # NoBall THEN p ELSE Nobody
      /\ p \in Players /\ ~(v > 0 /\ Beats(o, v, p, request[p])) /\ request[p] = 0 /\ walk[p] = NoBall =>
           striker'[p] = Nobody
  BY <1>2, <1>3, RoundOutcome
<1>5. v > 0 => o \in Players
  BY DEF HeardRequest
<1>6. CASE Candidates = {}
  <2>1. /\ p \in Players => walk[p] = NoBall
        /\ o \in Players => walk[o] = NoBall
    BY <1>3, <1>6 DEF Candidates, Players
  <2>2. striker'[p] = Nobody
    <3> HIDE DEF v
    <3>1. CASE p \notin Players
      BY <3>1, <2>1, <1>4, <1>5
    <3>2. CASE p \in Players /\ v > 0 /\ Beats(o, v, p, request[p])
      BY <3>2, <2>1, <1>4, <1>5
    <3>3. CASE p \in Players /\ ~(v > 0 /\ Beats(o, v, p, request[p]))
      <4>1. request[p] > 0 \/ request[p] = 0
        BY <1>1
      <4> QED
        BY <3>3, <4>1, <2>1, <1>4
    <3> QED
      BY <3>1, <3>2, <3>3
  <2> QED
    BY <1>6, <2>2
<1>7. CASE \E w \in Robot : Settling(w) /\ request[w] <= Closed + Skew[w]
  <2>1. PICK w \in Robot : Settling(w) /\ request[w] <= Closed + Skew[w]
    BY <1>7
  <2>2. w \in Candidates /\ w \in Players /\ walk[w] # NoBall /\ request[w] > 0
    BY <2>1 DEF Settling, Candidates, Players
  <2>3. CASE w = p
    <3>1. ~(v > 0 /\ Beats(o, v, p, request[p]))
      <4> SUFFICES ASSUME v > 0, Beats(o, v, p, request[p]) PROVE FALSE
        OBVIOUS
      <4>1. o \in Players /\ v = heard[p][o].request /\ heard[p][o] \in Told(o, p)
            /\ heard[p][o].sent > Noise(o)
        BY <1>1, <1>2, <1>3, <1>5, HeardIsRecent DEF HeardRequest
      <4>2. ~Beats(o, request[o], p, request[p])
        BY <1>3, <2>1, <2>3, <4>1 DEF Settling
      <4> HIDE DEF v
      <4>3. v # request[o]
        BY <4>2
      <4>4. Beats(p, request[p], o, v)
        BY <1>3, <2>2, <2>3, <4>1, <4>3 DEF AskIInv, StaleIsBeaten
      <4> QED
        BY <1>1, <1>3, <1>4, <4>4 DEF Beats
    <3> HIDE DEF v
    <3> QED
      BY <1>4, <2>1, <2>2, <2>3, <3>1
  <2>4. CASE w = o
    <3>1. v = request[o]
      <4>1. request[o] + Age <= now + Skew[o]
        BY <1>1, <2>1, <2>4
      <4> QED
        BY <1>2, <1>3, <2>2, <2>4, <4>1, HeardTells DEF HeardRequest
    <3> HIDE DEF v
    <3>2. CASE p \notin Players
      BY <3>1, <3>2, <1>4, <2>1, <2>2, <2>4
    <3>3. CASE p \in Players
      <4>1. ~Beats(p, request[p], o, request[o]) /\ ~Faster(p, o)
        BY <3>3, <1>3, <2>1, <2>4 DEF Settling
      <4>2. Beats(o, v, p, request[p])
        BY <4>1, <3>1, <1>1, <1>3 DEF Beats
      <4> QED
        BY <3>1, <3>3, <4>1, <4>2, <1>4, <2>1, <2>2, <2>4
    <3> QED
      BY <3>2, <3>3
  <2> QED
    BY <1>3, <2>3, <2>4
<1> QED
  BY <1>2, <1>6, <1>7 DEF ChosenInTime

LEMMA NamedStays ==
  ASSUME TwoRobots, AskIInv, ChosenInTime, NamedInTime, [Next]_vars
  PROVE  NamedInTime'
<1> SUFFICES ASSUME NEW r \in Robot, After(Announced, r)'
             PROVE  \/ Candidates' = {} /\ striker'[r] = Nobody
                    \/ \E w \in Robot : Settling(w)' /\ striker'[r] = w
  BY DEF NamedInTime, Announced, Closed, Begun, Informed, Age, Ahead
<1>1. Announced \in Nat /\ Announced >= Informed
  BY Stages DEF TwoRobots
<1>2. /\ now > Informed
      /\ \/ RoundOf(r) /\ now > Announced
         \/ After(Announced, r) /\ striker'[r] = striker[r]
  BY <1>1, AfterStep
<1>3. \/ Candidates = {} /\ striker'[r] = Nobody
      \/ \E w \in Robot : Settling(w) /\ striker'[r] = w
  BY <1>2, RoundNames DEF NamedInTime
<1>4. Candidates' = Candidates
  BY <1>2, InformedSame
<1> QED
  BY <1>2, <1>3, <1>4, SettlingStays

LEMMA InitAgrees == NumRobots = 2 /\ Init => AgreeIInv
<1> SUFFICES ASSUME NumRobots = 2, Init PROVE AgreeIInv
  OBVIOUS
<1>1. AskIInv
  BY InitAsks
<1>2. /\ now \in Nat /\ Informed \in Nat /\ Begun \in Nat /\ Closed \in Nat /\ Announced \in Nat
      /\ ~(now > Informed) /\ ~(now > Begun + 1) /\ ~(now > Closed)
      /\ \A r \in Robot, t \in {Informed, Begun, Announced} : ~After(t, r)
  <2>1. now = SendPause + 1 /\ SendPause \in Nat /\ Chaos >= SendPause
    BY ElectionAssumption DEF Init
  <2>2. /\ Informed \in Nat /\ Begun \in Nat /\ Closed \in Nat /\ Announced \in Nat
        /\ Chaos \in Nat /\ Informed >= Chaos + 1 /\ Begun >= Informed /\ Closed >= Begun /\ Announced >= Closed
    BY Stages
  <2> QED
    BY <2>1, <2>2 DEF After
<1>3. \A r \in Candidates : r \in Robot
  BY DEF Candidates
<1>4. WeakIsOld /\ LonelyAsks /\ StrongAsks /\ SomebodyAsks
  BY <1>2, <1>3 DEF WeakIsOld, LonelyAsks, StrongAsks, SomebodyAsks
<1>5. OneMayFollow /\ ChosenInTime /\ NamedInTime
  BY <1>2 DEF OneMayFollow, ChosenInTime, NamedInTime
<1> QED
  BY <1>1, <1>4, <1>5 DEF AgreeIInv

LEMMA AgreeInductive == TwoRobots /\ AgreeIInv /\ [Next]_vars => AgreeIInv'
<1> SUFFICES ASSUME TwoRobots, AgreeIInv, [Next]_vars PROVE AgreeIInv'
  OBVIOUS
<1> USE DEF AgreeIInv
<1>1. AskIInv'
  BY AskInductive DEF TwoRobots
<1>2. WeakIsOld' /\ LonelyAsks' /\ StrongAsks'
  BY WeakStays, LonelyStays, StrongStays
<1>3. SomebodyAsks' /\ OneMayFollow'
  BY SomebodyStays, FollowStays
<1>4. ChosenInTime' /\ NamedInTime'
  BY ChosenStays, NamedStays
<1> QED
  BY <1>1, <1>2, <1>3, <1>4

-----------------------------------------------------------------------------
(* A settled team has had the time to name the winner.                     *)
LEMMA SettledNames ==
  ASSUME TwoRobots, 4 * Age + Ahead + 2 <= Settle, AgreeIInv, Settled
  PROVE  /\ now > Informed
         /\ \/ Candidates = {} /\ \A r \in Robot : striker[r] = Nobody
            \/ \E w \in Robot : Settling(w) /\ \A r \in Robot : striker[r] = w
<1>1. /\ TypeOK /\ AskIInv /\ NumRobots = 2 /\ now \in Nat
      /\ Age \in Nat /\ Ahead \in Nat /\ Chaos \in Nat /\ Settle \in Nat
      /\ Informed = Chaos + Age /\ Announced = Chaos + 4 * Age + Ahead + 1
  BY Stages, TimesAreNumbers, ElectionAssumption DEF TwoRobots, AgreeIInv, AskIInv, NewsIInv, HearIInv
<1>2. now > Informed /\ \A r \in Robot : After(Announced, r)
  BY <1>1 DEF Settled, After
<1>3. \A r \in Robot :
        \/ Candidates = {} /\ striker[r] = Nobody
        \/ \E w \in Robot : Settling(w) /\ striker[r] = w
  BY <1>2 DEF AgreeIInv, NamedInTime
<1>4. CASE Candidates = {}
  <2>1. \A w \in Robot : ~Settling(w)
    BY <1>4 DEF Settling
  <2> QED
    BY <1>2, <1>3, <1>4, <2>1
<1>5. CASE Candidates # {}
  <2>1. 0 \in Robot
    BY <1>1, RobotsAreNumbers
  <2>2. PICK w \in Robot : Settling(w)
    BY <1>3, <1>5, <2>1
  <2>3. \A o \in Robot : Settling(o) => o = w
    BY <1>1, <2>2, OnlyOneSettles
  <2> QED
    BY <1>2, <1>3, <1>5, <2>2, <2>3
<1> QED
  BY <1>4, <1>5

(***************************************************************************)
(* Two robots whose messages count long enough name the same striker, a    *)
(* robot in the game that sees the ball, from some time after the chaos    *)
(* on: determineStriker (robocup_strategy.cpp) on what TeamComManager has  *)
(* heard.  The time is four times the age that a message reaches, and the  *)
(* difference of the clocks: to hear of everybody, to ask, to hear of that *)
(* request and give up another one, and to hear of the result.             *)
(***************************************************************************)
THEOREM TwoRobotsAgree ==
  ASSUME NumRobots = 2, Age + Ahead <= TTL, 4 * Age + Ahead + 2 <= Settle
  PROVE  Spec => []TeamAgrees
<1>1. AgreeIInv /\ [Next]_vars => AgreeIInv'
  BY AgreeInductive DEF TwoRobots
<1>2. AgreeIInv => TeamAgrees
  <2> SUFFICES ASSUME AgreeIInv, Settled
               PROVE  \E s \in Candidates \cup {Nobody} :
                        (s = Nobody => Candidates = {}) /\ \A r \in Robot : striker[r] = s
    BY DEF TeamAgrees
  <2>1. \A w \in Robot : Settling(w) => w \in Candidates /\ w # Nobody
    BY RobotsAreNumbers DEF Settling
  <2> QED
    BY <2>1, SettledNames DEF TwoRobots
<1> QED
  BY <1>1, <1>2, InitAgrees, PTL DEF Spec

(* The striker that they name is one that nobody else in the game, seeing the ball, is clearly *)
(* faster than.                                                                               *)
THEOREM TwoRobotsChooseWell ==
  ASSUME NumRobots = 2, Age + Ahead <= TTL, 4 * Age + Ahead + 2 <= Settle
  PROVE  Spec => []StrikerIsReasonable
<1>1. AgreeIInv /\ [Next]_vars => AgreeIInv'
  BY AgreeInductive DEF TwoRobots
<1>2. AgreeIInv => StrikerIsReasonable
  <2> SUFFICES ASSUME AgreeIInv, Settled, NEW r \in Robot, NEW s \in Robot,
                      s = striker[r], s \in Candidates, NEW c \in Candidates
               PROVE  walk[s] <= walk[c] + Margin
    BY DEF StrikerIsReasonable
  <2>1. Settling(s)
    BY SettledNames DEF TwoRobots
  <2>2. /\ c \in Players /\ walk[c] # NoBall /\ walk[s] # NoBall
        /\ walk[c] \in Nat /\ walk[s] \in Nat /\ Margin \in Nat
    BY ElectionAssumption DEF Candidates, Players, AgreeIInv, AskIInv, NewsIInv, HearIInv, TypeOK
  <2>3. c # s => ~Faster(c, s)
    BY <2>1, <2>2 DEF Settling
  <2> QED
    BY <2>2, <2>3 DEF Faster
<1> QED
  BY <1>1, <1>2, InitAgrees, PTL DEF Spec

(* And it stays the striker of both.                                       *)
THEOREM TwoRobotsKeepTheirStriker ==
  ASSUME NumRobots = 2, Age + Ahead <= TTL, 4 * Age + Ahead + 2 <= Settle
  PROVE  Spec => StrikerStays
<1>1. AgreeIInv /\ [Next]_vars => AgreeIInv'
  BY AgreeInductive DEF TwoRobots
<1>2. AgreeIInv /\ AgreeIInv' /\ [Next]_vars => [Settled => striker' = striker]_vars
  <2> SUFFICES ASSUME AgreeIInv, AgreeIInv', [Next]_vars, Settled
               PROVE  striker' = striker
    OBVIOUS
  <2>1. /\ TwoRobots /\ TypeOK /\ TypeOK' /\ AskIInv
        /\ now > Informed /\ now \in Nat /\ Chaos \in Nat /\ Settle \in Nat
    BY SettledNames, TimesAreNumbers, ElectionAssumption DEF TwoRobots, AgreeIInv, AskIInv, NewsIInv, HearIInv
  <2>2. /\ Age \in Nat /\ Ahead \in Nat /\ Announced = Chaos + 4 * Age + Ahead + 1
        /\ now > Announced + 1 /\ Announced \in Nat
    BY <2>1, Stages DEF TwoRobots, Settled
  <2>3. now' >= now
    BY <2>1, InformedSteps DEF RoundOf, Listening, Ticking
  <2>4. now' \in Nat
    BY <2>1 DEF TypeOK
  <2>5. \A r \in Robot : After(Announced, r)'
    BY <2>1, <2>2, <2>3, <2>4 DEF After
  <2>6. \A r \in Robot : \/ Candidates' = {} /\ striker'[r] = Nobody
                         \/ \E w \in Robot : Settling(w)' /\ striker'[r] = w
    BY <2>5 DEF AgreeIInv, NamedInTime
  <2>7. Candidates' = Candidates
    BY <2>1, InformedSame
  <2>8. \A r \in Robot : striker'[r] = striker[r]
    <3>1. CASE Candidates = {}
      <4>1. \A w \in Robot : ~Settling(w) /\ ~Settling(w)'
        BY <3>1, <2>7 DEF Settling
      <4> QED
        BY <4>1, <2>1, <2>6, SettledNames
    <3>2. CASE Candidates # {}
      <4>1. PICK w \in Robot : Settling(w) /\ \A r \in Robot : striker[r] = w
        BY <3>2, <2>1, SettledNames
      <4>2. Settling(w)'
        BY <2>1, <4>1, SettlingStays
      <4>3. \A o \in Robot : Settling(o)' => o = w
        <5> SUFFICES ASSUME NEW o \in Robot, Settling(o)', o # w PROVE FALSE
          OBVIOUS
        <5>1. ~Beats(w, request'[w], o, request'[o]) /\ ~Beats(o, request'[o], w, request'[w])
          BY <4>2 DEF Settling, Candidates, Players
        <5>2. w \in Nat /\ o \in Nat /\ request'[w] \in Nat /\ request'[o] \in Nat
          BY <2>1, RobotsAreNumbers DEF TypeOK
        <5> QED
          BY <5>1, <5>2 DEF Beats
      <4> QED
        BY <3>2, <4>1, <4>3, <2>6, <2>7
    <3> QED
      BY <3>1, <3>2
  <2>9. striker \in [Robot -> Robot \cup {Nobody}] /\ striker' \in [Robot -> Robot \cup {Nobody}]
    BY <2>1 DEF TypeOK
  <2> QED
    BY <2>8, <2>9
<1> QED
  BY <1>1, <1>2, InitAgrees, PTL DEF Spec, StrikerStays

-----------------------------------------------------------------------------
(* Any number of robots agree, if a message arrives in the tick in which it is sent *)

(* How far the clocks are apart.                                           *)
Spread == CHOOSE k \in {Skew[r] - Skew[s] : r, s \in Robot} : \A r, s \in Robot : Skew[r] - Skew[s] <= k

(* From when on all requests of the chaos lie behind every clock, and the ends of four more rounds of messages. *)
Stage(k) == Informed + Age + Spread + k * Age

(* Messages arrive in the tick in which they are sent and count for long enough; nobody is slower *)
(* by exactly the margin.                                                                        *)
Prompt ==
  /\ MaxDelay = 0
  /\ \A v, w \in Times : v # w + Margin
  /\ Age + Spread <= TTL

(* Of some robots one has the number that no other one's beats.            *)
LEMMA TopExists ==
  ASSUME NEW M, M \subseteq Robot, M # {}, NEW f, \A r \in M : f[r] \in Nat
  PROVE  \E g \in M : \A o \in M : ~Beats(o, f[o], g, f[g])
<1> DEFINE values == {f[r] : r \in M}
           h == [r \in M |-> f[r]]
<1>1. Robot \subseteq Nat /\ IsFiniteSet(M)
  <2>1. Robot = 0 .. NumRobots - 1 /\ NumRobots \in Nat
    BY ElectionAssumption DEF Robot
  <2>2. IsFiniteSet(0 .. NumRobots - 1)
    BY <2>1, FS_Interval
  <2>3. IsFiniteSet(Robot)
    BY <2>1, <2>2
  <2>4. IsFiniteSet(M)
    BY <2>3, FS_Subset
  <2> QED
    BY <2>1, <2>4
<1>2. values \subseteq Nat /\ values # {}
  OBVIOUS
<1>3. IsFiniteSet(values)
  <2>1. h \in Surjection(M, values)
    BY DEF Surjection
  <2> HIDE DEF h, values
  <2> QED
    BY <1>1, <2>1, FS_Surjection
<1>4. PICK b \in Nat : \A v \in values : v < b
  <2> HIDE DEF values
  <2> QED
    BY <1>2, <1>3, NumbersAreBounded
<1> DEFINE below == {b - v : v \in values}
<1>5. below \subseteq Nat /\ below # {}
  <2> HIDE DEF values
  <2>1. \A v \in values : b - v \in Nat
    BY <1>2, <1>4
  <2> QED
    BY <1>2, <2>1
<1>6. PICK y \in below : \A o \in below : y <= o
  <2> HIDE DEF below
  <2> QED
    BY <1>5, LeastExists
<1>7. PICK x \in values : y = b - x
  BY <1>6
<1>8. \A v \in values : v <= x
  <2> HIDE DEF values
  <2>1. \A v \in values : b - x <= b - v
    BY <1>6, <1>7
  <2> QED
    BY <1>2, <1>4, <2>1
<1> DEFINE tops == {r \in M : f[r] = x}
<1>9. tops \subseteq Nat /\ tops # {}
  BY <1>1
<1>10. PICK g \in tops : \A o \in tops : g <= o
  <2> HIDE DEF tops
  <2> QED
    BY <1>9, LeastExists
<1>11. ASSUME NEW o \in M PROVE ~Beats(o, f[o], g, f[g])
  <2>1. f[o] \in Nat /\ f[o] <= x /\ f[g] = x /\ x \in Nat /\ o \in Nat /\ g \in Nat
    BY <1>1, <1>2, <1>8, <1>10
  <2>2. f[o] = x => g <= o
    BY <1>10
  <2> QED
    BY <2>1, <2>2 DEF Beats
<1> QED
  BY <1>10, <1>11

LEMMA SpreadIsLargest ==
  Spread \in Nat /\ \A r, s \in Robot : Skew[r] \in Nat /\ Skew[s] \in Nat /\ Skew[r] <= Skew[s] + Spread
<1> DEFINE S == {Skew[r] : r \in Robot}
           D == {Skew[r] - Skew[s] : r, s \in Robot}
<1>1. Skew \in [Robot -> Nat] /\ 0 \in Robot
  BY ElectionAssumption DEF Robot
<1>2. PICK q \in Robot : \A o \in Robot : ~Beats(o, Skew[o], q, Skew[q])
  BY <1>1, TopExists
<1>3. S \subseteq Nat /\ S # {}
  BY <1>1
<1>4. PICK low \in S : \A o \in S : low <= o
  <2> HIDE DEF S
  <2> QED
    BY <1>3, LeastExists
<1>5. PICK p \in Robot : low = Skew[p]
  BY <1>4
<1>6. \A r, s \in Robot : Skew[r] - Skew[s] <= Skew[q] - Skew[p]
  <2> SUFFICES ASSUME NEW r \in Robot, NEW s \in Robot PROVE Skew[r] - Skew[s] <= Skew[q] - Skew[p]
    OBVIOUS
  <2>1. ~(Skew[r] > Skew[q]) /\ Skew[p] <= Skew[s]
    BY <1>2, <1>4, <1>5 DEF Beats
  <2> QED
    BY <2>1, <1>1
<1>7. Spread \in D /\ \A r, s \in Robot : Skew[r] - Skew[s] <= Spread
  BY <1>6 DEF Spread
<1>8. Spread \in Int
  BY <1>1, <1>7
<1>9. 0 <= Spread
  <2>1. Skew[0] - Skew[0] <= Spread
    BY <1>1, <1>7
  <2> QED
    BY <2>1, <1>1
<1> QED
  BY <1>1, <1>7, <1>8, <1>9

(* The stages are numbers, in this order.                                  *)
LEMMA PromptTimes ==
  ASSUME Prompt
  PROVE  /\ Age \in Nat \ {0} /\ Age = SendPause + 1 /\ SendPause \in Nat /\ MaxDelay = 0
         /\ Chaos \in Nat /\ Informed \in Nat /\ Informed = Chaos + Age /\ Spread \in Nat /\ TTL \in Nat
         /\ Stage(0) \in Nat /\ Stage(0) = Informed + Age + Spread
         /\ Stage(1) \in Nat /\ Stage(1) = Stage(0) + Age
         /\ Stage(2) \in Nat /\ Stage(2) = Stage(1) + Age
         /\ Stage(3) \in Nat /\ Stage(3) = Stage(2) + Age
         /\ Stage(4) \in Nat /\ Stage(4) = Stage(3) + Age
<1>1. MaxDelay = 0 /\ SendPause \in Nat /\ Chaos \in Nat /\ TTL \in Nat
  BY ElectionAssumption DEF Prompt
<1>2. Spread \in Nat
  BY SpreadIsLargest
<1>3. Age \in Nat \ {0} /\ Age = SendPause + 1 /\ Informed \in Nat /\ Informed = Chaos + Age
  BY <1>1 DEF Age, Informed
<1> QED
  BY <1>1, <1>2, <1>3 DEF Stage

-----------------------------------------------------------------------------
(* The steps of a team of which everybody is heard, if messages arrive at once. *)

(* The round of p, as far as the others are concerned.                      *)
Turn(p) ==
  LET t == now + Skew[p]
      outcome == DetermineStriker(p, t, walk[p])
  IN  /\ t \in Nat \ {0} /\ p \notin ran /\ ran' = ran \cup {p}
      /\ UNCHANGED <<now, penalized, walk, heard>>
      /\ request'[p] = outcome.request /\ striker'[p] = outcome.striker
      /\ \A s \in Robot \ {p} :
           request'[s] = request[s] /\ striker'[s] = striker[s] /\ lastSend'[s] = lastSend[s]
      /\ lastSend'[p] = lastSend[p] \/ (lastSend'[p] = t /\ lastSend[p] + Age = t)
      /\ p \in Players => t <= lastSend'[p] + SendPause
      /\ \A r, s \in Robot : \A d \in Told(s, r)' :
           \/ d \in Told(s, r)
           \/ s = p /\ lastSend'[p] = t /\ d.sent = t /\ d.request = outcome.request

(* A message arrives, or nothing happens.                                  *)
Hearing ==
  /\ UNCHANGED <<now, ran, penalized, walk, request, striker, lastSend>>
  /\ \A r, s \in Robot : Told(s, r)' \subseteq Told(s, r)

(* A tick ends when everybody has had a round and everything has arrived.  *)
NextTick ==
  /\ ran = Robot /\ ran' = {} /\ now' = now + 1 /\ network = {}
  /\ UNCHANGED <<penalized, walk, request, striker, lastSend, heard, network>>

(* All that is under way was said in this tick.                            *)
LEMMA UnderWayIsFresh ==
  ASSUME Prompt, NewsIInv, NEW m \in network
  PROVE  m.from \in Robot /\ m.to \in Robot /\ m.data \in Told(m.from, m.to) /\ Fresh(m.from, m.data)
<1>1. TypeOK
  BY DEF NewsIInv, HearIInv
<1>2. m.from \in Robot /\ m.to \in Robot /\ m.data.sent \in Nat
  BY <1>1, TimesAreNumbers
<1>3. m.data \in Told(m.from, m.to)
  BY DEF Told, UnderWay
<1>4. m.data.sent <= lastSend[m.from] /\ lastSend[m.from] <= LastClock(m.from)
      /\ LastClock(m.from) <= now + Skew[m.from]
  BY <1>2, <1>3, ToldLately
<1>5. now + Skew[m.from] <= m.data.sent + MaxDelay
  BY DEF NewsIInv, HearIInv, MessagesFit
<1>6. /\ now \in Nat /\ Skew[m.from] \in Nat /\ MaxDelay = 0
      /\ lastSend[m.from] \in Nat /\ LastClock(m.from) \in Nat
  BY <1>1, <1>2, ClockTypes, PromptTimes
<1> QED
  BY <1>2, <1>3, <1>4, <1>5, <1>6 DEF Fresh

LEMMA QuietTurn ==
  ASSUME Prompt, NewsIInv, now > Informed,
         NEW p \in Robot, NEW w \in Times \cup {NoBall}, NEW reached \in SUBSET Robot,
         p \notin reached, Proceed(p, w, reached)
  PROVE  Turn(p)
<1> DEFINE t == now + Skew[p]
           due == p \notin penalized /\ t > lastSend[p] + SendPause
<1>1. TypeOK /\ HearIInv
  BY DEF NewsIInv, HearIInv
<1>2. /\ now \in Nat /\ Chaos \in Nat /\ Age = SendPause + 1 /\ SendPause \in Nat /\ Age \in Nat
      /\ Informed = Chaos + Age /\ lastSend[p] \in Nat /\ Skew[p] \in Nat /\ t \in Nat
  BY <1>1, ClockTypes, PromptTimes
<1>3. Quiet
  BY <1>2 DEF Quiet
<1>4. w = walk[p] /\ walk' = [walk EXCEPT ![p] = w] /\ walk \in [Robot -> Times \cup {NoBall}]
  BY <1>1, <1>3 DEF Proceed, TypeOK
<1>5. walk' = walk
  BY <1>4
<1>6. /\ t \in Nat \ {0} /\ p \notin ran /\ ran' = ran \cup {p}
      /\ UNCHANGED <<now, penalized, heard>>
      /\ request'[p] = DetermineStriker(p, t, walk[p]).request
      /\ striker'[p] = DetermineStriker(p, t, walk[p]).striker
      /\ lastSend'[p] = IF due THEN t ELSE lastSend[p]
      /\ \A s \in Robot \ {p} :
           request'[s] = request[s] /\ striker'[s] = striker[s] /\ lastSend'[s] = lastSend[s]
      /\ \A r, s \in Robot : \A d \in Told(s, r)' :
           \/ d \in Told(s, r)
           \/ /\ s = p /\ due
              /\ d = [sent |-> t, request |-> DetermineStriker(p, t, walk[p]).request, walk |-> walk[p]]
  BY <1>4, ProceedTells
<1>7. p \notin penalized => t <= lastSend[p] + SendPause + 1
  BY <1>1, <1>2 DEF HearIInv, SendsOften
<1>8. due => lastSend[p] + Age = t
  BY <1>2, <1>7
<1>9. p \in Players => t <= lastSend'[p] + SendPause
  <2> HIDE DEF t
  <2> QED
    BY <1>2, <1>6 DEF Players
<1> HIDE DEF due, t
<1>10. \A r, s \in Robot : \A d \in Told(s, r)' :
         \/ d \in Told(s, r)
         \/ /\ s = p /\ lastSend'[p] = t /\ d.sent = t
            /\ d.request = DetermineStriker(p, t, walk[p]).request
  BY <1>6
<1> QED
  BY <1>5, <1>6, <1>8, <1>9, <1>10 DEF Turn, t

(* Once everybody is informed there are no other steps.                    *)
LEMMA QuietSteps ==
  ASSUME Prompt, NewsIInv, now > Informed, [Next]_vars
  PROVE  (\E p \in Robot : Turn(p)) \/ Hearing \/ NextTick
<1>1. TypeOK /\ HearIInv /\ now \in Nat /\ Informed \in Nat /\ Chaos \in Nat /\ Informed >= Chaos
  BY TimesAreNumbers, PromptTimes DEF NewsIInv, HearIInv
<1>2. Quiet
  BY <1>1 DEF Quiet
<1>3. ASSUME NEW p \in Robot, NEW w \in Times \cup {NoBall}, NEW reached \in SUBSET Robot,
             p \notin reached, Proceed(p, w, reached)
      PROVE  Turn(p)
  BY <1>3, QuietTurn
<1>4. ASSUME NEW m \in network, Receive(m) PROVE Hearing
  BY <1>1, <1>4, ReceiveTells DEF Hearing
<1>5. ~ \E r \in Robot : Referee(r)
  BY <1>2 DEF Referee
<1>6. CASE Tick
  <2>1. network = {}
    <3> SUFFICES ASSUME NEW m \in network PROVE FALSE
      OBVIOUS
    <3>1. m.from \in Robot /\ m.data.sent = now + Skew[m.from]
      BY UnderWayIsFresh DEF Fresh
    <3>2. m.data.sent - Skew[m.from] + MaxDelay > now
      BY <1>6 DEF Tick
    <3> QED
      BY <1>1, <3>1, <3>2, ClockTypes, PromptTimes
  <2> QED
    BY <1>6, <2>1 DEF Tick, NextTick
<1>7. CASE UNCHANGED vars
  BY <1>7 DEF vars, Hearing, Told, UnderWay
<1> QED
  BY <1>3, <1>4, <1>5, <1>6, <1>7 DEF Next, Done

(* At the end of a tick everybody has the last message of each player.     *)
LEMMA AllIsHeard ==
  ASSUME Prompt, NewsIInv, now > Informed, network = {},
         NEW r \in Robot, NEW s \in Players, r # s
  PROVE  /\ Told(s, r) = {heard[r][s]} /\ heard[r][s] # None
         /\ heard[r][s].sent = lastSend[s] /\ heard[r][s].sent > Noise(s)
<1>1. s \in Robot /\ HearIInv /\ TypeOK
  BY DEF Players, NewsIInv, HearIInv
<1>2. Told(s, r) = {heard[r][s]}
  BY DEF Told, UnderWay
<1>3. heard[r][s].sent > Noise(s) /\ heard[r][s] \in Message
  BY <1>1, HeardIsRecent
<1>4. heard[r][s].sent \in Nat /\ heard[r][s].sent <= lastSend[s] /\ lastSend[s] \in Nat /\ Noise(s) \in Nat
  BY <1>1, <1>2, ToldTypes, ClockTypes
<1>5. lastSend[s] > Noise(s)
  BY <1>3, <1>4
<1>6. heard[r][s].sent >= lastSend[s]
  BY <1>1, <1>5 DEF HearIInv, LastArrives, UnderWay
<1>7. heard[r][s] # None
  BY <1>3, <1>4 DEF Message, None
<1> QED
  BY <1>2, <1>3, <1>4, <1>6, <1>7

(* The request of s that p knows of.                                       *)
Seen(p, s) == IF s = p THEN request[p] ELSE heard[p][s].request

(* Nobody else is clearly faster, so that r may ask.                       *)
Near(r) == r \in Candidates /\ \A c \in Candidates : walk[r] < walk[c] + Margin

(* Everybody knows who plays, and how far everyone has to walk.            *)
LEMMA WholeTeam ==
  ASSUME Prompt, NewsIInv, now > Informed, NEW p \in Robot
  PROVE  /\ Robots(p, now + Skew[p]) = Players
         /\ \A s \in Players : s # p =>
              heard[p][s].walk = walk[s] /\ heard[p][s].request \in Nat /\ heard[p][s] # None
         /\ \A s \in Players : Seen(p, s) \in Nat
<1>1. TypeOK /\ HearIInv
  BY DEF NewsIInv, HearIInv
<1>2. ASSUME NEW s \in Players, s # p
      PROVE  /\ heard[p][s].walk = walk[s] /\ heard[p][s].request \in Nat
             /\ heard[p][s] # None /\ heard[p][s].sent + TTL >= now + Skew[p]
  <2>1. /\ heard[p][s] \in Message /\ now + Skew[s] <= heard[p][s].sent + Age
        /\ heard[p][s].walk = walk[s] /\ heard[p][s].request \in Nat
    BY <1>1, <1>2, HeardIsRecent
  <2>2. heard[p][s].sent \in Nat /\ heard[p][s] # None
    BY <2>1 DEF Message, None
  <2>3. /\ now \in Nat /\ Age \in Nat /\ Spread \in Nat /\ TTL \in Nat /\ Age + Spread <= TTL
        /\ Skew[p] \in Nat /\ Skew[s] \in Nat /\ Skew[p] <= Skew[s] + Spread
    BY <1>1, TimesAreNumbers, PromptTimes, SpreadIsLargest DEF Players, Prompt
  <2> QED
    BY <2>1, <2>2, <2>3
<1>3. Robots(p, now + Skew[p]) = Players
  BY <1>2 DEF Robots, Players
<1>4. request[p] \in Nat
  BY <1>1 DEF TypeOK
<1> QED
  BY <1>2, <1>3, <1>4 DEF Seen

(* NewestRequest names a robot whose request no other one's beats.         *)
LEMMA NewestIsTop ==
  ASSUME NEW mates, mates \subseteq Robot, NEW data, \A s \in mates : data[s].request \in Nat
  PROVE  LET n == NewestRequest(mates, data)
         IN  /\ n = Nobody => \A s \in mates : data[s].request = 0
             /\ n # Nobody => /\ n \in mates /\ data[n].request > 0
                              /\ \A s \in mates : ~Beats(s, data[s].request, n, data[n].request)
<1> DEFINE asking == {s \in mates : data[s].request > 0}
           newest == {s \in asking : \A o \in asking : data[o].request <= data[s].request}
<1>1. Robot \subseteq Nat
  BY RobotsAreNumbers
<1>2. CASE asking = {}
  <2>1. newest = {} /\ \A s \in mates : data[s].request = 0
    BY <1>2
  <2> QED
    BY <2>1 DEF NewestRequest
<1>3. CASE asking # {}
  <2>1. asking \subseteq Robot /\ \A s \in asking : data[s].request \in Nat
    OBVIOUS
  <2> DEFINE f == [s \in mates |-> data[s].request]
  <2>2. \A s \in asking : f[s] \in Nat /\ f[s] = data[s].request
    OBVIOUS
  <2>3. PICK g \in asking : \A o \in asking : ~Beats(o, f[o], g, f[g])
    <3> HIDE DEF asking, f
    <3> QED
      BY <1>3, <2>1, <2>2, TopExists
  <2>4. \A o \in asking : data[o].request <= data[g].request
    BY <2>2, <2>3 DEF Beats
  <2>5. g \in newest
    BY <2>4
  <2>6. newest \subseteq Nat
    BY <1>1
  <2>7. \E s \in newest : \A o \in newest : s <= o
    <3> HIDE DEF newest
    <3> QED
      BY <2>5, <2>6, LeastExists
  <2> DEFINE n == NewestRequest(mates, data)
  <2>8. n = CHOOSE s \in newest : \A o \in newest : s <= o
    BY <2>5 DEF NewestRequest
  <2>9. n \in newest /\ \A o \in newest : n <= o
    <3> HIDE DEF newest, n
    <3> QED
      BY <2>7, <2>8
  <2> HIDE DEF n
  <2>10. n \in mates /\ data[n].request > 0 /\ n \in Nat /\ n # Nobody
         /\ \A o \in asking : data[o].request <= data[n].request
    BY <2>9, <1>1, RobotsAreNumbers, ElectionAssumption DEF Nobody, Robot
  <2>11. ASSUME NEW s \in mates PROVE ~Beats(s, data[s].request, n, data[n].request)
    <3>1. data[s].request \in Nat /\ data[n].request \in Nat /\ s \in Nat
      BY <2>10, <1>1
    <3>2. CASE s \in asking
      <4>1. data[s].request <= data[n].request
        BY <2>10, <3>2
      <4>2. data[s].request = data[n].request => s \in newest
        <5> SUFFICES ASSUME data[s].request = data[n].request PROVE \A o \in asking : data[o].request <= data[s].request
          BY <3>2
        <5> QED
          BY <2>10
      <4>3. data[s].request = data[n].request => n <= s
        BY <4>2, <2>9
      <4> QED
        BY <3>1, <4>1, <4>3, <2>10 DEF Beats
    <3>3. CASE s \notin asking
      BY <3>1, <3>3, <2>10 DEF Beats
    <3> QED
      BY <3>2, <3>3
  <2> QED
    BY <2>10, <2>11 DEF n
<1> QED
  BY <1>2, <1>3

-----------------------------------------------------------------------------
(* What a robot decides when it hears everybody. *)

LEMMA BeatsIsOrder ==
  ASSUME NEW q \in Robot, NEW r \in Robot, NEW s \in Robot, NEW x \in Nat, NEW y \in Nat, NEW z \in Nat
  PROVE  /\ ~Beats(r, y, r, y)
         /\ Beats(q, x, r, y) => ~Beats(r, y, q, x) /\ x >= y
         /\ q # r => Beats(q, x, r, y) \/ Beats(r, y, q, x)
         /\ Beats(q, x, r, y) /\ Beats(r, y, s, z) => Beats(q, x, s, z)
         /\ ~Beats(s, z, r, y) /\ Beats(q, x, r, y) => ~Beats(s, z, q, x)
         /\ x > 0 => ~Beats(q, 0, r, x)
         /\ x < y => ~Beats(q, x, r, y)
<1>1. q \in Nat /\ r \in Nat /\ s \in Nat
  BY RobotsAreNumbers
<1> QED
  BY <1>1 DEF Beats

(* What is said of a player in its own tick is true, and nobody has heard nothing of it. *)
LEMMA ToldOfPlayer ==
  ASSUME Prompt, NewsIInv, now > Informed, NEW s \in Players, NEW r \in Robot \ {s}, NEW d \in Told(s, r)
  PROVE  /\ d # None /\ d.request \in Nat /\ d.sent \in Nat
         /\ d.sent <= lastSend[s] /\ lastSend[s] <= LastClock(s)
         /\ now + Skew[s] <= d.sent + Age
         /\ Fresh(s, d) => Said(s) /\ s \in ran /\ d.request = request[s]
<1>1. HearIInv /\ TypeOK /\ s \in Robot /\ r \in Robot /\ r # s
  BY DEF NewsIInv, HearIInv, Players
<1>2. /\ heard[r][s].sent > Noise(s) /\ heard[r][s] \in Message
      /\ now + Skew[s] <= heard[r][s].sent + Age
  BY <1>1, HeardIsRecent
<1>3. /\ now \in Nat /\ Skew[s] \in Nat /\ Age \in Nat /\ Noise(s) \in Nat /\ Informed \in Nat
      /\ Noise(s) = Chaos + Skew[s] /\ Informed >= Chaos /\ Chaos \in Nat
      /\ lastSend[s] \in Nat /\ LastClock(s) \in Nat
  BY <1>1, ClockTypes, PromptTimes
<1>4. d = heard[r][s] \/ Fresh(s, d)
  <2>1. CASE d = heard[r][s]
    BY <2>1
  <2>2. ASSUME NEW m \in UnderWay(s, r), d = m.data PROVE Fresh(s, d)
    BY <2>2, UnderWayIsFresh DEF UnderWay
  <2> QED
    BY <2>1, <2>2 DEF Told
<1>5. d.sent > Noise(s) /\ now + Skew[s] <= d.sent + Age /\ d.sent \in Nat
  BY <1>2, <1>3, <1>4, <1>1, ToldTypes DEF Fresh
<1>6. d # None /\ d.request \in Nat
  BY <1>1, <1>5, ToldTypes
<1>7. d.sent <= lastSend[s] /\ lastSend[s] <= LastClock(s) /\ LastClock(s) <= now + Skew[s]
      /\ (s \notin ran => LastClock(s) < now + Skew[s])
  BY <1>1, ToldLately
<1>8. Fresh(s, d) => Said(s) /\ s \in ran
  BY <1>3, <1>5, <1>7 DEF Fresh, Said
<1>9. Fresh(s, d) => d.request = request[s]
  BY <1>1, <1>6 DEF NewsIInv, FreshIsTrue
<1> QED
  BY <1>5, <1>6, <1>7, <1>8, <1>9

(* p gets to know of the newest request, that of n.                        *)
Knows(p, n) ==
  /\ n = Nobody => \A s \in Players : Seen(p, s) = 0
  /\ n # Nobody => /\ n \in Players /\ Seen(p, n) > 0
                   /\ \A s \in Players : ~Beats(s, Seen(p, s), n, Seen(p, n))

(* The striker that follows from it.                                       *)
Chosen(n) == IF n # Nobody /\ walk[n] # NoBall THEN n ELSE Nobody

(* p asks for the place of the striker that n names.                       *)
Asks(p, n) ==
  /\ Near(p) /\ Chosen(n) # p
  /\ n # Nobody => now + Skew[p] > Seen(p, n)
  /\ Chosen(n) # Nobody => walk[Chosen(n)] > walk[p] + Margin

(* All of determineStriker, for a robot that knows of everybody.           *)
LEMMA RoundDecides ==
  ASSUME Prompt, NewsIInv, now > Informed, NEW p \in Robot
  PROVE  LET t == now + Skew[p]
             outcome == DetermineStriker(p, t, walk[p])
         IN  \E n \in Players \cup {Nobody} :
               /\ Knows(p, n)
               /\ outcome.request = IF Asks(p, n) THEN t
                                    ELSE IF p \in Players /\ Chosen(n) \in {p, Nobody} THEN request[p] ELSE 0
               /\ outcome.striker = IF Asks(p, n) THEN p ELSE Chosen(n)
<1> DEFINE t == now + Skew[p]
           data == [s \in Players |-> IF s = p THEN Own(p, t, walk[p]) ELSE heard[p][s]]
           n == NewestRequest(Players, data)
           time == IF n = Nobody THEN 0 ELSE data[n].request
           current == Current(n, data)
           asks == current # p /\ t > time /\ p \in Players /\ ShouldAsk(p, Players, data, current)
<1>1. TypeOK /\ Players \subseteq Robot /\ t \in Nat \ {0} /\ Nobody \notin Robot
  <2>1. Nobody \notin Robot
    BY ElectionAssumption DEF Nobody, Robot
  <2>2. TypeOK
    BY DEF NewsIInv, HearIInv
  <2> QED
    BY <2>1, <2>2, ClockTypes DEF Players
<1>2. /\ Robots(p, t) = Players
      /\ \A s \in Players : s # p => heard[p][s].walk = walk[s]
      /\ \A s \in Players : Seen(p, s) \in Nat
  BY WholeTeam
<1>3. \A s \in Players : data[s].request = Seen(p, s) /\ data[s].walk = walk[s]
  BY <1>2 DEF Seen, Own
<1>4. DetermineStriker(p, t, walk[p]) =
        IF asks THEN [striker |-> p, request |-> t]
        ELSE [striker |-> current, request |-> KeptRequest(p, current)]
  <2> HIDE DEF t
  <2> QED
    BY <1>2 DEF DetermineStriker
<1> HIDE DEF t, data
<1>5. Knows(p, n) /\ n \in Players \cup {Nobody}
  <2>1. /\ n = Nobody => \A s \in Players : data[s].request = 0
        /\ n # Nobody => /\ n \in Players /\ data[n].request > 0
                         /\ \A s \in Players : ~Beats(s, data[s].request, n, data[n].request)
    BY <1>1, <1>2, <1>3, NewestIsTop
  <2> HIDE DEF n
  <2> QED
    BY <2>1, <1>3 DEF Knows
<1> HIDE DEF n
<1>6. current = Chosen(n)
  BY <1>3, <1>5 DEF Current, Chosen
<1>7. (n # Nobody => t > Seen(p, n)) <=> t > time
  BY <1>1, <1>3, <1>5
<1>8. ASSUME p \in Players
      PROVE  ShouldAsk(p, Players, data, current) <=>
               Near(p) /\ (Chosen(n) # Nobody => walk[Chosen(n)] > walk[p] + Margin)
  <2>1. current \in Players <=> Chosen(n) # Nobody
    BY <1>1, <1>5, <1>6 DEF Chosen
  <2>2. data[p].walk = walk[p]
    BY <1>3, <1>8
  <2>3. current \in Players => data[current].walk = walk[Chosen(n)]
    BY <1>3, <1>6
  <2>4. Near(p) <=> walk[p] # NoBall /\ \A s \in Players : walk[s] # NoBall => walk[p] < walk[s] + Margin
    BY <1>8 DEF Near, Candidates, Players
  <2>5. (\A s \in Players : data[s].walk # NoBall => data[p].walk < data[s].walk + Margin)
          <=> \A s \in Players : walk[s] # NoBall => walk[p] < walk[s] + Margin
    BY <1>3, <2>2
  <2> HIDE DEF current
  <2> QED
    BY <2>1, <2>2, <2>3, <2>4, <2>5 DEF ShouldAsk
<1>9. Near(p) => p \in Players
  BY DEF Near, Candidates, Players
<1>10. asks <=> Asks(p, n)
  <2> HIDE DEF current
  <2> QED
    BY <1>6, <1>7, <1>8, <1>9 DEF Asks, t
<1>11. KeptRequest(p, current) = IF p \in Players /\ Chosen(n) \in {p, Nobody} THEN request[p] ELSE 0
  BY <1>6 DEF KeptRequest, Players
<1> HIDE DEF asks, current
<1> QED
  BY <1>4, <1>5, <1>6, <1>10, <1>11 DEF t

(* A player with a request gives it up only for one that beats it.         *)
LEMMA WhoGivesUp ==
  ASSUME Prompt, NewsIInv, now > Informed, NEW p \in Players, request[p] > 0,
         DetermineStriker(p, now + Skew[p], walk[p]).request # request[p]
  PROVE  \E n \in Players \ {p} : Beats(n, heard[p][n].request, p, request[p])
<1>1. p \in Robot
  BY DEF Players
<1>2. PICK n \in Players \cup {Nobody} :
        /\ Knows(p, n)
        /\ DetermineStriker(p, now + Skew[p], walk[p]).request =
             IF Asks(p, n) THEN now + Skew[p]
             ELSE IF p \in Players /\ Chosen(n) \in {p, Nobody} THEN request[p] ELSE 0
  BY <1>1, RoundDecides
<1>3. Seen(p, p) = request[p]
  BY DEF Seen
<1>4. n # Nobody
  BY <1>2, <1>3 DEF Knows
<1>5. n # p
  <2> SUFFICES ASSUME n = p PROVE FALSE
    OBVIOUS
  <2>1. Chosen(n) \in {p, Nobody}
    BY DEF Chosen
  <2>2. Asks(p, n)
    BY <1>2, <2>1
  <2>3. walk[p] # NoBall
    BY <2>2 DEF Asks, Near, Candidates
  <2>4. Chosen(n) = p
    BY <1>4, <2>3 DEF Chosen
  <2> QED
    BY <2>2, <2>4 DEF Asks
<1>6. n \in Players /\ n \in Robot /\ Seen(p, n) \in Nat /\ request[p] \in Nat
  <2>1. n \in Players /\ n \in Robot
    BY <1>2, <1>4 DEF Players
  <2> QED
    BY <1>1, <2>1, <1>3, WholeTeam
<1>7. ~Beats(p, request[p], n, Seen(p, n))
  BY <1>2, <1>3, <1>4 DEF Knows
<1>8. Beats(n, Seen(p, n), p, request[p])
  BY <1>1, <1>5, <1>6, <1>7, BeatsIsOrder
<1> QED
  BY <1>5, <1>6, <1>8 DEF Seen

LEMMA NearStays ==
  ASSUME UNCHANGED <<walk, penalized>>
  PROVE  Players' = Players /\ Candidates' = Candidates /\ \A r : Near(r)' = Near(r)
BY DEF Players, Candidates, Near

(* When tick k is over, all has happened by then.                          *)
LEMMA TickIsOver ==
  ASSUME NewsIInv, [Next]_vars, NEW k \in Nat, now <= k, now' > k
  PROVE  /\ now = k /\ now' = k + 1 /\ ran = Robot /\ ran' = {}
         /\ UNCHANGED <<penalized, walk, request, striker, lastSend, heard, network>>
         /\ \A s \in Robot : request[s] <= k + Skew[s] /\ lastSend[s] <= k + Skew[s]
         /\ \A r, s \in Robot : Told(s, r)' = Told(s, r)
         /\ \A s \in Robot : \A r \in Robot \ {s} : \A d \in Told(s, r) :
              d.sent <= k + Skew[s] /\ (d # None => d.request <= k + Skew[s])
<1>1. TypeOK /\ HearIInv /\ now \in Nat
  BY TimesAreNumbers DEF NewsIInv, HearIInv
<1>2. CASE UNCHANGED now
  BY <1>1, <1>2
<1>3. CASE Tick
  <2>1. /\ now = k /\ now' = k + 1 /\ ran = Robot /\ ran' = {}
        /\ UNCHANGED <<penalized, walk, request, striker, lastSend, heard, network>>
    BY <1>1, <1>3 DEF Tick
  <2>2. \A s \in Robot : LastClock(s) = k + Skew[s]
    BY <2>1 DEF LastClock
  <2>3. \A s \in Robot : request[s] <= k + Skew[s] /\ lastSend[s] <= k + Skew[s]
    BY <2>2 DEF NewsIInv, PastOnly
  <2>4. \A r, s \in Robot : Told(s, r)' = Told(s, r)
    BY <2>1 DEF Told, UnderWay
  <2>5. ASSUME NEW s \in Robot, NEW r \in Robot \ {s}, NEW d \in Told(s, r)
        PROVE  d.sent <= k + Skew[s] /\ (d # None => d.request <= k + Skew[s])
    <3>1. d.sent \in Nat /\ d.sent <= lastSend[s] /\ lastSend[s] \in Nat /\ Skew[s] \in Nat
      BY <1>1, <2>5, ToldTypes, ClockTypes
    <3>2. d # None => d.request \in Nat /\ d.request <= d.sent
      BY <1>1, <2>5, ToldTypes DEF NewsIInv, RequestIsTold
    <3> QED
      BY <2>3, <3>1, <3>2
  <2> QED
    BY <2>1, <2>3, <2>4, <2>5
<1> QED
  BY <1>2, <1>3 DEF Next, Proceed, Receive, Referee, Done, vars

(* Who is not near has asked in the chaos only.                            *)
OldRequests ==
  now > Informed => \A s \in Players : ~Near(s) =>
    /\ request[s] <= Informed + Skew[s]
    /\ \A r \in Robot \ {s} : \A d \in Told(s, r) \ {None} : d.request <= Informed + Skew[s]

LEMMA OldRequestsStay == Prompt /\ NewsIInv /\ OldRequests /\ [Next]_vars => OldRequests'
<1> SUFFICES ASSUME Prompt, NewsIInv, OldRequests, [Next]_vars, now' > Informed,
                    NEW s \in Players', ~Near(s)'
             PROVE  /\ request'[s] <= Informed + Skew[s]
                    /\ \A r \in Robot \ {s} : \A d \in Told(s, r)' \ {None} : d.request <= Informed + Skew[s]
  BY DEF OldRequests, Informed, Age
<1>1. TypeOK /\ Informed \in Nat /\ now \in Nat /\ s \in Robot
  BY PromptTimes, TimesAreNumbers DEF NewsIInv, HearIInv, Players
<1>2. CASE now <= Informed
  <2>1. /\ now = Informed /\ UNCHANGED <<penalized, walk, request, striker, lastSend, heard, network>>
        /\ request[s] <= Informed + Skew[s] /\ now' = Informed + 1
        /\ \A r \in Robot \ {s} : Told(s, r)' = Told(s, r)
        /\ \A r \in Robot \ {s} : \A d \in Told(s, r) : d # None => d.request <= Informed + Skew[s]
    BY <1>1, <1>2, TickIsOver
  <2> QED
    BY <2>1
<1>3. CASE now > Informed
  <2>1. (\E p \in Robot : Turn(p)) \/ Hearing \/ NextTick
    BY <1>3, QuietSteps
  <2>2. /\ s \in Players /\ ~Near(s) /\ request[s] <= Informed + Skew[s]
        /\ \A r \in Robot \ {s} : \A d \in Told(s, r) \ {None} : d.request <= Informed + Skew[s]
    <3>1. UNCHANGED <<walk, penalized>>
      BY <2>1 DEF Turn, Hearing, NextTick
    <3> QED
      BY <1>3, <3>1, NearStays DEF OldRequests
  <2>3. ASSUME NEW p \in Robot, Turn(p)
        PROVE  /\ request'[s] <= Informed + Skew[s]
               /\ \A r \in Robot \ {s} : \A d \in Told(s, r)' \ {None} : d.request <= Informed + Skew[s]
    <3>1. request'[s] <= Informed + Skew[s]
      <4>1. CASE s # p
        BY <2>2, <2>3, <4>1, <1>1 DEF Turn
      <4>2. CASE s = p
        <5>1. request'[s] \in {0, request[s]}
          BY <2>2, <2>3, <4>2, <1>3, RoundDecides DEF Turn, Asks
        <5> QED
          BY <1>1, <2>2, <5>1, ClockTypes
      <4> QED
        BY <4>1, <4>2
    <3>2. ASSUME NEW r \in Robot \ {s}, NEW d \in Told(s, r)'
          PROVE  d \in Told(s, r) \/ d.request = request'[s]
      BY <1>1, <2>3 DEF Turn
    <3> QED
      BY <2>2, <3>1, <3>2
  <2>4. CASE Hearing
    BY <1>1, <2>2, <2>4 DEF Hearing
  <2>5. CASE NextTick
    BY <1>1, <2>2, <2>5 DEF NextTick, Told, UnderWay
  <2> QED
    BY <2>1, <2>3, <2>4, <2>5
<1> QED
  BY <1>1, <1>2, <1>3

(* Then its request is long known to everybody.                            *)
LEMMA FarIsTold ==
  ASSUME Prompt, NewsIInv, OldRequests, now > Informed + Age, NEW s \in Players, ~Near(s),
         NEW r \in Robot \ {s}, NEW d \in Told(s, r), request[s] > 0
  PROVE  d.request = request[s]
<1>1. TypeOK /\ Informed \in Nat /\ now \in Nat /\ Age \in Nat /\ s \in Robot
  BY PromptTimes, TimesAreNumbers DEF NewsIInv, HearIInv, Players
<1>2. d # None /\ d.sent \in Nat /\ now + Skew[s] <= d.sent + Age
  BY <1>1, ToldOfPlayer
<1>3. request[s] <= Informed + Skew[s]
  BY <1>1 DEF OldRequests
<1>4. d.sent >= request[s]
  BY <1>1, <1>2, <1>3, ClockTypes
<1> QED
  BY <1>1, <1>2, <1>4 DEF NewsIInv, RequestIsTold

(* A near robot that has run holds its request against all that it has heard before. *)
Unbeaten ==
  now > Stage(0) => \A s \in ran \cap Players : Near(s) /\ request[s] > 0 =>
    \A o \in Players \ {s} : \A d \in Told(o, s) :
      (Near(o) /\ Fresh(o, d)) \/ ~Beats(o, d.request, s, request[s])

(* Whoever is near and runs now keeps or makes a request that is newer than all but the newest ones. *)
LEMMA RoundHolds ==
  ASSUME Prompt, NewsIInv, OldRequests, now > Stage(0), NEW p \in Players, Near(p),
         NEW x, x = DetermineStriker(p, now + Skew[p], walk[p]).request, x > 0,
         NEW o \in Players \ {p}
  PROVE  ~Beats(o, heard[p][o].request, p, x)
<1>1. /\ now > Informed /\ now > Informed + Age + Spread /\ now \in Nat /\ Age \in Nat /\ Spread \in Nat
      /\ Informed \in Nat
      /\ Stage(0) \in Nat /\ TypeOK /\ p \in Robot /\ o \in Robot /\ p # o
  BY PromptTimes, TimesAreNumbers DEF NewsIInv, HearIInv, Players
<1>2. PICK n \in Players \cup {Nobody} :
        /\ Knows(p, n)
        /\ x = IF Asks(p, n) THEN now + Skew[p]
               ELSE IF p \in Players /\ Chosen(n) \in {p, Nobody} THEN request[p] ELSE 0
  BY <1>1, RoundDecides
<1>3. Seen(p, o) = heard[p][o].request /\ Seen(p, p) = request[p]
  BY <1>1 DEF Seen
<1>4. \A s \in Players : Seen(p, s) \in Nat
  BY <1>1, WholeTeam
<1>5. Skew[p] \in Nat /\ Skew[o] \in Nat /\ request[p] \in Nat
  BY <1>1, ClockTypes
<1>6. CASE n = Nobody
  <2>1. Seen(p, o) = 0 /\ x \in Nat
    BY <1>1, <1>2, <1>5, <1>6 DEF Knows
  <2> QED
    BY <1>1, <1>3, <2>1, BeatsIsOrder
<1>7. CASE n # Nobody
  <2>1. n \in Players /\ n \in Robot /\ Seen(p, n) > 0 /\ Seen(p, n) \in Nat /\ ~Beats(o, Seen(p, o), n, Seen(p, n))
    BY <1>2, <1>4, <1>7 DEF Knows, Players
  <2>2. CASE Asks(p, n)
    <3>1. x = now + Skew[p] /\ x > Seen(p, n) /\ x \in Nat
      BY <1>1, <1>2, <1>5, <1>7, <2>2 DEF Asks
    <3>2. Seen(p, o) <= Seen(p, n)
      BY <1>4, <2>1 DEF Beats
    <3>3. Seen(p, o) \in Nat /\ Seen(p, o) < x
      BY <1>4, <2>1, <3>1, <3>2
    <3> QED
      BY <1>3, <3>1, <3>3 DEF Beats
  <2>3. CASE ~Asks(p, n)
    <3>1. x = request[p] /\ Chosen(n) \in {p, Nobody}
      BY <1>2, <2>3
    <3>2. CASE n = p
      BY <1>3, <2>1, <3>1, <3>2
    <3>3. CASE n # p
      <4>1. Chosen(n) = Nobody /\ walk[n] = NoBall
        BY <1>7, <3>1, <3>3 DEF Chosen
      <4>2. ~Near(n)
        BY <4>1 DEF Near, Candidates
      <4>3. heard[p][n] \in Told(n, p) /\ n # p /\ Seen(p, n) = heard[p][n].request
        BY <3>3 DEF Told, Seen
      <4>4. heard[p][n] # None
        BY <1>1, <2>1, <4>3, ToldOfPlayer
      <4>5. Seen(p, n) <= Informed + Skew[n]
        BY <1>1, <2>1, <4>2, <4>3, <4>4 DEF OldRequests
      <4>6. Skew[n] \in Nat /\ Skew[n] <= Skew[p] + Spread
        BY <1>1, <2>1, SpreadIsLargest
      <4>7. now + Skew[p] > Seen(p, n)
        BY <1>1, <1>5, <2>1, <4>5, <4>6
      <4>8. p # Nobody
        BY <1>1, ElectionAssumption DEF Robot, Nobody
      <4> QED
        BY <1>7, <2>3, <4>1, <4>7, <4>8 DEF Asks
    <3> QED
      BY <3>2, <3>3
  <2> QED
    BY <2>2, <2>3
<1> QED
  BY <1>6, <1>7

LEMMA UnbeatenStays ==
  Prompt /\ NewsIInv /\ OldRequests /\ Unbeaten /\ [Next]_vars => Unbeaten'
<1> SUFFICES ASSUME Prompt, NewsIInv, OldRequests, Unbeaten, [Next]_vars, now' > Stage(0),
                    NEW s \in ran' \cap Players', Near(s)', request'[s] > 0,
                    NEW o \in Players' \ {s}, NEW d \in Told(o, s)'
             PROVE  (Near(o)' /\ Fresh(o, d)') \/ ~Beats(o, d.request, s, request'[s])
  BY DEF Unbeaten, Stage, Informed, Age, Beats, Spread
<1>1. /\ TypeOK /\ Informed \in Nat /\ now \in Nat /\ Age \in Nat /\ Spread \in Nat /\ Stage(0) \in Nat
      /\ Stage(0) = Informed + Age + Spread /\ s \in Robot /\ o \in Robot /\ o # s
  BY PromptTimes, TimesAreNumbers DEF NewsIInv, HearIInv, Players
<1>2. now > Stage(0)
  <2> SUFFICES ASSUME now <= Stage(0) PROVE FALSE
    BY <1>1
  <2> QED
    BY <1>1, TickIsOver
<1>3. now > Informed /\ now > Informed + Age
  BY <1>1, <1>2
<1>4. (\E p \in Robot : Turn(p)) \/ Hearing \/ NextTick
  BY <1>3, QuietSteps
<1>5. s \in Players /\ o \in Players /\ Near(s) /\ Near(o)' = Near(o)
  <2>1. UNCHANGED <<walk, penalized>>
    BY <1>4 DEF Turn, Hearing, NextTick
  <2> QED
    BY <2>1, NearStays
<1>6. ~NextTick
  BY DEF NextTick
<1>7. CASE Hearing
  <2>1. s \in ran /\ request[s] > 0 /\ d \in Told(o, s) /\ now' = now
    BY <1>1, <1>7 DEF Hearing
  <2> QED
    BY <1>2, <1>5, <1>7, <2>1 DEF Unbeaten, Hearing, Fresh
<1>8. ASSUME NEW p \in Robot, Turn(p)
      PROVE  (Near(o)' /\ Fresh(o, d)') \/ ~Beats(o, d.request, s, request'[s])
  <2>1. /\ now' = now /\ ran' = ran \cup {p} /\ heard' = heard
        /\ request'[p] = DetermineStriker(p, now + Skew[p], walk[p]).request
        /\ \A q \in Robot \ {p} : request'[q] = request[q]
        /\ d \in Told(o, s) \/ (o = p /\ d.sent = now + Skew[p] /\ d.request = request'[p])
    BY <1>1, <1>8 DEF Turn
  <2>2. request'[s] \in Nat
    <3>1. TypeOK'
      BY NextTypes, <1>1
    <3> QED
      BY <1>1, <3>1 DEF TypeOK
  <2>3. CASE d \in Told(o, s) /\ s = p
    <3>1. ~Beats(o, heard[s][o].request, s, request'[s])
      BY <1>1, <1>2, <1>5, <2>1, <2>3, RoundHolds
    <3>2. CASE Fresh(o, d) /\ Near(o)
      BY <1>5, <2>1, <3>2 DEF Fresh
    <3>3. CASE d = heard[s][o]
      BY <3>1, <3>3
    <3>4. CASE d # heard[s][o] /\ ~Near(o)
      <4>1. Fresh(o, d)
        BY <2>3, <3>4, UnderWayIsFresh DEF Told, UnderWay
      <4>2. d.request = request[o] /\ request[o] \in Nat
        BY <1>1, <1>3, <1>5, <2>3, <4>1, ToldOfPlayer, ClockTypes
      <4>3. CASE request[o] = 0
        BY <1>1, <2>2, <4>2, <4>3, BeatsIsOrder
      <4>4. CASE request[o] > 0
        <5>1. heard[s][o] \in Told(o, s)
          BY DEF Told
        <5>2. heard[s][o].request = request[o]
          BY <1>1, <1>3, <1>5, <3>4, <4>4, <5>1, FarIsTold
        <5> QED
          BY <3>1, <4>2, <5>2
      <4> QED
        BY <4>2, <4>3, <4>4
    <3>5. d = heard[s][o] \/ Fresh(o, d)
      BY <2>3, UnderWayIsFresh DEF Told, UnderWay
    <3> QED
      BY <3>2, <3>3, <3>4, <3>5
  <2>4. CASE d \in Told(o, s) /\ s # p
    <3>1. s \in ran /\ request'[s] = request[s]
      BY <1>1, <2>1, <2>4
    <3>2. (Near(o) /\ Fresh(o, d)) \/ ~Beats(o, d.request, s, request[s])
      BY <1>2, <1>5, <2>4, <3>1 DEF Unbeaten
    <3> QED
      BY <1>5, <2>1, <3>1, <3>2 DEF Fresh
  <2>5. CASE d \notin Told(o, s)
    <3>1. o = p /\ d.sent = now + Skew[o] /\ d.request = request'[o] /\ s # p
      BY <1>1, <2>1, <2>5
    <3>2. CASE Near(o)
      BY <1>5, <2>1, <3>1, <3>2 DEF Fresh
    <3>3. CASE ~Near(o)
      <4>1. d.request \in {0, request[o]}
        BY <1>1, <1>3, <2>1, <3>1, <3>3, RoundDecides DEF Asks
      <4>2. CASE d.request = 0
        BY <1>1, <2>2, <4>2, BeatsIsOrder
      <4>3. CASE d.request # 0
        <5>1. request[o] > 0 /\ heard[s][o] \in Told(o, s)
          BY <1>1, <4>1, <4>3, ClockTypes DEF Told
        <5>2. heard[s][o].request = request[o]
          BY <1>1, <1>3, <1>5, <3>3, <5>1, FarIsTold
        <5>3. s \in ran /\ request'[s] = request[s]
          BY <1>1, <2>1, <3>1
        <5>4. ~Beats(o, heard[s][o].request, s, request[s])
          BY <1>2, <1>5, <3>3, <5>1, <5>3 DEF Unbeaten
        <5> QED
          BY <4>1, <4>3, <5>2, <5>3, <5>4
      <4> QED
        BY <4>2, <4>3
    <3> QED
      BY <3>2, <3>3
  <2> QED
    BY <2>3, <2>4, <2>5
<1> QED
  BY <1>4, <1>6, <1>7, <1>8
-----------------------------------------------------------------------------
(* The newest request that everybody knows of. *)

(* What h has told everybody, request x, is beaten by nothing that was told before this tick, *)
(* and h holds it until somebody beats it aloud.                            *)
Common(h, x) ==
  /\ Near(h) /\ x > 0
  /\ \A r \in Robot \ {h} : \A d \in Told(h, r) : Fresh(h, d) \/ d.request = x
  /\ \A s \in Players \ {h} : \A r \in Robot \ {s} : \A d \in Told(s, r) :
       Fresh(s, d) \/ ~Beats(s, d.request, h, x)
  /\ request[h] = x \/ (h \in ran /\ \E g \in Players : Said(g) /\ Beats(g, request[g], h, x))
  /\ \A s \in Players : ~Near(s) => ~Beats(s, request[s], h, x)

LEMMA CommonStays ==
  ASSUME Prompt, NewsIInv, now > Informed, NEW h \in Robot, NEW x \in Nat, Common(h, x),
         (\E p \in Robot : Turn(p)) \/ Hearing
  PROVE  Common(h, x)'
<1>1. TypeOK /\ h \in Players /\ Players \subseteq Robot /\ \A s \in Robot : request[s] \in Nat
  BY ClockTypes DEF NewsIInv, HearIInv, Common, Near, Candidates, Players
<1>2. Players' = Players /\ (\A r : Near(r)' = Near(r)) /\ now' = now
  <2>1. UNCHANGED <<walk, penalized, now>>
    BY DEF Turn, Hearing
  <2> QED
    BY <2>1, NearStays
<1>3. CASE Hearing
  <2>1. /\ UNCHANGED <<request, ran, lastSend>>
        /\ \A r, s \in Robot : Told(s, r)' \subseteq Told(s, r)
    BY <1>3 DEF Hearing
  <2>2. \A r \in Robot \ {h} : \A d \in Told(h, r)' : Fresh(h, d)' \/ d.request = x
    BY <1>2, <2>1 DEF Common, Fresh
  <2>3. \A s \in Players' \ {h} : \A r \in Robot \ {s} : \A d \in Told(s, r)' :
          Fresh(s, d)' \/ ~Beats(s, d.request, h, x)
    BY <1>1, <1>2, <2>1 DEF Common, Fresh
  <2> QED
    BY <1>2, <2>1, <2>2, <2>3 DEF Common, Said, Beats
<1>4. ASSUME NEW p \in Robot, Turn(p) PROVE Common(h, x)'
  <2>1. /\ p \notin ran /\ ran' = ran \cup {p}
        /\ request'[p] = DetermineStriker(p, now + Skew[p], walk[p]).request
        /\ \A s \in Robot \ {p} : request'[s] = request[s] /\ lastSend'[s] = lastSend[s]
        /\ \A r, s \in Robot : \A d \in Told(s, r)' :
             d \in Told(s, r) \/ (s = p /\ d.sent = now + Skew[s])
    BY <1>4 DEF Turn
  <2>2. \A r \in Robot \ {h} : \A d \in Told(h, r)' : Fresh(h, d)' \/ d.request = x
    BY <1>2, <2>1 DEF Common, Fresh
  <2>3. \A s \in Players \ {h} : \A r \in Robot \ {s} : \A d \in Told(s, r)' :
          Fresh(s, d)' \/ ~Beats(s, d.request, h, x)
    BY <1>1, <1>2, <2>1 DEF Common, Fresh
  <2>4. \A g \in Players : Said(g) => g # p
    <3> SUFFICES ASSUME p \in Players, Said(p) PROVE FALSE
      OBVIOUS
    <3>1. lastSend[p] <= LastClock(p) /\ LastClock(p) < now + Skew[p] /\ LastClock(p) \in Nat
      BY <1>1, <2>1, ClockTypes DEF NewsIInv, PastOnly
    <3> QED
      BY <1>1, <3>1, ClockTypes DEF Said
  <2>5. \A g \in Players : Said(g) => Said(g)' /\ request'[g] = request[g]
    BY <1>1, <1>2, <2>1, <2>4 DEF Said
  <2>6. request'[h] = x \/ (h \in ran' /\ \E g \in Players : Said(g)' /\ Beats(g, request'[g], h, x))
    <3>1. CASE h \in ran /\ \E g \in Players : Said(g) /\ Beats(g, request[g], h, x)
      BY <2>1, <2>5, <3>1
    <3>2. CASE request[h] = x /\ (h # p \/ request'[h] = x)
      BY <2>1, <3>2
    <3>3. CASE request[h] = x /\ h = p /\ request'[h] # x
      <4>1. x > 0
        BY DEF Common
      <4>2. PICK n \in Players \ {h} : Beats(n, heard[h][n].request, h, x)
        BY <1>1, <2>1, <3>3, <4>1, WhoGivesUp
      <4>3. heard[h][n] \in Told(n, h) /\ n \in Robot
        BY <1>1 DEF Told
      <4>4. Fresh(n, heard[h][n])
        BY <4>2, <4>3 DEF Common
      <4>5. Said(n) /\ heard[h][n].request = request[n]
        BY <4>3, <4>4, ToldOfPlayer
      <4> QED
        BY <2>1, <2>5, <3>3, <4>2, <4>5
    <3> QED
      BY <3>1, <3>2, <3>3 DEF Common
  <2>7. \A s \in Players : ~Near(s) => ~Beats(s, request'[s], h, x)
    <3> SUFFICES ASSUME NEW s \in Players, ~Near(s) PROVE ~Beats(s, request'[s], h, x)
      OBVIOUS
    <3>1. ~Beats(s, request[s], h, x) /\ ~Beats(s, 0, h, x)
      BY <1>1, BeatsIsOrder DEF Common
    <3>2. request'[s] \in {0, request[s]}
      <4>1. CASE s # p
        BY <1>1, <2>1, <4>1
      <4>2. CASE s = p
        BY <2>1, <4>2, RoundDecides DEF Asks
      <4> QED
        BY <4>1, <4>2
    <3> QED
      BY <3>1, <3>2
  <2> QED
    BY <1>2, <2>2, <2>3, <2>6, <2>7 DEF Common, Beats
<1> QED
  BY <1>3, <1>4

(* q never speaks in the ticks in which h does.                            *)
Apart(q, h) ==
  /\ lastSend[q] + Skew[h] # lastSend[h] + Skew[q]
  /\ lastSend[q] + Skew[h] # lastSend[h] + Skew[q] + Age
  /\ lastSend[q] + Skew[h] + Age # lastSend[h] + Skew[q]

(* Everybody has heard h out before any newer request is told.             *)
Turns(h, x) ==
  /\ \A r \in Robot \ {h} : \A d \in Told(h, r) : d.request = x
  /\ \A q \in Players \ {h} : Beats(q, request[q], h, x) => Apart(q, h)

(* The end of a tick: what is known of the others.                         *)
LEMMA EndOfTick ==
  ASSUME Prompt, NewsIInv, now > Informed, NextTick, NEW s \in Players
  PROVE  /\ s \in Robot /\ now + Skew[s] <= lastSend[s] + SendPause /\ lastSend[s] <= now + Skew[s]
         /\ Said(s)' = FALSE
         /\ \A r \in Robot \ {s} :
              /\ Told(s, r) = {heard[r][s]} /\ Told(s, r)' = {heard[r][s]}
              /\ ~Fresh(s, heard[r][s])'
              /\ Fresh(s, heard[r][s]) <=> Said(s)
              /\ Said(s) => heard[r][s].request = request[s]
              /\ heard[r][s].request \in Nat
<1>1. TypeOK /\ HearIInv /\ s \in Robot /\ s \notin penalized /\ now \in Nat /\ Informed \in Nat
      /\ Chaos \in Nat /\ Informed >= Chaos
  BY TimesAreNumbers, PromptTimes DEF NewsIInv, HearIInv, Players
<1>2. now + Skew[s] <= lastSend[s] + SendPause
  BY <1>1 DEF NextTick, HearIInv, SendsOften
<1>3. lastSend[s] <= now + Skew[s] /\ lastSend[s] \in Nat /\ Skew[s] \in Nat
  <2>1. lastSend[s] <= LastClock(s) /\ LastClock(s) <= now + Skew[s] /\ LastClock(s) \in Nat
    BY <1>1, ClockTypes DEF NewsIInv, PastOnly
  <2> QED
    BY <1>1, <2>1, ClockTypes
<1>4. Said(s)' = FALSE
  BY <1>1, <1>3 DEF Said, NextTick
<1>5. ASSUME NEW r \in Robot \ {s}
      PROVE  /\ Told(s, r) = {heard[r][s]} /\ Told(s, r)' = {heard[r][s]}
             /\ ~Fresh(s, heard[r][s])'
             /\ Fresh(s, heard[r][s]) <=> Said(s)
             /\ Said(s) => heard[r][s].request = request[s]
             /\ heard[r][s].request \in Nat
  <2>1. Told(s, r) = {heard[r][s]} /\ heard[r][s].sent = lastSend[s]
    BY AllIsHeard DEF NextTick
  <2>2. Told(s, r)' = {heard[r][s]}
    BY <2>1 DEF NextTick, Told, UnderWay
  <2>3. ~Fresh(s, heard[r][s])'
    BY <1>1, <1>3, <2>1 DEF Fresh, NextTick
  <2>4. Fresh(s, heard[r][s]) <=> Said(s)
    BY <2>1 DEF Fresh, Said
  <2>5. heard[r][s].request \in Nat /\ (Said(s) => heard[r][s].request = request[s])
    BY <2>1, <2>4, ToldOfPlayer
  <2> QED
    BY <2>1, <2>2, <2>3, <2>4, <2>5
<1> QED
  BY <1>1, <1>2, <1>3, <1>4, <1>5

(* The newest request told in a tick becomes known to everybody, and whose is newer speaks in other ticks. *)
LEMMA SpeakerIsCommon ==
  ASSUME Prompt, NewsIInv, now > Informed, NextTick, NEW g \in Robot, Near(g), Said(g), request[g] > 0,
         \A s \in Players \ {g} : Said(s) => ~Beats(s, request[s], g, request[g]),
         \A s \in Players \ {g} : \A r \in Robot \ {s} :
           ~Said(s) => ~Beats(s, heard[r][s].request, g, request[g]),
         \A s \in Players : ~Near(s) => ~Beats(s, request[s], g, request[g])
  PROVE  Common(g, request[g])' /\ Turns(g, request[g])'
<1> DEFINE y == request[g]
<1>1. TypeOK /\ g \in Players /\ Players \subseteq Robot /\ now \in Nat
  BY TimesAreNumbers DEF NewsIInv, HearIInv, Near, Candidates, Players
<1>2. /\ Players' = Players /\ (\A r : Near(r)' = Near(r)) /\ now' = now + 1
      /\ UNCHANGED <<request, lastSend, heard>> /\ ran' = {}
  BY NearStays DEF NextTick
<1>3. \A r \in Robot \ {g} : \A d \in Told(g, r)' : d.request = y
  <2> SUFFICES ASSUME NEW r \in Robot \ {g}, NEW d \in Told(g, r)' PROVE d.request = y
    OBVIOUS
  <2> QED
    BY <1>1, EndOfTick
<1>4. ASSUME NEW s \in Players \ {g}, NEW r \in Robot \ {s}, NEW d \in Told(s, r)'
      PROVE  ~Beats(s, d.request, g, y)
  <2>1. /\ Told(s, r)' = {heard[r][s]}
        /\ Said(s) => heard[r][s].request = request[s]
    BY EndOfTick
  <2>2. d = heard[r][s] /\ (Said(s) => d.request = request[s])
    BY <2>1
  <2> QED
    BY <2>2
<1>5. \A q \in Players \ {g} : Beats(q, request[q], g, y) => Apart(q, g)'
  <2> SUFFICES ASSUME NEW q \in Players \ {g}, Beats(q, request[q], g, y) PROVE Apart(q, g)'
    OBVIOUS
  <2>1. ~Said(q)
    OBVIOUS
  <2>2. now + Skew[q] <= lastSend[q] + SendPause /\ lastSend[q] <= now + Skew[q]
    BY EndOfTick
  <2>3. /\ Skew[q] \in Nat /\ Skew[g] \in Nat /\ lastSend[q] \in Nat /\ lastSend[g] \in Nat
        /\ SendPause \in Nat /\ Age = SendPause + 1
    BY <1>1, ClockTypes, PromptTimes
  <2>4. lastSend'[q] = lastSend[q] /\ lastSend'[g] = lastSend[g]
    BY <1>2
  <2> QED
    BY <1>1, <2>1, <2>2, <2>3, <2>4 DEF Apart, Said, Age
<1>6. Turns(g, y)'
  BY <1>2, <1>3, <1>5 DEF Turns, Beats
<1>7. Common(g, y)'
  BY <1>2, <1>3, <1>4 DEF Common, Beats
<1> QED
  BY <1>2, <1>6, <1>7

LEMMA CommonTick ==
  ASSUME Prompt, NewsIInv, now > Informed, NextTick, NEW h \in Robot, NEW x \in Nat, Common(h, x)
  PROVE  \E g \in Robot, y \in Nat :
           Common(g, y)' /\ (Turns(g, y)' \/ (g = h /\ y = x /\ ~Said(h) /\ ~Turns(h, x)))
<1> DEFINE M == {g \in Players : Said(g) /\ Beats(g, request[g], h, x)}
<1>1. /\ h \in Players /\ Players \subseteq Robot /\ (\A s \in Robot : request[s] \in Nat) /\ x > 0
      /\ \A s \in Players : \A r \in Robot \ {s} : heard[r][s].request \in Nat
  <2>1. TypeOK
    BY DEF NewsIInv, HearIInv
  <2>2. \A s \in Players : \A r \in Robot \ {s} : heard[r][s].request \in Nat
    BY EndOfTick
  <2> QED
    BY <2>1, <2>2, ClockTypes DEF Common, Near, Candidates, Players
\* What was not said in this tick does not beat h.
<1>2. \A s \in Players \ {h} : \A r \in Robot \ {s} :
        ~Said(s) => ~Beats(s, heard[r][s].request, h, x)
  <2> SUFFICES ASSUME NEW s \in Players \ {h}, NEW r \in Robot \ {s}, ~Said(s)
               PROVE  ~Beats(s, heard[r][s].request, h, x)
    OBVIOUS
  <2>1. heard[r][s] \in Told(s, r) /\ ~Fresh(s, heard[r][s])
    BY EndOfTick
  <2> QED
    BY <2>1 DEF Common
<1>3. CASE M = {}
  <2>1. request[h] = x
    BY <1>3 DEF Common
  <2>2. \A s \in Players \ {h} : Said(s) => ~Beats(s, request[s], h, x)
    BY <1>3
  <2>3. CASE Said(h)
    <3>1. Near(h) /\ \A s \in Players : ~Near(s) => ~Beats(s, request[s], h, x)
      BY DEF Common
    <3>2. Common(h, request[h])' /\ Turns(h, request[h])'
      BY <1>1, <1>2, <2>1, <2>2, <2>3, <3>1, SpeakerIsCommon
    <3>3. request'[h] = x
      BY <2>1 DEF NextTick
    <3> QED
      BY <1>1, <3>2, <3>3
  <2>4. CASE ~Said(h)
    <3>1. /\ Players' = Players /\ (\A r : Near(r)' = Near(r))
          /\ UNCHANGED <<request, lastSend, heard>> /\ ran' = {}
      BY NearStays DEF NextTick
    <3>2. \A r \in Robot \ {h} : \A d \in Told(h, r)' : d.request = x
      <4> SUFFICES ASSUME NEW r \in Robot \ {h}, NEW d \in Told(h, r)' PROVE d.request = x
        OBVIOUS
      <4>1. /\ Told(h, r) = {heard[r][h]} /\ Told(h, r)' = {heard[r][h]}
            /\ Fresh(h, heard[r][h]) <=> Said(h)
        <5> HIDE DEF M
        <5> QED
          BY <1>1, EndOfTick
      <4>2. d = heard[r][h] /\ d \in Told(h, r) /\ ~Fresh(h, d)
        BY <2>4, <4>1
      <4> QED
        BY <4>2 DEF Common
    <3>3. ASSUME NEW s \in Players \ {h}, NEW r \in Robot \ {s}, NEW d \in Told(s, r)'
          PROVE  ~Beats(s, d.request, h, x)
      <4>1. d = heard[r][s] /\ (Said(s) => d.request = request[s])
        BY EndOfTick
      <4> QED
        BY <1>2, <2>2, <4>1
    <3>4. Common(h, x)'
      BY <2>1, <3>1, <3>2, <3>3 DEF Common, Beats
    <3>5. Turns(h, x) => Turns(h, x)'
      BY <3>1, <3>2 DEF Turns, Beats, Apart, Age
    <3> QED
      BY <2>4, <3>4, <3>5
  <2> QED
    BY <2>3, <2>4
<1>4. CASE M # {}
  <2>1. M \subseteq Robot /\ \A r \in M : request[r] \in Nat
    BY <1>1
  <2>2. PICK g \in M : \A o \in M : ~Beats(o, request[o], g, request[g])
    <3> HIDE DEF M
    <3> QED
      BY <1>4, <2>1, TopExists
  <2>3. g \in Players /\ Said(g) /\ Beats(g, request[g], h, x) /\ g \in Robot /\ request[g] \in Nat
    BY <1>1, <2>2
  <2>4. Near(g) /\ request[g] > 0
    <3>1. Near(g)
      BY <2>3 DEF Common
    <3> QED
      BY <1>1, <2>3, <3>1, BeatsIsOrder
  <2>5. \A s \in Players \ {g} : Said(s) => ~Beats(s, request[s], g, request[g])
    <3> SUFFICES ASSUME NEW s \in Players \ {g}, Said(s), Beats(s, request[s], g, request[g]) PROVE FALSE
      OBVIOUS
    <3>1. Beats(s, request[s], h, x)
      BY <1>1, <2>3, BeatsIsOrder
    <3> QED
      BY <2>2, <3>1
  <2>6. \A s \in Players \ {g} : \A r \in Robot \ {s} :
          ~Said(s) => ~Beats(s, heard[r][s].request, g, request[g])
    <3> SUFFICES ASSUME NEW s \in Players \ {g}, NEW r \in Robot \ {s}, ~Said(s)
                 PROVE  ~Beats(s, heard[r][s].request, g, request[g])
      OBVIOUS
    <3>1. heard[r][s].request \in Nat /\ s \in Robot
      BY <1>1
    <3>2. CASE s # h
      BY <1>1, <1>2, <2>3, <3>1, <3>2, BeatsIsOrder
    <3>3. CASE s = h
      <4>1. heard[r][s] \in Told(h, r) /\ ~Fresh(h, heard[r][s])
        BY <1>1, <3>3, EndOfTick
      <4>2. heard[r][s].request = x
        BY <3>3, <4>1 DEF Common
      <4> QED
        BY <1>1, <2>3, <3>3, <4>2, BeatsIsOrder
    <3> QED
      BY <3>2, <3>3
  <2>7. \A s \in Players : ~Near(s) => ~Beats(s, request[s], g, request[g])
    <3> SUFFICES ASSUME NEW s \in Players, ~Near(s), Beats(s, request[s], g, request[g]) PROVE FALSE
      OBVIOUS
    <3>1. Beats(s, request[s], h, x)
      BY <1>1, <2>3, BeatsIsOrder
    <3> QED
      BY <3>1 DEF Common
  <2>8. Common(g, request[g])' /\ Turns(g, request[g])'
    BY <2>3, <2>4, <2>5, <2>6, <2>7, SpeakerIsCommon
  <2>9. request'[g] = request[g]
    BY DEF NextTick
  <2> QED
    BY <2>3, <2>8, <2>9
<1> QED
  BY <1>3, <1>4

(* A near robot tells a request.                                           *)
Loud == \E s \in Players : Near(s) /\ Said(s) /\ request[s] > 0

(* A tick in which a request is told ends with one that everybody knows.   *)
LEMMA LoudTick ==
  ASSUME Prompt, NewsIInv, OldRequests, Unbeaten, now > Stage(0), NextTick, Loud
  PROVE  \E g \in Robot, y \in Nat : Common(g, y)'
<1> DEFINE L == {s \in Players : Near(s) /\ Said(s) /\ request[s] > 0}
<1>1. /\ now > Informed /\ now > Informed + Age /\ TypeOK /\ Players \subseteq Robot /\ ran = Robot
      /\ (\A s \in Robot : request[s] \in Nat)
  BY PromptTimes, TimesAreNumbers, ClockTypes DEF NewsIInv, HearIInv, Players, NextTick
<1>2. L \subseteq Robot /\ L # {} /\ \A r \in L : request[r] \in Nat
  BY <1>1 DEF Loud
<1>3. PICK g \in L : \A o \in L : ~Beats(o, request[o], g, request[g])
  <2> HIDE DEF L
  <2> QED
    BY <1>2, TopExists
<1>4. g \in Players /\ g \in Robot /\ Near(g) /\ Said(g) /\ request[g] > 0 /\ request[g] \in Nat
  BY <1>1, <1>3
<1>5. ASSUME NEW s \in Players \ {g}
      PROVE  /\ s \in Robot /\ heard[g][s] \in Told(s, g)
             /\ (Near(s) /\ Said(s)) \/ ~Beats(s, heard[g][s].request, g, request[g])
  <2>1. s \in Robot /\ heard[g][s] \in Told(s, g) /\ (Fresh(s, heard[g][s]) => Said(s))
    BY <1>1, <1>4, EndOfTick
  <2> QED
    BY <1>1, <1>4, <2>1 DEF Unbeaten
<1>6. ASSUME NEW s \in Players, ~Near(s) PROVE ~Beats(s, request[s], g, request[g])
  <2>1. s # g
    BY <1>4, <1>6
  <2>2. request[s] > 0 => heard[g][s].request = request[s]
    BY <1>1, <1>4, <1>5, <1>6, <2>1, FarIsTold
  <2>3. request[s] = 0 => ~Beats(s, request[s], g, request[g])
    BY <1>1, <1>4, BeatsIsOrder
  <2> QED
    BY <1>1, <1>5, <1>6, <2>1, <2>2, <2>3
<1>7. ASSUME NEW s \in Players \ {g}, Said(s) PROVE ~Beats(s, request[s], g, request[g])
  <2>1. request[s] = 0 => ~Beats(s, request[s], g, request[g])
    BY <1>1, <1>4, BeatsIsOrder
  <2> QED
    BY <1>1, <1>3, <1>6, <1>7, <2>1
<1>8. ASSUME NEW s \in Players \ {g}, NEW r \in Robot \ {s}, ~Said(s)
      PROVE  ~Beats(s, heard[r][s].request, g, request[g])
  <2>1. s \in Robot /\ s # g /\ s # r
    BY <1>5
  <2>2. /\ heard[r][s] \in Told(s, r) /\ heard[g][s] \in Told(s, g)
        /\ heard[r][s].sent = lastSend[s] /\ heard[g][s].sent = lastSend[s] /\ heard[r][s].sent > Noise(s)
    BY <1>1, <1>4, <2>1, AllIsHeard DEF NextTick, Told
  <2>3. heard[r][s] = heard[g][s]
    BY <1>4, <2>1, <2>2 DEF NewsIInv, SameNews
  <2> QED
    BY <1>5, <1>8, <2>3
<1>9. Common(g, request[g])'
  BY <1>1, <1>4, <1>6, <1>7, <1>8, SpeakerIsCommon
<1>10. request'[g] = request[g]
  BY DEF NextTick
<1> QED
  BY <1>4, <1>9, <1>10

(* Everybody knows of a request, so that nobody makes one.                 *)
LEMMA NobodyAsks ==
  ASSUME Prompt, NewsIInv, now > Informed, NEW h \in Robot, NEW x \in Nat, Common(h, x), Turns(h, x),
         NEW p \in Robot, p \notin ran
  PROVE  DetermineStriker(p, now + Skew[p], walk[p]).request \in {0, request[p]}
<1>1. /\ TypeOK /\ h \in Players /\ Players \subseteq Robot /\ (\A s \in Robot : request[s] \in Nat) /\ x > 0
      /\ Near(h) /\ Nobody \notin Robot
  <2>1. Nobody \notin Robot
    BY ElectionAssumption DEF Nobody, Robot
  <2> QED
    BY <2>1, ClockTypes DEF NewsIInv, HearIInv, Common, Near, Candidates, Players
<1>2. PICK n \in Players \cup {Nobody} :
        /\ Knows(p, n)
        /\ DetermineStriker(p, now + Skew[p], walk[p]).request =
             IF Asks(p, n) THEN now + Skew[p]
             ELSE IF p \in Players /\ Chosen(n) \in {p, Nobody} THEN request[p] ELSE 0
  BY RoundDecides
<1> SUFFICES ASSUME Asks(p, n) PROVE FALSE
  BY <1>2
<1>3. Seen(p, h) = x
  <2>1. CASE p = h
    BY <2>1 DEF Common, Seen
  <2>2. CASE p # h
    BY <2>2 DEF Turns, Seen, Told
  <2> QED
    BY <2>1, <2>2
<1>4. n \in Players /\ ~Beats(h, x, n, Seen(p, n)) /\ Seen(p, n) \in Nat
  BY <1>1, <1>2, <1>3, WholeTeam DEF Knows
<1>5. Near(n)
  <2>1. CASE n = h
    BY <1>1, <2>1
  <2>2. CASE n = p
    BY <2>2 DEF Asks
  <2>3. CASE n # h /\ n # p
    <3>1. Beats(n, Seen(p, n), h, x) /\ heard[p][n] \in Told(n, p) /\ Seen(p, n) = heard[p][n].request
      BY <1>1, <1>4, <2>3, BeatsIsOrder DEF Told, Seen
    <3>2. Fresh(n, heard[p][n])
      BY <1>1, <1>4, <2>3, <3>1 DEF Common
    <3>3. heard[p][n].request = request[n]
      BY <1>1, <1>4, <2>3, <3>1, <3>2, ToldOfPlayer
    <3> QED
      BY <1>4, <3>1, <3>3 DEF Common
  <2> QED
    BY <2>1, <2>2, <2>3
<1>6. Chosen(n) = n /\ n # Nobody
  BY <1>1, <1>4, <1>5 DEF Chosen, Near, Candidates
<1>7. walk[n] > walk[p] + Margin
  BY <1>6 DEF Asks
<1>8. walk[n] < walk[p] + Margin
  BY <1>5 DEF Asks, Near
<1>9. walk[n] \in Nat /\ walk[p] \in Nat /\ Margin \in Nat
  BY <1>1, <1>4, <1>5, ElectionAssumption DEF Asks, Near, Candidates, TypeOK
<1> QED
  BY <1>7, <1>8, <1>9

(* And so it remains, whoever comes to hold the newest request.           *)
LEMMA TurnsStay ==
  ASSUME Prompt, NewsIInv, now > Informed, NEW h \in Robot, NEW x \in Nat, Common(h, x), Turns(h, x),
         (\E p \in Robot : Turn(p)) \/ Hearing
  PROVE  Turns(h, x)' /\ \A s \in Robot : request'[s] \in {0, request[s]}
<1>1. /\ TypeOK /\ h \in Players /\ Players \subseteq Robot /\ x > 0
      /\ (\A s \in Robot : request[s] \in Nat) /\ Players' = Players
  <2>1. UNCHANGED <<walk, penalized>>
    BY DEF Turn, Hearing
  <2> QED
    BY <2>1, NearStays, ClockTypes DEF NewsIInv, HearIInv, Common, Near, Candidates, Players
<1>2. CASE Hearing
  BY <1>1, <1>2 DEF Hearing, Turns, Beats, Apart, Age
<1>3. ASSUME NEW p \in Robot, Turn(p)
      PROVE  Turns(h, x)' /\ \A s \in Robot : request'[s] \in {0, request[s]}
  <2> DEFINE t == now + Skew[p]
  <2>1. /\ p \notin ran /\ now' = now
        /\ request'[p] = DetermineStriker(p, t, walk[p]).request
        /\ \A s \in Robot \ {p} : request'[s] = request[s] /\ lastSend'[s] = lastSend[s]
        /\ lastSend'[p] = lastSend[p] \/ (lastSend'[p] = t /\ lastSend[p] + Age = t)
        /\ \A r, s \in Robot : \A d \in Told(s, r)' :
             \/ d \in Told(s, r)
             \/ s = p /\ lastSend'[p] = t /\ d.request = request'[s]
    BY <1>3 DEF Turn
  <2>2. \A s \in Robot : request'[s] \in {0, request[s]}
    <3>1. request'[p] \in {0, request[p]}
      BY <2>1, NobodyAsks
    <3> QED
      BY <2>1, <3>1
  <2>3. \A s \in Robot : lastSend[s] <= now + Skew[s] /\ lastSend[s] \in Nat /\ Skew[s] \in Nat
    <3> SUFFICES ASSUME NEW s \in Robot PROVE lastSend[s] <= now + Skew[s] /\ lastSend[s] \in Nat /\ Skew[s] \in Nat
      OBVIOUS
    <3>1. lastSend[s] <= LastClock(s) /\ LastClock(s) <= now + Skew[s] /\ LastClock(s) \in Nat
          /\ lastSend[s] \in Nat /\ Skew[s] \in Nat /\ now \in Nat
      BY <1>1, ClockTypes DEF NewsIInv, PastOnly
    <3> QED
      BY <3>1
  <2>4. lastSend[p] < t
    <3>1. lastSend[p] <= LastClock(p) /\ LastClock(p) < t /\ LastClock(p) \in Nat
          /\ lastSend[p] \in Nat /\ t \in Nat
      BY <1>1, <2>1, ClockTypes DEF NewsIInv, PastOnly
    <3> HIDE DEF t
    <3> QED
      BY <3>1
  <2>5. now \in Nat /\ Age \in Nat \ {0}
    BY <1>1, ClockTypes, PromptTimes
  <2>6. ASSUME h = p, lastSend'[p] = t PROVE request'[h] = x
    <3> SUFFICES ASSUME request'[h] # x PROVE FALSE
      OBVIOUS
    <3>1. request[h] = x
      BY <2>1, <2>6 DEF Common
    <3>2. PICK n \in Players \ {h} : Beats(n, heard[h][n].request, h, x)
      BY <1>1, <2>1, <2>6, <3>1, WhoGivesUp
    <3>3. heard[h][n] \in Told(n, h) /\ n \in Robot
      BY <1>1 DEF Told
    <3>4. Fresh(n, heard[h][n])
      BY <3>2, <3>3 DEF Common
    <3>5. Said(n) /\ heard[h][n].request = request[n]
      BY <3>3, <3>4, ToldOfPlayer
    <3>6. Apart(n, h)
      BY <3>2, <3>5 DEF Turns
    <3>7. lastSend[h] + Age = now + Skew[h] /\ lastSend[n] = now + Skew[n]
      BY <2>1, <2>3, <2>4, <2>6, <3>5 DEF Said
    <3> QED
      BY <2>3, <2>5, <3>3, <3>6, <3>7 DEF Apart
  <2>7. \A r \in Robot \ {h} : \A d \in Told(h, r)' : d.request = x
    BY <2>1, <2>6 DEF Turns
  <2>8. ASSUME NEW q \in Players \ {h}, Beats(q, request'[q], h, x) PROVE Apart(q, h)'
    <3>1. q \in Robot /\ q # h /\ Beats(q, request[q], h, x)
      <4>1. q \in Robot /\ ~Beats(q, 0, h, x)
        BY <1>1, BeatsIsOrder
      <4> QED
        BY <2>2, <2>8, <4>1
    <3>2. Apart(q, h)
      BY <3>1 DEF Turns
    <3>3. CASE lastSend'[q] = lastSend[q] /\ lastSend'[h] = lastSend[h]
      BY <3>2, <3>3 DEF Apart, Age
    <3>4. CASE q = p /\ lastSend'[q] # lastSend[q]
      <4>1. /\ lastSend'[q] = now + Skew[q] /\ lastSend[q] + Age = now + Skew[q]
            /\ lastSend'[h] = lastSend[h]
        BY <2>1, <3>1, <3>4
      <4>2. Age' = Age
        BY DEF Age
      <4> QED
        BY <2>3, <2>5, <3>1, <3>2, <4>1, <4>2 DEF Apart
    <3>5. CASE h = p /\ lastSend'[h] # lastSend[h]
      <4>1. /\ lastSend'[h] = now + Skew[h] /\ lastSend[h] + Age = now + Skew[h]
            /\ lastSend'[q] = lastSend[q]
        BY <2>1, <3>1, <3>5
      <4>2. Age' = Age
        BY DEF Age
      <4> QED
        BY <2>3, <2>5, <3>1, <3>2, <4>1, <4>2 DEF Apart
    <3> QED
      BY <2>1, <3>1, <3>3, <3>4, <3>5
  <2> QED
    BY <1>1, <2>2, <2>7, <2>8 DEF Turns, Beats
<1> QED
  BY <1>2, <1>3 DEF Hearing
-----------------------------------------------------------------------------
(* Somebody is heard: the fastest robot asks at the latest. *)

(* There is a request that everybody knows.                                *)
Somebody == \E h \in Robot, x \in Nat : Common(h, x)

(* Nobody near has told a request, except in this tick.                    *)
Silent ==
  \A s \in Players : Near(s) => \A r \in Robot \ {s} : \A d \in Told(s, r) :
    d.sent > Stage(0) + Skew[s] => Fresh(s, d) \/ d.request = 0

(* No candidate has less far to walk.                                      *)
Best(b) == b \in Candidates /\ \A c \in Candidates : walk[b] <= walk[c]

(* The best ones ask in their next round, and tell of it.                  *)
BestAsks ==
  \A b \in Robot : Best(b) =>
    /\ After(Stage(1), b) => request[b] > 0 \/ Loud
    /\ Said(b) \/ lastSend[b] <= Stage(1) + Skew[b]

(* Either there is such a request, or the best ones are about to make one. *)
Seeking == now > Stage(0) => Somebody \/ (Silent /\ BestAsks)

LEMMA BestIsNear ==
  ASSUME TypeOK, NEW b \in Robot, Best(b)
  PROVE  Near(b) /\ b \in Players
<1>1. b \in Candidates /\ b \in Players /\ \A c \in Candidates : walk[b] <= walk[c]
  BY DEF Best, Candidates, Players
<1>2. Margin \in Nat \ {0} /\ \A c \in Candidates : walk[c] \in Nat
  BY ElectionAssumption DEF Candidates, TypeOK
<1> QED
  BY <1>1, <1>2 DEF Near

LEMMA BestExists ==
  ASSUME TypeOK, Candidates # {}
  PROVE  \E b \in Robot : Best(b)
<1> DEFINE S == {walk[c] : c \in Candidates}
<1>1. S \subseteq Nat /\ S # {}
  <2>1. \A c \in Candidates : walk[c] \in Times /\ Times \subseteq Nat
    BY ElectionAssumption DEF Candidates, TypeOK
  <2> QED
    BY <2>1
<1>2. PICK y \in S : \A o \in S : y <= o
  <2> HIDE DEF S
  <2> QED
    BY <1>1, LeastExists
<1> QED
  BY <1>2 DEF Best, Candidates

(* A best robot that has heard of no request makes one.                    *)
LEMMA BestRound ==
  ASSUME Prompt, NewsIInv, OldRequests, now > Stage(1), Silent, NEW b \in Robot, Best(b)
  PROVE  DetermineStriker(b, now + Skew[b], walk[b]).request > 0 \/ Loud
<1> DEFINE t == now + Skew[b]
           x == DetermineStriker(b, t, walk[b]).request
<1>1. /\ TypeOK /\ Near(b) /\ b \in Players /\ b \in Candidates /\ b # Nobody
      /\ now > Informed /\ now > Informed + Age + Spread /\ now > Stage(0) + Age
      /\ Informed \in Nat /\ Age \in Nat /\ Spread \in Nat /\ Stage(0) \in Nat /\ now \in Nat
      /\ t \in Nat \ {0} /\ Skew[b] \in Nat
  <2>1. TypeOK
    BY DEF NewsIInv, HearIInv
  <2>2. b # Nobody
    BY ElectionAssumption DEF Nobody, Robot
  <2> QED
    BY <2>1, <2>2, BestIsNear, PromptTimes, ClockTypes DEF Best
<1>2. PICK n \in Players \cup {Nobody} :
        /\ Knows(b, n)
        /\ x = IF Asks(b, n) THEN t
               ELSE IF b \in Players /\ Chosen(n) \in {b, Nobody} THEN request[b] ELSE 0
  BY <1>1, RoundDecides
<1> HIDE DEF x, t
<1>3. Asks(b, n) => x > 0
  BY <1>1, <1>2
<1>4. CASE n = Nobody
  <2>1. Asks(b, n)
    BY <1>1, <1>4 DEF Asks, Chosen
  <2> QED
    BY <1>3, <2>1 DEF x, t
<1>5. CASE n = b
  <2>1. Chosen(n) = b
    BY <1>1, <1>5 DEF Chosen, Candidates
  <2>2. request[b] > 0
    BY <1>1, <1>2, <1>5 DEF Knows, Seen
  <2> QED
    BY <1>1, <1>2, <1>3, <2>1, <2>2 DEF x, t
<1>6. CASE n # Nobody /\ n # b
  <2>1. n \in Players /\ n \in Robot /\ heard[b][n] \in Told(n, b) /\ heard[b][n].request > 0
        /\ Seen(b, n) = heard[b][n].request
    BY <1>2, <1>6 DEF Players, Told, Knows, Seen
  <2>2. /\ heard[b][n] # None /\ now + Skew[n] <= heard[b][n].sent + Age /\ heard[b][n].sent \in Nat
        /\ heard[b][n].request \in Nat
        /\ Fresh(n, heard[b][n]) => Said(n) /\ heard[b][n].request = request[n]
    BY <1>1, <1>6, <2>1, ToldOfPlayer
  <2>3. Skew[n] \in Nat /\ Skew[n] <= Skew[b] + Spread
    BY <2>1, SpreadIsLargest
  <2>4. CASE Near(n)
    <3>1. heard[b][n].sent > Stage(0) + Skew[n]
      BY <1>1, <2>2, <2>3
    <3>2. Fresh(n, heard[b][n])
      BY <1>6, <2>1, <2>2, <2>4, <3>1 DEF Silent
    <3> QED
      BY <2>1, <2>2, <2>4, <3>2 DEF Loud
  <2>5. CASE ~Near(n)
    <3>1. heard[b][n].request <= Informed + Skew[n]
      BY <1>1, <1>6, <2>1, <2>2, <2>5 DEF OldRequests
    <3>2. t > Seen(b, n)
      BY <1>1, <2>1, <2>2, <2>3, <3>1 DEF t
    <3>3. CASE walk[n] = NoBall
      <4>1. Asks(b, n)
        BY <1>1, <3>2, <3>3 DEF Asks, Chosen, t
      <4> QED
        BY <1>3, <4>1 DEF x, t
    <3>4. CASE walk[n] # NoBall
      <4>1. n \in Candidates /\ Chosen(n) = n
        BY <1>6, <2>1, <3>4 DEF Candidates, Players, Chosen
      <4>2. PICK c \in Candidates : ~(walk[n] < walk[c] + Margin)
        BY <2>5, <4>1 DEF Near
      <4>3. walk[b] <= walk[c] /\ walk[b] \in Times /\ walk[n] \in Times /\ walk[c] \in Times
        BY <1>1, <4>1, <4>2 DEF Best, Candidates, TypeOK
      <4>4. /\ walk[b] \in Nat /\ walk[n] \in Nat /\ walk[c] \in Nat /\ Margin \in Nat
            /\ walk[n] # walk[b] + Margin
        BY <4>3, ElectionAssumption DEF Prompt
      <4>5. walk[n] > walk[b] + Margin
        <5>1. \A v, w, u, m \in Nat : ~(v < u + m) /\ w <= u /\ v # w + m => v > w + m
          OBVIOUS
        <5>2. ~(walk[n] < walk[c] + Margin) /\ walk[b] <= walk[c]
          BY <4>2, <4>3
        <5> QED
          BY <4>4, <5>1, <5>2
      <4>6. Asks(b, n)
        BY <1>1, <1>6, <3>2, <4>1, <4>5 DEF Asks, t
      <4> QED
        BY <1>3, <4>6 DEF x, t
    <3> QED
      BY <3>3, <3>4
  <2> QED
    BY <2>4, <2>5
<1> QED
  BY <1>4, <1>5, <1>6

LEMMA LoudStays ==
  ASSUME Prompt, NewsIInv, now > Informed, Loud, NEW p \in Robot, Turn(p)
  PROVE  Loud'
<1>1. PICK s \in Players : Near(s) /\ Said(s) /\ request[s] > 0
  BY DEF Loud
<1>2. TypeOK /\ s \in Robot /\ s \in Players' /\ Near(s)'
  <2>1. UNCHANGED <<walk, penalized>>
    BY DEF Turn
  <2> QED
    BY <1>1, <2>1, NearStays DEF NewsIInv, HearIInv, Players
<1>3. lastSend[s] <= LastClock(s) /\ (s \notin ran => LastClock(s) < now + Skew[s])
      /\ LastClock(s) \in Nat /\ now + Skew[s] \in Nat
  BY <1>2, ClockTypes DEF NewsIInv, PastOnly
<1>4. s # p
  BY <1>1, <1>3 DEF Said, Turn
<1>5. request'[s] = request[s] /\ Said(s)'
  BY <1>1, <1>2, <1>4 DEF Said, Turn
<1> QED
  BY <1>1, <1>2, <1>5 DEF Loud

LEMMA SeekingStays ==
  Prompt /\ NewsIInv /\ OldRequests /\ Unbeaten /\ Seeking /\ [Next]_vars => Seeking'
<1> SUFFICES ASSUME Prompt, NewsIInv, OldRequests, Unbeaten, Seeking, [Next]_vars, now' > Stage(0)
             PROVE  Somebody' \/ (Silent' /\ BestAsks')
  BY DEF Seeking, Stage, Informed, Age, Spread
<1>1. /\ TypeOK /\ Informed \in Nat /\ now \in Nat /\ Age \in Nat \ {0} /\ Spread \in Nat /\ Stage(0) \in Nat
      /\ Stage(0) = Informed + Age + Spread /\ Stage(1) = Stage(0) + Age /\ Players \subseteq Robot
      /\ \A s \in Robot : Skew[s] \in Nat /\ lastSend[s] \in Nat /\ request[s] \in Nat
  BY PromptTimes, TimesAreNumbers, ClockTypes DEF NewsIInv, HearIInv, Players
<1>2. Stage(0)' = Stage(0) /\ Stage(1)' = Stage(1)
  BY DEF Stage, Informed, Age, Spread
<1>3. CASE now <= Stage(0)
  <2>1. /\ now = Stage(0) /\ now' = now + 1 /\ ran' = {} /\ UNCHANGED <<penalized, walk, lastSend>>
        /\ \A s \in Robot : lastSend[s] <= Stage(0) + Skew[s]
        /\ \A s \in Robot : \A r \in Robot \ {s} : \A d \in Told(s, r)' : d.sent <= Stage(0) + Skew[s]
    BY <1>1, <1>3, TickIsOver
  <2>2. Silent'
    <3> SUFFICES ASSUME NEW s \in Players', NEW r \in Robot \ {s}, NEW d \in Told(s, r)',
                        d.sent > Stage(0) + Skew[s]
                 PROVE  FALSE
      BY <1>2 DEF Silent
    <3>1. s \in Robot /\ d.sent <= Stage(0) + Skew[s]
      BY <2>1 DEF Players
    <3>2. d.sent \in Nat
      <4>1. TypeOK' /\ NewsIInv'
        BY NextTypes, NewsInductive, <1>1
      <4>2. d \in Message \cup {None}
        BY <4>1, <3>1 DEF TypeOK, Told, UnderWay
      <4> QED
        BY <4>2 DEF Message, None
    <3> QED
      BY <1>1, <3>1, <3>2
  <2>3. BestAsks'
    BY <1>1, <1>2, <2>1 DEF BestAsks, After
  <2> QED
    BY <2>2, <2>3
<1>4. CASE now > Stage(0)
  <2>1. now > Informed /\ now > Informed + Age
    BY <1>1, <1>4
  <2>2. (\E p \in Robot : Turn(p)) \/ Hearing \/ NextTick
    BY <2>1, QuietSteps
  <2>3. CASE Somebody
    BY <2>1, <2>2, <2>3, CommonStays, CommonTick DEF Somebody
  <2>4. Players' = Players /\ (\A r : Near(r)' = Near(r)) /\ \A b : Best(b)' = Best(b)
    <3>1. UNCHANGED <<walk, penalized>>
      BY <2>2 DEF Turn, Hearing, NextTick
    <3> QED
      BY <3>1, NearStays DEF Best, Candidates
  <2>5. CASE Silent /\ BestAsks /\ Hearing
    <3>1. Silent'
      BY <1>1, <1>2, <2>4, <2>5 DEF Silent, Hearing, Fresh
    <3>2. Loud' = Loud
      BY <2>4, <2>5 DEF Loud, Hearing, Said
    <3>3. BestAsks'
      BY <1>2, <2>4, <2>5, <3>2 DEF BestAsks, Hearing, Said, After
    <3> QED
      BY <3>1, <3>3
  <2>6. CASE Silent /\ BestAsks /\ NextTick
    <3> SUFFICES ASSUME ~Loud PROVE Silent' /\ BestAsks'
      BY <1>4, <2>6, LoudTick DEF Somebody
    <3>1. Silent'
      <4> SUFFICES ASSUME NEW s \in Players, Near(s), NEW r \in Robot \ {s}, NEW d \in Told(s, r)',
                          d.sent > Stage(0) + Skew[s]
                   PROVE  d.request = 0
        BY <1>2, <2>4 DEF Silent
      <4>1. /\ d = heard[r][s] /\ d \in Told(s, r) /\ d.request \in Nat
            /\ Fresh(s, d) => Said(s) /\ d.request = request[s]
        BY <2>1, <2>6, EndOfTick
      <4>2. Fresh(s, d) => d.request = 0
        BY <4>1 DEF Loud
      <4> QED
        BY <2>6, <4>1, <4>2 DEF Silent
    <3>2. BestAsks'
      <4> SUFFICES ASSUME NEW b \in Robot, Best(b)
                   PROVE  /\ After(Stage(1), b)' => request'[b] > 0
                          /\ lastSend'[b] <= Stage(1) + Skew[b]
        BY <1>2, <2>4 DEF BestAsks
      <4>1. /\ now' = now + 1 /\ ran' = {} /\ ran = Robot /\ request' = request /\ lastSend' = lastSend
        BY <2>6 DEF NextTick
      <4>2. now > Stage(1) => request[b] > 0
        BY <2>6, <4>1 DEF BestAsks, After
      <4>3. After(Stage(1), b)' => request'[b] > 0
        BY <1>1, <1>2, <4>1, <4>2 DEF After
      <4>4. lastSend[b] <= Stage(1) + Skew[b]
        <5> SUFFICES ASSUME Said(b), now > Stage(1) PROVE FALSE
          BY <1>1, <2>6 DEF BestAsks, Said
        <5> QED
          BY <1>1, <4>2, BestIsNear DEF Loud
      <4> QED
        BY <4>1, <4>3, <4>4
    <3> QED
      BY <3>1, <3>2
  <2>7. ASSUME Silent, BestAsks, NEW p \in Robot, Turn(p)
        PROVE  Silent' /\ BestAsks'
    <3>1. /\ p \notin ran /\ ran' = ran \cup {p} /\ now' = now
          /\ request'[p] = DetermineStriker(p, now + Skew[p], walk[p]).request
          /\ \A s \in Robot \ {p} : request'[s] = request[s] /\ lastSend'[s] = lastSend[s]
          /\ lastSend'[p] = lastSend[p] \/ lastSend'[p] = now + Skew[p]
          /\ \A r, s \in Robot : \A d \in Told(s, r)' :
               d \in Told(s, r) \/ (s = p /\ d.sent = now + Skew[s])
      BY <2>7 DEF Turn
    <3>2. Silent'
      BY <1>1, <1>2, <2>4, <2>7, <3>1 DEF Silent, Fresh
    <3>3. Loud => Loud'
      BY <2>1, <2>7, LoudStays
    <3>4. ASSUME NEW b \in Robot, Best(b)
          PROVE  /\ After(Stage(1), b)' => request'[b] > 0 \/ Loud'
                 /\ Said(b)' \/ lastSend'[b] <= Stage(1) + Skew[b]
      <4>1. CASE b # p
        <5>1. After(Stage(1), b)' => After(Stage(1), b)
          BY <1>2, <3>1, <4>1 DEF After
        <5> QED
          BY <2>7, <3>1, <3>3, <3>4, <4>1, <5>1 DEF BestAsks, Said
      <4>2. CASE b = p
        <5>1. After(Stage(1), b)' => now > Stage(1)
          BY <1>2, <3>1 DEF After
        <5>2. now > Stage(1) => request'[b] > 0 \/ Loud
          BY <2>7, <3>1, <3>4, <4>2, BestRound
        <5>3. Said(b)' \/ lastSend'[b] <= Stage(1) + Skew[b]
          BY <2>7, <3>1, <3>4, <4>2 DEF BestAsks, Said
        <5> QED
          BY <3>3, <5>1, <5>2, <5>3
      <4> QED
        BY <4>1, <4>2
    <3> QED
      BY <1>2, <2>4, <3>2, <3>4 DEF BestAsks
  <2> QED
    BY <1>4, <2>2, <2>3, <2>5, <2>6, <2>7 DEF Seeking
<1> QED
  BY <1>1, <1>3, <1>4
-----------------------------------------------------------------------------
(* In the end nobody asks any more. *)

(* There is a request that everybody knows, and has heard out a round of messages later. *)
Convened ==
  now > Stage(2) => Candidates = {} \/ \E h \in Robot, x \in Nat :
    /\ Common(h, x)
    /\ Turns(h, x) \/ (now <= Stage(3) /\ (Said(h) \/ lastSend[h] <= Stage(2) + Skew[h]))

LEMMA ConvenedStays ==
  Prompt /\ NewsIInv /\ OldRequests /\ Unbeaten /\ Seeking /\ Convened /\ [Next]_vars => Convened'
<1>0. Stage(2)' = Stage(2) /\ Stage(3)' = Stage(3)
  BY DEF Stage, Informed, Age, Spread
<1> SUFFICES ASSUME Prompt, NewsIInv, OldRequests, Unbeaten, Seeking, Convened, [Next]_vars,
                    now' > Stage(2), Candidates' # {}
             PROVE  \E h \in Robot, x \in Nat :
                      /\ Common(h, x)'
                      /\ \/ Turns(h, x)'
                         \/ now' <= Stage(3) /\ (Said(h)' \/ lastSend'[h] <= Stage(2) + Skew[h])
  BY <1>0, Zenon DEF Convened
<1>1. /\ TypeOK /\ Informed \in Nat /\ now \in Nat /\ Age \in Nat \ {0} /\ Spread \in Nat
      /\ SendPause \in Nat /\ Age = SendPause + 1
      /\ Stage(0) \in Nat /\ Stage(1) \in Nat /\ Stage(2) \in Nat /\ Stage(3) \in Nat
      /\ Stage(0) = Informed + Age + Spread /\ Stage(1) = Stage(0) + Age
      /\ Stage(2) = Stage(1) + Age /\ Stage(3) = Stage(2) + Age /\ Players \subseteq Robot
      /\ \A s \in Robot : Skew[s] \in Nat /\ lastSend[s] \in Nat /\ request[s] \in Nat
  BY PromptTimes, TimesAreNumbers, ClockTypes DEF NewsIInv, HearIInv, Players
<1>2. now' \in {now, now + 1}
  BY DEF Next, Proceed, Receive, Referee, Tick, Done, vars
<1>3. now > Stage(1)
  BY <1>1, <1>2
<1>4. now > Informed /\ now > Stage(0)
  BY <1>1, <1>3
<1>5. (\E p \in Robot : Turn(p)) \/ Hearing \/ NextTick
  BY <1>4, QuietSteps
<1>6. Candidates' = Candidates /\ \A b : Best(b)' = Best(b)
  <2>1. UNCHANGED <<walk, penalized>>
    BY <1>5 DEF Turn, Hearing, NextTick
  <2> QED
    BY <2>1, NearStays DEF Best, Candidates
<1>7. CASE now <= Stage(2)
  <2>1. /\ now = Stage(2) /\ now' = now + 1 /\ UNCHANGED lastSend
        /\ \A s \in Robot : lastSend[s] <= Stage(2) + Skew[s]
    BY <1>1, <1>7, TickIsOver
  <2>2. NextTick
    BY <1>1, <1>5, <2>1 DEF Turn, Hearing
  <2>3. Somebody'
    <3> SUFFICES ASSUME ~Somebody' PROVE FALSE
      OBVIOUS
    <3>1. Seeking' /\ now' > Stage(0)'
      BY <1>1, <2>1, SeekingStays DEF Stage, Informed, Age, Spread
    <3>2. BestAsks'
      BY <3>1 DEF Seeking
    <3>3. PICK b \in Robot : Best(b)
      BY <1>1, <1>6, BestExists
    <3>4. Said(b)' \/ lastSend'[b] <= Stage(1)' + Skew[b]
      BY <1>6, <3>2, <3>3 DEF BestAsks
    <3>5. b \in Players
      BY <1>1, <3>3, BestIsNear
    <3>6. ~Said(b)' /\ now + Skew[b] <= lastSend[b] + SendPause
      BY <1>4, <2>2, <3>5, EndOfTick
    <3>7. Stage(1)' = Stage(1)
      BY DEF Stage, Informed, Age, Spread
    <3> QED
      BY <1>1, <2>1, <3>4, <3>6, <3>7
  <2>4. now' <= Stage(3)
    BY <1>1, <2>1
  <2> QED
    BY <2>1, <2>3, <2>4 DEF Somebody
<1>8. CASE now > Stage(2)
  <2>1. PICK h \in Robot, x \in Nat :
          /\ Common(h, x)
          /\ Turns(h, x) \/ (now <= Stage(3) /\ (Said(h) \/ lastSend[h] <= Stage(2) + Skew[h]))
    BY <1>6, <1>8 DEF Convened
  <2>2. CASE NextTick
    <3>1. PICK g \in Robot, y \in Nat :
            Common(g, y)' /\ (Turns(g, y)' \/ (g = h /\ y = x /\ ~Said(h) /\ ~Turns(h, x)))
      BY <1>4, <2>1, <2>2, CommonTick
    <3>2. CASE Turns(g, y)'
      BY <3>1, <3>2
    <3>3. CASE ~Turns(g, y)'
      <4>1. /\ g = h /\ now <= Stage(3) /\ lastSend[h] <= Stage(2) + Skew[h]
            /\ now' = now + 1 /\ lastSend' = lastSend
        BY <2>1, <2>2, <3>1, <3>3 DEF NextTick
      <4>2. h \in Players
        BY <2>1 DEF Common, Near, Candidates, Players
      <4>3. now + Skew[h] <= lastSend[h] + SendPause
        BY <1>4, <2>2, <4>2, EndOfTick
      <4>4. now' <= Stage(3)
        BY <1>1, <4>1, <4>3
      <4> QED
        BY <3>1, <4>1, <4>4
    <3> QED
      BY <3>2, <3>3
  <2>3. CASE (\E p \in Robot : Turn(p)) \/ Hearing
    <3>1. Common(h, x)' /\ now' = now
      BY <1>4, <2>1, <2>3, CommonStays DEF Turn, Hearing
    <3>2. Turns(h, x) => Turns(h, x)'
      BY <1>4, <2>1, <2>3, TurnsStay
    <3>3. lastSend'[h] = lastSend[h] \/ Said(h)'
      BY <2>3 DEF Turn, Hearing, Said
    <3>4. Said(h) /\ lastSend'[h] = lastSend[h] => Said(h)'
      BY <3>1 DEF Said
    <3> QED
      BY <2>1, <3>1, <3>2, <3>3, <3>4
  <2> QED
    BY <1>5, <2>2, <2>3
<1> QED
  BY <1>1, <1>7, <1>8

(* No request is newer than that.                                          *)
NoAsk == now > Stage(3) /\ Candidates # {} => \A q \in Players : request[q] <= Stage(3) + Skew[q]

LEMMA NoAskStays == Prompt /\ NewsIInv /\ Convened /\ NoAsk /\ [Next]_vars => NoAsk'
<1> SUFFICES ASSUME Prompt, NewsIInv, Convened, NoAsk, [Next]_vars,
                    now' > Stage(3), Candidates' # {}, NEW q \in Players'
             PROVE  request'[q] <= Stage(3) + Skew[q]
  BY DEF NoAsk, Stage, Informed, Age, Spread
<1>1. /\ TypeOK /\ now \in Nat /\ Informed \in Nat /\ Stage(2) \in Nat /\ Stage(3) \in Nat
      /\ now > Stage(3) => now > Stage(2) /\ now > Informed
      /\ q \in Robot /\ request[q] \in Nat /\ Skew[q] \in Nat
  BY PromptTimes, TimesAreNumbers, ClockTypes DEF NewsIInv, HearIInv, Players
<1>2. CASE now <= Stage(3)
  BY <1>1, <1>2, TickIsOver
<1>3. CASE now > Stage(3)
  <2>1. (\E p \in Robot : Turn(p)) \/ Hearing \/ NextTick
    BY <1>1, <1>3, QuietSteps
  <2>2. Players' = Players /\ Candidates' = Candidates
    <3>1. UNCHANGED <<walk, penalized>>
      BY <2>1 DEF Turn, Hearing, NextTick
    <3> QED
      BY <3>1, NearStays
  <2>3. PICK h \in Robot, x \in Nat : Common(h, x) /\ Turns(h, x)
    BY <1>1, <1>3, <2>2 DEF Convened
  <2>4. request'[q] \in {0, request[q]}
    <3>1. CASE NextTick
      BY <3>1 DEF NextTick
    <3>2. CASE (\E p \in Robot : Turn(p)) \/ Hearing
      BY <1>1, <1>3, <2>3, <3>2, TurnsStay
    <3> QED
      BY <2>1, <3>1, <3>2
  <2>5. request[q] <= Stage(3) + Skew[q]
    BY <1>3, <2>2 DEF NoAsk
  <2> QED
    BY <1>1, <2>4, <2>5
<1> QED
  BY <1>1, <1>2, <1>3

(* The request of h is known to everybody, and nobody holds or remembers one that beats it. *)
Fixed(h) ==
  /\ Near(h) /\ request[h] > 0
  /\ \A r \in Robot \ {h} : \A d \in Told(h, r) : d.request = request[h]
  /\ \A q \in Players \ {h} : ~Beats(q, request[q], h, request[h])
  /\ \A q \in Players \ {h} : \A o \in Robot \ {q} : \A d \in Told(q, o) :
       ~Beats(q, d.request, h, request[h])

(* Every round names the robot whose request is fixed, and changes nothing. *)
LEMMA FixedNames ==
  ASSUME Prompt, NewsIInv, now > Informed, NEW h \in Robot, Fixed(h), NEW p \in Robot
  PROVE  LET outcome == DetermineStriker(p, now + Skew[p], walk[p])
         IN  outcome.striker = h /\ outcome.request = IF p = h THEN request[h] ELSE 0
<1>1. /\ TypeOK /\ h \in Players /\ Players \subseteq Robot /\ (\A s \in Robot : request[s] \in Nat)
      /\ Near(h) /\ Nobody \notin Robot /\ request[h] > 0
  <2>1. Nobody \notin Robot
    BY ElectionAssumption DEF Nobody, Robot
  <2> QED
    BY <2>1, ClockTypes DEF NewsIInv, HearIInv, Fixed, Near, Candidates, Players
<1>2. PICK n \in Players \cup {Nobody} :
        /\ Knows(p, n)
        /\ DetermineStriker(p, now + Skew[p], walk[p]).request =
             IF Asks(p, n) THEN now + Skew[p]
             ELSE IF p \in Players /\ Chosen(n) \in {p, Nobody} THEN request[p] ELSE 0
        /\ DetermineStriker(p, now + Skew[p], walk[p]).striker = IF Asks(p, n) THEN p ELSE Chosen(n)
  BY RoundDecides
<1>3. Seen(p, h) = request[h]
  <2>1. CASE p = h
    BY <2>1 DEF Seen
  <2>2. CASE p # h
    BY <2>2 DEF Fixed, Seen, Told
  <2> QED
    BY <2>1, <2>2
<1>4. n \in Players /\ ~Beats(h, request[h], n, Seen(p, n)) /\ Seen(p, n) \in Nat
  BY <1>1, <1>2, <1>3, WholeTeam DEF Knows
<1>5. n = h
  <2> SUFFICES ASSUME n # h PROVE FALSE
    OBVIOUS
  <2>1. Beats(n, Seen(p, n), h, request[h])
    BY <1>1, <1>4, BeatsIsOrder
  <2> QED
    BY <1>4, <2>1 DEF Fixed, Seen, Told
<1>6. Chosen(n) = h
  BY <1>1, <1>5 DEF Chosen, Near, Candidates
<1>7. ~Asks(p, n)
  <2> SUFFICES ASSUME Asks(p, n) PROVE FALSE
    OBVIOUS
  <2>1. walk[h] > walk[p] + Margin /\ p \in Candidates
    BY <1>1, <1>6 DEF Asks, Near
  <2>2. walk[h] < walk[p] + Margin
    BY <1>1, <2>1 DEF Near
  <2>3. walk[h] \in Nat /\ walk[p] \in Nat /\ Margin \in Nat
    BY <1>1, <2>1, ElectionAssumption DEF Near, Candidates, TypeOK
  <2> QED
    BY <2>1, <2>2, <2>3
<1>8. h # Nobody
  BY <1>1
<1> QED
  BY <1>1, <1>2, <1>6, <1>7, <1>8

LEMMA FixedStays ==
  ASSUME Prompt, NewsIInv, now > Informed, NEW h \in Robot, Fixed(h), [Next]_vars
  PROVE  Fixed(h)'
<1>1. TypeOK /\ h \in Players /\ Players \subseteq Robot /\ \A s \in Robot : request[s] \in Nat
  BY ClockTypes DEF NewsIInv, HearIInv, Fixed, Near, Candidates, Players
<1>2. (\E p \in Robot : Turn(p)) \/ Hearing \/ NextTick
  BY QuietSteps
<1>3. Players' = Players /\ (\A r : Near(r)' = Near(r))
  <2>1. UNCHANGED <<walk, penalized>>
    BY <1>2 DEF Turn, Hearing, NextTick
  <2> QED
    BY <2>1, NearStays
<1>4. request'[h] = request[h] /\ \A s \in Robot : request'[s] \in {0, request[s]}
  <2>1. CASE Hearing \/ NextTick
    BY <2>1 DEF Hearing, NextTick
  <2>2. ASSUME NEW p \in Robot, Turn(p)
        PROVE  request'[h] = request[h] /\ \A s \in Robot : request'[s] \in {0, request[s]}
    <3>1. request'[p] = IF p = h THEN request[h] ELSE 0
      BY <2>2, FixedNames DEF Turn
    <3>2. \A s \in Robot \ {p} : request'[s] = request[s]
      BY <2>2 DEF Turn
    <3> QED
      BY <3>1, <3>2
  <2> QED
    BY <1>2, <2>1, <2>2
<1>5. \A r, s \in Robot : \A d \in Told(s, r)' : d \in Told(s, r) \/ d.request = request'[s]
  BY <1>2 DEF Turn, Hearing, NextTick, Told, UnderWay
<1>6. \A q \in Players \ {h} : ~Beats(q, request'[q], h, request[h])
  <2> SUFFICES ASSUME NEW q \in Players \ {h} PROVE ~Beats(q, request'[q], h, request[h])
    OBVIOUS
  <2>1. ~Beats(q, 0, h, request[h]) /\ ~Beats(q, request[q], h, request[h])
    BY <1>1, BeatsIsOrder DEF Fixed
  <2> QED
    BY <1>1, <1>4, <2>1
<1>7. \A r \in Robot \ {h} : \A d \in Told(h, r)' : d.request = request[h]
  BY <1>4, <1>5 DEF Fixed
<1>8. \A q \in Players \ {h} : \A o \in Robot \ {q} : \A d \in Told(q, o)' :
        ~Beats(q, d.request, h, request[h])
  BY <1>1, <1>5, <1>6 DEF Fixed
<1>9. Near(h)' /\ request'[h] > 0
  BY <1>3, <1>4 DEF Fixed
<1> QED
  BY <1>3, <1>4, <1>6, <1>7, <1>8, <1>9 DEF Fixed, Beats

(* Another round of messages later the others have given up theirs, and told so. *)
FixedInTime == now > Stage(4) => Candidates = {} \/ \E h \in Robot : Fixed(h)

LEMMA FixedInTimeStays ==
  Prompt /\ NewsIInv /\ Convened /\ NoAsk /\ FixedInTime /\ [Next]_vars => FixedInTime'
<1> SUFFICES ASSUME Prompt, NewsIInv, Convened, NoAsk, FixedInTime, [Next]_vars,
                    now' > Stage(4), Candidates' # {}
             PROVE  \E h \in Robot : Fixed(h)'
  BY DEF FixedInTime, Stage, Informed, Age, Spread
<1>1. /\ TypeOK /\ now \in Nat /\ Informed \in Nat /\ Stage(2) \in Nat /\ Stage(3) \in Nat /\ Stage(4) \in Nat
      /\ Age = SendPause + 1 /\ SendPause \in Nat /\ Stage(4) = Stage(3) + Age
      /\ now >= Stage(4) => now > Stage(3) /\ now > Stage(2) /\ now > Informed
      /\ Players \subseteq Robot
      /\ \A s \in Robot : Skew[s] \in Nat /\ lastSend[s] \in Nat /\ request[s] \in Nat
  BY PromptTimes, TimesAreNumbers, ClockTypes DEF NewsIInv, HearIInv, Players
<1>2. now' \in {now, now + 1}
  BY DEF Next, Proceed, Receive, Referee, Tick, Done, vars
<1>3. now >= Stage(4)
  BY <1>1, <1>2
<1>4. (\E p \in Robot : Turn(p)) \/ Hearing \/ NextTick
  BY <1>1, <1>3, QuietSteps
<1>5. Players' = Players /\ Candidates' = Candidates /\ (\A r : Near(r)' = Near(r))
  <2>1. UNCHANGED <<walk, penalized>>
    BY <1>4 DEF Turn, Hearing, NextTick
  <2> QED
    BY <2>1, NearStays
<1>6. CASE now > Stage(4)
  BY <1>1, <1>3, <1>5, <1>6, FixedStays DEF FixedInTime
<1>7. CASE now <= Stage(4)
  <2>1. now' = now + 1
    BY <1>1, <1>7, TickIsOver
  <2>2. NextTick
    BY <1>1, <1>4, <2>1 DEF Turn, Hearing
  <2>3. PICK k \in Robot, z \in Nat : Common(k, z)
    BY <1>1, <1>3, <1>5 DEF Convened
  <2>4. PICK h \in Robot, x \in Nat : Common(h, x)'
    BY <1>1, <1>3, <2>2, <2>3, CommonTick
  <2>5. /\ request' = request /\ lastSend' = lastSend /\ heard' = heard /\ ran' = {}
        /\ request[h] = x /\ x > 0 /\ Near(h)
    BY <1>5, <2>2, <2>4 DEF NextTick, Common
  <2>6. \A r \in Robot \ {h} : \A d \in Told(h, r)' : d.request = x
    <3> SUFFICES ASSUME NEW r \in Robot \ {h}, NEW d \in Told(h, r)' PROVE d.request = x
      OBVIOUS
    <3>1. h \in Players
      BY <2>5 DEF Near, Candidates, Players
    <3>2. d = heard[r][h] /\ ~Fresh(h, heard[r][h])'
      BY <1>1, <1>3, <2>2, <3>1, EndOfTick
    <3>3. ~Fresh(h, d)'
      BY <2>5, <3>2 DEF Fresh
    <3> QED
      BY <2>4, <3>3 DEF Common
  <2>7. ASSUME NEW q \in Players \ {h}, NEW o \in Robot \ {q}, NEW d \in Told(q, o)'
        PROVE  ~Beats(q, d.request, h, x) /\ d = heard[o][q]
    <3>1. d = heard[o][q] /\ ~Fresh(q, heard[o][q])'
      BY <1>1, <1>3, <2>2, EndOfTick
    <3>2. ~Fresh(q, d)'
      BY <2>5, <3>1 DEF Fresh
    <3> QED
      BY <1>5, <2>4, <3>1, <3>2 DEF Common, Beats
  <2>8. ASSUME NEW q \in Players \ {h} PROVE ~Beats(q, request[q], h, x)
    <3>1. CASE request[q] = 0
      BY <1>1, <2>5, <3>1, BeatsIsOrder
    <3>2. CASE request[q] > 0
      <4>1. /\ q \in Robot /\ q # h /\ heard[h][q] \in Told(q, h)
            /\ heard[h][q].sent = lastSend[q] /\ heard[h][q] # None
        BY <1>1, <1>3, <2>2, AllIsHeard DEF NextTick, Told
      <4>2. request[q] <= Stage(3) + Skew[q] /\ now + Skew[q] <= lastSend[q] + SendPause
        BY <1>1, <1>3, <1>5, <2>2, EndOfTick DEF NoAsk
      <4>3. heard[h][q].sent >= request[q]
        BY <1>1, <1>3, <4>1, <4>2
      <4>4. heard[h][q].request = request[q]
        BY <3>2, <4>1, <4>3 DEF NewsIInv, RequestIsTold
      <4>5. heard[h][q] \in Told(q, h)'
        BY <2>5 DEF Told
      <4> QED
        BY <2>7, <4>1, <4>4, <4>5
    <3> QED
      BY <1>1, <3>1, <3>2
  <2>9. Fixed(h)'
    BY <1>5, <2>5, <2>6, <2>7, <2>8 DEF Fixed, Beats
  <2> QED
    BY <2>9
<1> QED
  BY <1>1, <1>6, <1>7

(* And the round after it names the one striker.                           *)
Named ==
  \A r \in Robot : After(Stage(4), r) =>
    \/ Candidates = {} /\ striker[r] = Nobody
    \/ \E h \in Robot : Fixed(h) /\ striker[r] = h

LEMMA NobodyIsNamed ==
  ASSUME Prompt, NewsIInv, now > Informed, NEW p \in Robot, Candidates = {}
  PROVE  DetermineStriker(p, now + Skew[p], walk[p]).striker = Nobody
<1>1. PICK n \in Players \cup {Nobody} :
        DetermineStriker(p, now + Skew[p], walk[p]).striker = IF Asks(p, n) THEN p ELSE Chosen(n)
  BY RoundDecides
<1>2. ~Asks(p, n)
  BY DEF Asks, Near
<1>3. Chosen(n) = Nobody
  BY DEF Chosen, Candidates, Players
<1> QED
  BY <1>1, <1>2, <1>3

LEMMA NamedStay == Prompt /\ NewsIInv /\ FixedInTime /\ Named /\ [Next]_vars => Named'
<1>0. Stage(4)' = Stage(4)
  BY DEF Stage, Informed, Age, Spread
<1> SUFFICES ASSUME Prompt, NewsIInv, FixedInTime, Named, [Next]_vars, NEW r \in Robot, After(Stage(4), r)'
             PROVE  \/ Candidates' = {} /\ striker'[r] = Nobody
                    \/ \E h \in Robot : Fixed(h)' /\ striker'[r] = h
  BY Zenon DEF Named
<1>1. /\ now \in Nat /\ Informed \in Nat /\ Stage(4) \in Nat /\ (now > Stage(4) => now > Informed)
      /\ now' > Stage(4) /\ (r \in ran' \/ now' > Stage(4) + 1)
  BY <1>0, PromptTimes, TimesAreNumbers DEF NewsIInv, HearIInv, After
<1>2. now > Stage(4)
  <2> SUFFICES ASSUME now <= Stage(4) PROVE FALSE
    BY <1>1
  <2> QED
    BY <1>1, TickIsOver
<1>3. (\E p \in Robot : Turn(p)) \/ Hearing \/ NextTick
  BY <1>1, <1>2, QuietSteps
<1>4. Candidates' = Candidates
  <2>1. UNCHANGED <<walk, penalized>>
    BY <1>3 DEF Turn, Hearing, NextTick
  <2> QED
    BY <2>1, NearStays
<1>5. CASE After(Stage(4), r) /\ striker'[r] = striker[r]
  <2>1. CASE Candidates = {} /\ striker[r] = Nobody
    BY <1>4, <1>5, <2>1
  <2>2. ASSUME NEW h \in Robot, Fixed(h), striker[r] = h PROVE \E k \in Robot : Fixed(k)' /\ striker'[r] = k
    BY <1>1, <1>2, <1>5, <2>2, FixedStays
  <2> QED
    BY <1>5, <2>1, <2>2 DEF Named
<1>6. ASSUME NEW p \in Robot, Turn(p), r = p
      PROVE  \/ Candidates' = {} /\ striker'[r] = Nobody
             \/ \E h \in Robot : Fixed(h)' /\ striker'[r] = h
  <2>1. striker'[r] = DetermineStriker(r, now + Skew[r], walk[r]).striker
    BY <1>6 DEF Turn
  <2>2. CASE Candidates = {}
    BY <1>1, <1>2, <1>4, <2>1, <2>2, NobodyIsNamed
  <2>3. CASE Candidates # {}
    <3>1. PICK h \in Robot : Fixed(h)
      BY <1>2, <2>3 DEF FixedInTime
    <3>2. Fixed(h)'
      BY <1>1, <1>2, <3>1, FixedStays
    <3>3. striker'[r] = h
      BY <1>1, <1>2, <2>1, <3>1, FixedNames
    <3> QED
      BY <3>2, <3>3
  <2> QED
    BY <2>2, <2>3
<1>7. ASSUME NEW p \in Robot, Turn(p), r # p
      PROVE  After(Stage(4), r) /\ striker'[r] = striker[r]
  BY <1>1, <1>7 DEF Turn, After
<1>8. Hearing \/ NextTick => After(Stage(4), r) /\ striker'[r] = striker[r]
  BY <1>1, <1>2 DEF Hearing, NextTick, After
<1> QED
  BY <1>3, <1>5, <1>6, <1>7, <1>8

(* What holds in every state, for any number of robots.                    *)
TeamIInv ==
  /\ NewsIInv /\ OldRequests /\ Unbeaten /\ Seeking
  /\ Convened /\ NoAsk /\ FixedInTime /\ Named

LEMMA InitTeam == Prompt /\ Init => TeamIInv
<1> SUFFICES ASSUME Prompt, Init PROVE TeamIInv
  OBVIOUS
<1>1. now = SendPause + 1 /\ NewsIInv
  BY InitNews DEF Init
<1>2. /\ now \in Nat /\ now <= Informed /\ now <= Stage(0) /\ now <= Stage(2)
      /\ now <= Stage(3) /\ now <= Stage(4)
      /\ Informed \in Nat /\ Stage(0) \in Nat /\ Stage(2) \in Nat /\ Stage(3) \in Nat /\ Stage(4) \in Nat
  BY <1>1, PromptTimes, ElectionAssumption
<1>3. ~(now > Informed) /\ ~(now > Stage(0)) /\ ~(now > Stage(2)) /\ ~(now > Stage(3)) /\ ~(now > Stage(4))
  BY <1>2
<1> QED
  BY <1>1, <1>3 DEF TeamIInv, OldRequests, Unbeaten, Seeking, Convened, NoAsk, FixedInTime, Named, After

LEMMA TeamInductive == Prompt /\ TeamIInv /\ [Next]_vars => TeamIInv'
BY NewsInductive, OldRequestsStay, UnbeatenStays, SeekingStays, ConvenedStays, NoAskStays,
   FixedInTimeStays, NamedStay DEF TeamIInv

LEMMA OnlyOneIsFixed ==
  ASSUME Prompt, TypeOK, NEW h \in Robot, NEW k \in Robot, Fixed(h), Fixed(k)
  PROVE  h = k
<1> SUFFICES ASSUME h # k PROVE FALSE
  OBVIOUS
<1>1. request[h] \in Nat /\ request[k] \in Nat /\ h \in Players /\ k \in Players
  BY DEF TypeOK, Fixed, Near, Candidates, Players
<1>2. ~Beats(k, request[k], h, request[h]) /\ ~Beats(h, request[h], k, request[k])
  BY <1>1 DEF Fixed
<1> QED
  BY <1>1, <1>2, BeatsIsOrder

(* Who has had a round after the last stage names this robot.              *)
LEMMA TeamNames ==
  ASSUME Prompt, 6 * Age + Spread + 1 <= Settle, TeamIInv, Settled
  PROVE  /\ now > Stage(4) + 1 /\ TypeOK
         /\ \/ Candidates = {} /\ \A r \in Robot : striker[r] = Nobody
            \/ \E h \in Robot : Fixed(h) /\ \A r \in Robot : striker[r] = h
<1>1. TypeOK /\ now \in Nat /\ Chaos \in Nat /\ Settle \in Nat
  BY TimesAreNumbers, ElectionAssumption DEF TeamIInv, NewsIInv, HearIInv
<1>2. Stage(4) = Chaos + 6 * Age + Spread /\ Stage(4) \in Nat /\ Age \in Nat /\ Spread \in Nat
  BY PromptTimes
<1>3. now > Stage(4) + 1
  BY <1>1, <1>2 DEF Settled
<1>4. \A r \in Robot :
        \/ Candidates = {} /\ striker[r] = Nobody
        \/ \E h \in Robot : Fixed(h) /\ striker[r] = h
  BY <1>1, <1>2, <1>3 DEF TeamIInv, Named, After
<1>5. CASE Candidates = {}
  BY <1>1, <1>3, <1>4, <1>5 DEF Fixed, Near
<1>6. CASE Candidates # {}
  <2>1. 0 \in Robot
    BY ElectionAssumption DEF Robot
  <2>2. PICK h \in Robot : Fixed(h)
    BY <1>4, <1>6, <2>1
  <2>3. \A k \in Robot : Fixed(k) => k = h
    BY <1>1, <2>2, OnlyOneIsFixed
  <2> QED
    BY <1>1, <1>3, <1>4, <1>6, <2>2, <2>3
<1> QED
  BY <1>5, <1>6

(***************************************************************************)
(* A team of any size names one striker, or none if nobody in the game     *)
(* sees the ball: determineStriker (robocup_strategy.cpp) on what          *)
(* TeamComManager has heard.  It takes six times the age that a message    *)
(* reaches, and the difference of the clocks: to hear of everybody, to     *)
(* leave the requests of the chaos behind, to ask, to make the newest      *)
(* request known, to hear it out, and to hear the others give up theirs.   *)
(*                                                                         *)
(* A message arrives in the tick in which it is sent: with a delay three   *)
(* robots may ask in turns for ever.  No robot is slower than another one  *)
(* by exactly the margin, which times in floating point are not.  And a    *)
(* message counts until the next one is there, whatever the clocks.        *)
(***************************************************************************)
THEOREM PromptTeamsAgree ==
  ASSUME MaxDelay = 0, \A v, w \in Times : v # w + Margin, Age + Spread <= TTL,
         6 * Age + Spread + 1 <= Settle
  PROVE  Spec => []TeamAgrees
<1>1. TeamIInv /\ [Next]_vars => TeamIInv'
  BY TeamInductive DEF Prompt
<1>2. TeamIInv => TeamAgrees
  <2> SUFFICES ASSUME TeamIInv, Settled
               PROVE  \E s \in Candidates \cup {Nobody} :
                        (s = Nobody => Candidates = {}) /\ \A r \in Robot : striker[r] = s
    BY DEF TeamAgrees
  <2>1. Nobody \notin Robot
    BY ElectionAssumption DEF Nobody, Robot
  <2>2. \/ Candidates = {} /\ \A r \in Robot : striker[r] = Nobody
        \/ \E h \in Robot : Fixed(h) /\ \A r \in Robot : striker[r] = h
    BY TeamNames DEF Prompt
  <2> QED
    BY <2>1, <2>2 DEF Fixed, Near
<1>3. Init => TeamIInv
  BY InitTeam DEF Prompt
<1> QED
  BY <1>1, <1>2, <1>3, PTL DEF Spec

(* The striker that they name is one that no other candidate is clearly faster than: shouldAskStriker *)
(* compares with the margin, whoever of those that are near wins.                                     *)
THEOREM PromptTeamsChooseWell ==
  ASSUME MaxDelay = 0, \A v, w \in Times : v # w + Margin, Age + Spread <= TTL,
         6 * Age + Spread + 1 <= Settle
  PROVE  Spec => []StrikerIsReasonable
<1>1. TeamIInv /\ [Next]_vars => TeamIInv'
  BY TeamInductive DEF Prompt
<1>2. TeamIInv => StrikerIsReasonable
  <2> SUFFICES ASSUME TeamIInv, Settled, NEW r \in Robot, NEW s \in Robot,
                      s = striker[r], s \in Candidates, NEW c \in Candidates
               PROVE  walk[s] <= walk[c] + Margin
    BY DEF StrikerIsReasonable
  <2>1. TypeOK /\ Fixed(s)
    BY TeamNames DEF Prompt
  <2>2. walk[s] < walk[c] + Margin
    BY <2>1 DEF Fixed, Near
  <2>3. walk[s] \in Nat /\ walk[c] \in Nat /\ Margin \in Nat
    BY <2>1, ElectionAssumption DEF Candidates, TypeOK
  <2> QED
    BY <2>2, <2>3
<1>3. Init => TeamIInv
  BY InitTeam DEF Prompt
<1> QED
  BY <1>1, <1>2, <1>3, PTL DEF Spec

(* And nobody changes the striker afterwards, whatever rounds and messages come. *)
THEOREM PromptTeamsKeepTheirStriker ==
  ASSUME MaxDelay = 0, \A v, w \in Times : v # w + Margin, Age + Spread <= TTL,
         6 * Age + Spread + 1 <= Settle
  PROVE  Spec => StrikerStays
<1>1. TeamIInv /\ [Next]_vars => TeamIInv'
  BY TeamInductive DEF Prompt
<1>2. TeamIInv /\ TeamIInv' /\ [Next]_vars => [Settled => striker' = striker]_vars
  <2> SUFFICES ASSUME TeamIInv, [Next]_vars, Settled PROVE striker' = striker
    OBVIOUS
  <2>1. Prompt /\ NewsIInv /\ TypeOK
    BY DEF Prompt, TeamIInv, NewsIInv, HearIInv
  <2>2. /\ now > Informed
        /\ \/ Candidates = {} /\ \A r \in Robot : striker[r] = Nobody
           \/ \E h \in Robot : Fixed(h) /\ \A r \in Robot : striker[r] = h
    BY <2>1, TeamNames, PromptTimes, TimesAreNumbers
  <2>3. (\E p \in Robot : Turn(p)) \/ Hearing \/ NextTick
    BY <2>1, <2>2, QuietSteps
  <2>4. ASSUME NEW p \in Robot, Turn(p) PROVE \A r \in Robot : striker'[r] = striker[r]
    <3>1. striker'[p] = DetermineStriker(p, now + Skew[p], walk[p]).striker
      BY <2>4 DEF Turn
    <3>2. striker'[p] = striker[p]
      BY <2>1, <2>2, <3>1, FixedNames, NobodyIsNamed
    <3> QED
      BY <2>4, <3>2 DEF Turn
  <2>5. CASE \A r \in Robot : striker'[r] = striker[r]
    <3>1. TypeOK'
      BY <2>1, NextTypes
    <3>2. DOMAIN striker = Robot /\ DOMAIN striker' = Robot /\ striker = [r \in Robot |-> striker[r]]
          /\ striker' = [r \in Robot |-> striker'[r]]
      BY <2>1, <3>1 DEF TypeOK
    <3> QED
      BY <2>5, <3>2
  <2>6. Hearing \/ NextTick => striker' = striker
    BY DEF Hearing, NextTick
  <2> QED
    BY <2>3, <2>4, <2>5, <2>6
<1>3. Init => TeamIInv
  BY InitTeam DEF Prompt
<1> QED
  BY <1>1, <1>2, <1>3, PTL DEF Spec, StrikerStays

-----------------------------------------------------------------------------
(***************************************************************************)
(* RoleDistribution: what PermutePositions returns, for every team, every  *)
(* formation and every pose.  The sum is a fold over the team, which is a  *)
(* recursive function; that it has values is shown by the number of robots *)
(* that are left.                                                          *)
(***************************************************************************)

(* The element that a fold takes next, and the values of a sum on the sets of at most n elements. *)
Pick(s) == CHOOSE x \in s : TRUE

Small(S, n) == {s \in SUBSET S : Cardinality(s) <= n}

IsSum(it, h, D) ==
  it = [s \in D |-> IF s = {} THEN 0 ELSE h[Pick(s)] + it[s \ {Pick(s)}]]

LEMMA SmallerLeft ==
  ASSUME NEW S, IsFiniteSet(S), NEW n \in Nat, NEW s \in Small(S, n + 1), s # {}
  PROVE  Pick(s) \in s /\ s \ {Pick(s)} \in Small(S, n)
<1>1. Pick(s) \in s
  BY DEF Pick
<1>2. IsFiniteSet(s) /\ s \in SUBSET S /\ Cardinality(s) <= n + 1
  BY FS_Subset DEF Small
<1>3. Cardinality(s \ {Pick(s)}) = Cardinality(s) - 1
  BY <1>1, <1>2, FS_RemoveElement
<1>4. Cardinality(s) \in Nat
  BY <1>2, FS_CardinalityType
<1>5. s \ {Pick(s)} \in SUBSET S
  BY <1>2
<1> HIDE DEF Pick
<1>6. Cardinality(s \ {Pick(s)}) <= n
  BY <1>2, <1>3, <1>4
<1> QED
  BY <1>1, <1>5, <1>6 DEF Small

(* The recursion of the sum has a solution: the number of elements decreases. *)
LEMMA SumExists ==
  ASSUME NEW S, IsFiniteSet(S), NEW h
  PROVE  \E it : IsSum(it, h, SUBSET S)
<1> DEFINE P(n) == \E it : IsSum(it, h, Small(S, n))
           bad == {n \in Nat : ~P(n)}
<1>1. P(0)
  <2>1. \A s \in Small(S, 0) : s = {}
    <3> SUFFICES ASSUME NEW s \in Small(S, 0) PROVE s = {}
      OBVIOUS
    <3>1. IsFiniteSet(s) /\ Cardinality(s) <= 0
      BY FS_Subset DEF Small
    <3>2. Cardinality(s) \in Nat
      BY <3>1, FS_CardinalityType
    <3>3. Cardinality(s) = 0
      BY <3>1, <3>2
    <3> QED
      BY <3>1, <3>3, FS_EmptySet
  <2>2. IsSum([s \in Small(S, 0) |-> 0], h, Small(S, 0))
    BY <2>1 DEF IsSum
  <2> QED
    BY <2>2
<1>2. ASSUME NEW n \in Nat, P(n)
      PROVE  P(n + 1)
  <2>1. PICK it : IsSum(it, h, Small(S, n))
    BY <1>2
  <2> DEFINE jt == [s \in Small(S, n + 1) |->
                      IF s = {} THEN 0 ELSE h[Pick(s)] + it[s \ {Pick(s)}]]
  <2>2. Small(S, n) \subseteq Small(S, n + 1)
    <3> SUFFICES ASSUME NEW s \in Small(S, n) PROVE s \in Small(S, n + 1)
      OBVIOUS
    <3>1. IsFiniteSet(s) /\ Cardinality(s) <= n /\ s \in SUBSET S
      BY FS_Subset DEF Small
    <3>2. Cardinality(s) \in Nat
      BY <3>1, FS_CardinalityType
    <3>3. Cardinality(s) <= n + 1
      BY <3>1, <3>2
    <3> QED
      BY <3>1, <3>3 DEF Small
  <2>3. \A s \in Small(S, n) : jt[s] = it[s]
    BY <2>1, <2>2 DEF IsSum
  <2>4. \A s \in Small(S, n + 1) : s # {} => jt[s \ {Pick(s)}] = it[s \ {Pick(s)}]
    BY <2>3, SmallerLeft
  <2>5. jt = [s \in Small(S, n + 1) |-> IF s = {} THEN 0 ELSE h[Pick(s)] + jt[s \ {Pick(s)}]]
    BY <2>4
  <2>6. IsSum(jt, h, Small(S, n + 1))
    <3> HIDE DEF jt
    <3> QED
      BY <2>5 DEF IsSum
  <2> QED
    BY <2>6
<1>3. bad = {}
  <2> SUFFICES ASSUME bad # {} PROVE FALSE
    OBVIOUS
  <2>1. bad \subseteq Nat
    OBVIOUS
  <2>2. PICK n \in bad : \A o \in bad : n <= o
    <3> HIDE DEF bad
    <3> QED
      BY <2>1, LeastExists
  <2>3. n \in Nat /\ ~P(n)
    OBVIOUS
  <2> HIDE DEF P
  <2>4. n # 0
    BY <1>1, <2>3
  <2>5. n - 1 \in Nat /\ P(n - 1)
    BY <2>2, <2>3, <2>4
  <2>6. P((n - 1) + 1)
    BY <2>5, <1>2
  <2>7. (n - 1) + 1 = n
    BY <2>3
  <2> QED
    BY <2>3, <2>6, <2>7
<1>4. Cardinality(S) \in Nat
  BY FS_CardinalityType
<1>5. Small(S, Cardinality(S)) = SUBSET S
  <2>1. ASSUME NEW s \in SUBSET S PROVE Cardinality(s) <= Cardinality(S)
    BY FS_Subset
  <2> QED
    BY <2>1 DEF Small
<1>6. P(Cardinality(S))
  <2> HIDE DEF P
  <2> QED
    BY <1>3, <1>4
<1> QED
  BY <1>5, <1>6

(* The values of such a sum of natural numbers are natural numbers, and 0 for zeros only. *)
LEMMA SumIsNat ==
  ASSUME NEW S, IsFiniteSet(S), NEW h, \A x \in S : h[x] \in Nat,
         NEW it, IsSum(it, h, SUBSET S)
  PROVE  /\ it[S] \in Nat
         /\ it[S] = 0 <=> \A x \in S : h[x] = 0
<1> DEFINE Right(s) == it[s] \in Nat /\ (it[s] = 0 <=> \A x \in s : h[x] = 0)
           wrong == {s \in SUBSET S : ~Right(s)}
           sizes == {Cardinality(s) : s \in wrong}
<1> SUFFICES ASSUME wrong # {} PROVE FALSE
  OBVIOUS
<1>1. sizes \subseteq Nat
  BY FS_Subset, FS_CardinalityType
<1>2. sizes # {}
  OBVIOUS
<1>3. PICK n \in sizes : \A o \in sizes : n <= o
  <2> HIDE DEF sizes
  <2> QED
    BY <1>1, <1>2, LeastExists
<1>4. PICK s \in wrong : n = Cardinality(s)
  BY <1>3
<1> DEFINE x == Pick(s)
           t == s \ {x}
<1>5. s \in SUBSET S /\ IsFiniteSet(s) /\ n \in Nat
  BY <1>1, <1>4, FS_Subset
<1>6. it[s] = IF s = {} THEN 0 ELSE h[x] + it[t]
  BY <1>5 DEF IsSum
<1>7. s # {}
  BY <1>4, <1>6
<1>8. x \in s
  BY <1>7 DEF Pick
<1>9. Right(t)
  <2>1. Cardinality(t) = n - 1
    BY <1>4, <1>5, <1>8, FS_RemoveElement
  <2>2. t \in SUBSET S
    BY <1>5
  <2>3. Cardinality(t) \notin sizes
    <3> HIDE DEF sizes, t
    <3> QED
      BY <1>3, <1>5, <2>1
  <2>4. t \notin wrong
    <3> HIDE DEF t
    <3> QED
      BY <2>3
  <2> QED
    BY <2>2, <2>4
<1>10. h[x] \in Nat
  BY <1>5, <1>8
<1>11. (\A y \in s : h[y] = 0) <=> h[x] = 0 /\ \A y \in t : h[y] = 0
  BY <1>8
<1>12. Right(s)
  <2> HIDE DEF x, t
  <2> QED
    BY <1>6, <1>7, <1>9, <1>10, <1>11
<1> QED
  BY <1>4, <1>12

(* The sum of a distribution, with the robots at at. *)
Price(at, f) == MapThenSumSet(LAMBDA r : (at[r] - spot[f[r]]) * (at[r] - spot[f[r]]), team)

LEMMA PriceIsNat ==
  ASSUME NEW at, NEW f, IsFiniteSet(team),
         \A r \in team : at[r] \in Int /\ spot[f[r]] \in Int
  PROVE  /\ Price(at, f) \in Nat
         /\ Price(at, f) = 0 <=> \A r \in team : at[r] = spot[f[r]]
<1> DEFINE h == [r \in team |-> (at[r] - spot[f[r]]) * (at[r] - spot[f[r]])]
           price == Price(at, f)
           Solves(it) == it = [s \in SUBSET team |->
             IF s = {} THEN 0
             ELSE (at[CHOOSE x \in s : TRUE] - spot[f[CHOOSE x \in s : TRUE]])
                    * (at[CHOOSE x \in s : TRUE] - spot[f[CHOOSE x \in s : TRUE]])
                  + it[s \ {CHOOSE x \in s : TRUE}]]
<1>1. \A d \in Int : d * d \in Nat /\ (d * d = 0 <=> d = 0)
  OBVIOUS
<1>2. \A r \in team : h[r] \in Nat /\ (h[r] = 0 <=> at[r] = spot[f[r]])
  <2> TAKE r \in team
  <2>1. at[r] - spot[f[r]] \in Int
    OBVIOUS
  <2>2. (at[r] - spot[f[r]] = 0) <=> at[r] = spot[f[r]]
    OBVIOUS
  <2> QED
    BY <1>1, <2>1, <2>2
<1>3. \A it : IsSum(it, h, SUBSET team) <=> Solves(it)
  <2>1. \A s \in SUBSET team : s # {} =>
          h[Pick(s)] = (at[CHOOSE x \in s : TRUE] - spot[f[CHOOSE x \in s : TRUE]])
                         * (at[CHOOSE x \in s : TRUE] - spot[f[CHOOSE x \in s : TRUE]])
    BY DEF Pick
  <2> QED
    BY <2>1 DEF IsSum, Pick
<1>4. price = (CHOOSE it : Solves(it))[team]
  BY DEF Price, MapThenSumSet, MapThenFoldSet
<1>5. IsSum(CHOOSE it : Solves(it), h, SUBSET team)
  <2> HIDE DEF Solves, h
  <2>1. \E it : Solves(it)
    BY <1>3, SumExists
  <2> QED
    BY <2>1, <1>3
<1> HIDE DEF Solves, h, price
<1>6. price \in Nat /\ (price = 0 <=> \A x \in team : h[x] = 0)
  <2> DEFINE it == CHOOSE it : Solves(it)
  <2>1. price = it[team] /\ IsSum(it, h, SUBSET team)
    BY <1>4, <1>5
  <2>2. \A x \in team : h[x] \in Nat
    BY <1>2
  <2> HIDE DEF it
  <2>3. it[team] \in Nat /\ (it[team] = 0 <=> \A x \in team : h[x] = 0)
    BY <2>1, <2>2, SumIsNat
  <2> QED
    BY <2>1, <2>3
<1> QED
  BY <1>2, <1>6 DEF price

(* Of some functions of the team one is the earliest.                      *)
LEMMA EarliestExists ==
  ASSUME team \subseteq Nat, IsFiniteSet(team),
         NEW B, B \subseteq [team -> Nat], B # {}
  PROVE  \E f \in B : \A g \in B \ {f} : Earlier(f, g)
<1> DEFINE Same(f, g, k) == \A s \in team : s < k => f[s] = g[s]
           Before(f, g, k) == \E r \in team : r < k /\ f[r] < g[r] /\ Same(f, g, r)
           P(k) == \E f \in B : \A g \in B : Same(f, g, k) \/ Before(f, g, k)
           bad == {k \in Nat : ~P(k)}
<1>1. P(0)
  BY DEF Same
<1>2. ASSUME NEW k \in Nat, P(k)
      PROVE  P(k + 1)
  <2>1. PICK f \in B : \A g \in B : Same(f, g, k) \/ Before(f, g, k)
    BY <1>2
  <2>2. CASE k \notin team
    <3>1. \A s \in team : s < k + 1 => s < k
      BY <2>2
    <3>2. \A g \in B : Same(f, g, k) => Same(f, g, k + 1)
      BY <3>1
    <3>3. \A g \in B : Before(f, g, k) => Before(f, g, k + 1)
      OBVIOUS
    <3> HIDE DEF Same, Before
    <3> QED
      BY <2>1, <3>2, <3>3
  <2>3. CASE k \in team
    <3> DEFINE A == {g \in B : Same(f, g, k)}
               values == {g[k] : g \in A}
    <3>1. f \in A
      OBVIOUS
    <3>2. values \subseteq Nat /\ values # {}
      BY <2>3, <3>1
    <3>3. PICK v \in values : \A o \in values : v <= o
      <4> HIDE DEF values
      <4> QED
        BY <3>2, LeastExists
    <3>4. PICK e \in A : e[k] = v
      BY <3>3
    <3>5. ASSUME NEW g \in B
          PROVE  Same(e, g, k + 1) \/ Before(e, g, k + 1)
      <4>1. Same(f, e, k) /\ e \in [team -> Nat] /\ g \in [team -> Nat]
        OBVIOUS
      <4>2. CASE Same(f, g, k)
        <5>1. Same(e, g, k)
          BY <4>1, <4>2
        <5>2. g[k] \in values
          BY <4>2
        <5>3. e[k] <= g[k] /\ e[k] \in Nat /\ g[k] \in Nat
          BY <3>3, <3>4, <4>1, <5>2, <2>3
        <5>4. CASE e[k] = g[k]
          <6>1. \A s \in team : s < k + 1 => s < k \/ s = k
            OBVIOUS
          <6> QED
            BY <5>1, <5>4, <6>1
        <5>5. CASE e[k] < g[k]
          BY <2>3, <5>1, <5>5
        <5> QED
          BY <5>3, <5>4, <5>5
      <4>3. CASE Before(f, g, k)
        <5>1. PICK r \in team : r < k /\ f[r] < g[r] /\ Same(f, g, r)
          BY <4>3
        <5>2. e[r] = f[r] /\ Same(e, g, r) /\ r < k + 1
          <6>1. \A s \in team : s < r => s < k
            BY <5>1
          <6> QED
            BY <4>1, <5>1, <6>1
        <5> QED
          BY <5>1, <5>2
      <4> QED
        BY <2>1, <4>2, <4>3
    <3>6. e \in B
      OBVIOUS
    <3> QED
      BY <3>5, <3>6
  <2> QED
    BY <2>2, <2>3
<1>3. bad = {}
  <2> SUFFICES ASSUME bad # {} PROVE FALSE
    OBVIOUS
  <2>1. bad \subseteq Nat
    OBVIOUS
  <2>2. PICK n \in bad : \A o \in bad : n <= o
    <3> HIDE DEF bad
    <3> QED
      BY <2>1, LeastExists
  <2>3. n \in Nat /\ ~P(n)
    OBVIOUS
  <2> HIDE DEF P
  <2>4. n # 0
    BY <1>1, <2>3
  <2>5. n - 1 \in Nat /\ P(n - 1)
    BY <2>2, <2>3, <2>4
  <2>6. P((n - 1) + 1)
    BY <2>5, <1>2
  <2>7. (n - 1) + 1 = n
    BY <2>3
  <2> QED
    BY <2>3, <2>6, <2>7
<1>4. PICK k \in Nat : \A s \in team : s < k
  BY NumbersAreBounded
<1>5. P(k)
  <2> HIDE DEF P
  <2> QED
    BY <1>3, <1>4
<1>6. PICK f \in B : \A g \in B : Same(f, g, k) \/ Before(f, g, k)
  BY <1>5
<1>7. \A g \in B : Same(f, g, k) => f = g
  <2> TAKE g \in B
  <2> HAVE Same(f, g, k)
  <2>1. f \in [team -> Nat] /\ g \in [team -> Nat]
    OBVIOUS
  <2>2. \A s \in team : f[s] = g[s]
    BY <1>4
  <2>3. f = [s \in team |-> f[s]] /\ g = [s \in team |-> g[s]]
    BY <2>1
  <2>4. [s \in team |-> f[s]] = [s \in team |-> g[s]]
    BY <2>2
  <2> QED
    BY <2>3, <2>4
<1>8. \A g \in B : Before(f, g, k) => Earlier(f, g)
  BY DEF Earlier
<1> HIDE DEF Same, Before
<1> QED
  BY <1>6, <1>7, <1>8

(* What the distribution relies on: a few robots, a striker among them, a place for each role. *)
TeamFits ==
  /\ IsFiniteSet(team) /\ team # {} /\ team \subseteq Nat \ {NoStriker}
  /\ leader \in team \cup {NoStriker}
  /\ LineEnd \in Nat
  /\ spot \in [Roles -> 0 .. LineEnd]

(* The roles in the order of the robots.                                   *)
Rank == [r \in team |-> Cardinality({s \in team : s < r})]

(* f, but r has p and the one who had p has the role of r.                 *)
Swap(f, r, p) == [s \in team |-> IF s = r THEN p ELSE IF f[s] = p THEN f[r] ELSE f[s]]

(* A role for each robot, and no role twice.                               *)
OneEach(f) == f \in [team -> Roles] /\ IsInjective(f)

(* The goalie, alone and without a striker, may take no role at all. *)
GoalieAlone == Goalie \in team /\ leader = NoStriker /\ Cardinality(team) = 1

LEMMA SizeOfTeam ==
  ASSUME TeamFits
  PROVE  Cardinality(team) \in Nat \ {0}
BY FS_CardinalityType, FS_EmptySet DEF TeamFits

LEMMA RankIsOneEach ==
  ASSUME TeamFits
  PROVE  OneEach(Rank)
<1> DEFINE below(r) == {s \in team : s < r}
<1>1. \A r \in team : IsFiniteSet(below(r)) /\ Cardinality(below(r)) \in Nat
  <2>1. \A r \in team : below(r) \subseteq team
    OBVIOUS
  <2> QED
    BY <2>1, FS_Subset, FS_CardinalityType DEF TeamFits
<1>2. \A r \in team : Cardinality(below(r)) < Cardinality(team)
  <2> TAKE r \in team
  <2>1. below(r) \subseteq team /\ r \notin below(r)
    BY DEF TeamFits
  <2>2. below(r) # team
    BY <2>1
  <2> HIDE DEF below
  <2>3. Cardinality(below(r)) <= Cardinality(team) /\ Cardinality(below(r)) # Cardinality(team)
    BY <2>1, <2>2, FS_Subset DEF TeamFits
  <2> QED
    BY <1>1, <2>3, SizeOfTeam
<1>3. Rank \in [team -> Roles]
  <2>1. \A r \in team : Cardinality(below(r)) \in 0 .. Cardinality(team) - 1
    <3> HIDE DEF below
    <3> QED
      BY <1>1, <1>2, SizeOfTeam
  <2> QED
    BY <2>1 DEF Rank, Roles
<1>4. ASSUME NEW q \in team, NEW r \in team, q < r
      PROVE  Rank[q] < Rank[r]
  <2>1. below(q) \subseteq below(r) /\ q \in below(r) /\ q \notin below(q)
    <3>1. \A s \in team : s \in Nat
      BY DEF TeamFits
    <3>2. \A s \in team : s < q => s < r
      BY <1>4, <3>1
    <3>3. ~(q < q)
      BY <3>1
    <3> QED
      BY <1>4, <3>2, <3>3
  <2>2. below(q) # below(r)
    BY <2>1
  <2>3. Rank[q] = Cardinality(below(q)) /\ Rank[r] = Cardinality(below(r))
    BY DEF Rank
  <2>4. IsFiniteSet(below(r)) /\ Cardinality(below(r)) \in Nat /\ Cardinality(below(q)) \in Nat
    BY <1>1
  <2> HIDE DEF below
  <2>5. Cardinality(below(q)) <= Cardinality(below(r)) /\ Cardinality(below(q)) # Cardinality(below(r))
    BY <2>1, <2>2, <2>4, FS_Subset
  <2> QED
    BY <2>3, <2>4, <2>5
<1>5. IsInjective(Rank)
  <2>1. DOMAIN Rank = team
    BY DEF Rank
  <2>2. ASSUME NEW q \in team, NEW r \in team, Rank[q] = Rank[r]
        PROVE  q = r
    <3>1. q < r \/ r < q \/ q = r
      BY DEF TeamFits
    <3>2. Rank[q] \in Nat /\ Rank[r] \in Nat
      BY <1>3, SizeOfTeam DEF Roles
    <3> QED
      BY <1>4, <2>2, <3>1, <3>2
  <2> QED
    BY <2>1, <2>2 DEF IsInjective
<1> QED
  BY <1>3, <1>5 DEF OneEach

LEMMA SwapIsOneEach ==
  ASSUME NEW f, OneEach(f), NEW r \in team, NEW p \in Roles
  PROVE  OneEach(Swap(f, r, p)) /\ Swap(f, r, p)[r] = p
<1>1. f \in [team -> Roles] /\ \A q, s \in team : f[q] = f[s] => q = s
  BY DEF OneEach, IsInjective
<1>2. Swap(f, r, p) \in [team -> Roles]
  BY <1>1 DEF Swap
<1>3. ASSUME NEW q \in team, NEW s \in team, Swap(f, r, p)[q] = Swap(f, r, p)[s]
      PROVE  q = s
  BY <1>1, <1>3 DEF Swap
<1>4. DOMAIN Swap(f, r, p) = team
  BY DEF Swap
<1>5. IsInjective(Swap(f, r, p))
  BY <1>3, <1>4 DEF IsInjective
<1> QED
  BY <1>2, <1>5 DEF Swap, OneEach

(* The roles can be given so that the striker and the goalie have theirs.  *)
LEMMA PermittedExists ==
  ASSUME TeamFits, ~GoalieAlone
  PROVE  \E f \in [team -> Roles] : IsInjective(f) /\ \A r \in team : MayTake(r, f[r])
<1>1. PICK f : OneEach(f) /\ (leader # NoStriker => f[leader] = 0)
  <2>1. CASE leader = NoStriker
    BY <2>1, RankIsOneEach
  <2>2. CASE leader # NoStriker
    <3>1. 0 \in Roles /\ leader \in team
      BY <2>2, SizeOfTeam DEF Roles, TeamFits
    <3> QED
      BY <3>1, RankIsOneEach, SwapIsOneEach
  <2> QED
    BY <2>1, <2>2
<1>2. f \in [team -> Roles] /\ \A q, s \in team : f[q] = f[s] => q = s
  BY <1>1 DEF OneEach, IsInjective
<1>3. leader # NoStriker => leader \in team
  BY DEF TeamFits
<1>4. CASE Goalie \in team /\ leader # Goalie
  <2>1. 1 \in Roles
    <3>1. Cardinality(team) # 1
      <4>1. CASE leader = NoStriker
        BY <1>4, <4>1 DEF GoalieAlone
      <4>2. CASE leader # NoStriker
        <5>1. {leader, Goalie} \subseteq team
          BY <1>3, <1>4, <4>2
        <5>2. Cardinality({leader, Goalie}) = 2
          <6>1. leader \notin {Goalie} /\ IsFiniteSet({Goalie}) /\ Cardinality({Goalie}) = 1
            BY <1>4, FS_Singleton
          <6>2. {leader, Goalie} = {Goalie} \cup {leader}
            OBVIOUS
          <6> QED
            BY <6>1, <6>2, FS_AddElement
        <5> QED
          BY <5>1, <5>2, FS_Subset DEF TeamFits
      <4> QED
        BY <4>1, <4>2
    <3> QED
      BY <3>1, SizeOfTeam DEF Roles
  <2> DEFINE g == Swap(f, Goalie, 1)
  <2>2. OneEach(g) /\ g[Goalie] = 1
    BY <1>1, <1>4, <2>1, SwapIsOneEach
  <2>3. leader # NoStriker => g[leader] = 0
    BY <1>1, <1>2, <1>3, <1>4 DEF Swap
  <2>4. g \in [team -> Roles] /\ \A q, s \in team : g[q] = g[s] => q = s
    BY <2>2 DEF OneEach, IsInjective
  <2>5. \A r \in team : MayTake(r, g[r])
    <3> HIDE DEF g
    <3> QED
      BY <1>3, <1>4, <2>2, <2>3, <2>4 DEF MayTake
  <2> QED
    BY <2>2, <2>5 DEF OneEach
<1>5. CASE ~(Goalie \in team /\ leader # Goalie)
  <2>1. \A r \in team : MayTake(r, f[r])
    BY <1>1, <1>2, <1>3, <1>5 DEF MayTake
  <2> QED
    BY <1>1, <2>1 DEF OneEach
<1> QED
  BY <1>4, <1>5

(* The distributions that permutePositions_play compares.                  *)
Permitted == {g \in [team -> Roles] : (\A r \in team : MayTake(r, g[r])) /\ IsInjective(g)}

(***************************************************************************)
(* What permutePositions_play returns: a cheapest permitted distribution,  *)
(* the earliest of these; the ranks for a goalie alone.                    *)
(***************************************************************************)
LEMMA PermuteOutcome ==
  ASSUME TeamFits, NEW at \in [team -> 0 .. LineEnd]
  PROVE  LET f == PermutePositions(at) IN
         /\ GoalieAlone => f = Rank
         /\ ~GoalieAlone =>
              /\ f \in Permitted
              /\ \A g \in Permitted : Price(at, f) <= Price(at, g)
              /\ \A g \in Permitted \ {f} : Price(at, f) = Price(at, g) => Earlier(f, g)
<1> DEFINE priced == {[f |-> f, sum |-> Price(at, f)] : f \in Permitted}
           least == Min({c.sum : c \in priced})
           best == {c.f : c \in {d \in priced : d.sum = least}}
<1>1. PermutePositions(at) =
        IF priced = {} THEN Rank
        ELSE CHOOSE f \in best : \A g \in best \ {f} : Earlier(f, g)
  BY DEF PermutePositions, Rank, Permitted, Price
<1>2. CASE GoalieAlone
  <2>1. ASSUME NEW g \in Permitted PROVE FALSE
    <3>1. MayTake(Goalie, g[Goalie]) /\ g[Goalie] \in Roles
      BY <1>2 DEF Permitted, GoalieAlone
    <3>2. g[Goalie] = 1
      BY <1>2, <3>1 DEF MayTake, GoalieAlone, Goalie, NoStriker
    <3>3. Roles = 0 .. 0
      BY <1>2 DEF Roles, GoalieAlone
    <3> QED
      BY <3>1, <3>2, <3>3
  <2>2. priced = {}
    BY <2>1
  <2> QED
    BY <1>1, <1>2, <2>2
<1>3. CASE ~GoalieAlone
  <2>1. Permitted # {}
    BY <1>3, PermittedExists DEF Permitted
  <2>2. \A f \in Permitted : Price(at, f) \in Nat
    <3> TAKE f \in Permitted
    <3>1. \A r \in team : at[r] \in Int /\ spot[f[r]] \in Int
      BY DEF Permitted, TeamFits
    <3> QED
      BY <3>1, PriceIsNat DEF TeamFits
  <2> DEFINE sums == {Price(at, f) : f \in Permitted}
  <2>3. {c.sum : c \in priced} = sums
    <3>1. \A c \in priced : c.sum \in sums
      OBVIOUS
    <3>2. ASSUME NEW f \in Permitted
          PROVE  Price(at, f) \in {c.sum : c \in priced}
      <4>1. [f |-> f, sum |-> Price(at, f)] \in priced
        OBVIOUS
      <4> QED
        BY <4>1
    <3> QED
      BY <3>1, <3>2
  <2>4. sums # {} /\ sums \subseteq Nat
    BY <2>1, <2>2
  <2>5. least \in sums /\ \A o \in sums : least <= o
    <3>1. \E s \in sums : \A o \in sums : s <= o
      <4> HIDE DEF sums
      <4> QED
        BY <2>4, LeastExists
    <3> QED
      BY <2>3, <3>1 DEF Min
  <2>6. best = {f \in Permitted : Price(at, f) = least}
    <3> HIDE DEF least
    <3>1. \A c \in priced : c.f \in Permitted /\ c.sum = Price(at, c.f)
      OBVIOUS
    <3>2. ASSUME NEW f \in Permitted, Price(at, f) = least
          PROVE  f \in best
      <4>1. [f |-> f, sum |-> Price(at, f)] \in {d \in priced : d.sum = least}
        BY <3>2
      <4> QED
        BY <4>1
    <3> QED
      BY <3>1, <3>2
  <2>7. best # {} /\ best \subseteq [team -> Nat]
    <3>1. best # {}
      BY <2>5, <2>6
    <3>2. Permitted \subseteq [team -> Nat]
      BY SizeOfTeam DEF Permitted, Roles
    <3> QED
      BY <2>6, <3>1, <3>2
  <2>8. priced # {}
    BY <2>1
  <2>9. \E f \in best : \A g \in best \ {f} : Earlier(f, g)
    <3> HIDE DEF best
    <3> QED
      BY <2>7, EarliestExists DEF TeamFits
  <2> DEFINE f == PermutePositions(at)
  <2>10. f \in best /\ \A g \in best \ {f} : Earlier(f, g)
    <3> HIDE DEF best, priced
    <3> QED
      BY <1>1, <2>8, <2>9
  <2> HIDE DEF f, least, best, priced
  <2>11. f \in Permitted /\ Price(at, f) = least
    BY <2>6, <2>10
  <2>12. \A g \in Permitted : Price(at, f) <= Price(at, g)
    BY <2>5, <2>11
  <2>13. \A g \in Permitted \ {f} : Price(at, f) = Price(at, g) => Earlier(f, g)
    BY <2>6, <2>10, <2>11
  <2> QED
    BY <1>3, <2>11, <2>12, <2>13 DEF f
<1> QED
  BY <1>2, <1>3

(* Whatever the poses are: a role for each robot, no role twice, the right ones for two of them. *)
LEMMA EverybodyGetsARole ==
  ASSUME TeamFits, NEW at \in [team -> 0 .. LineEnd]
  PROVE  LET f == PermutePositions(at) IN
         /\ OneEach(f)
         /\ leader # NoStriker => \A r \in team : f[r] = 0 <=> r = leader
         /\ Goalie \in team /\ leader # Goalie /\ Cardinality(team) > 1 =>
              \A r \in team : f[r] = 1 <=> r = Goalie
<1> DEFINE f == PermutePositions(at)
<1>1. /\ GoalieAlone => f = Rank
      /\ ~GoalieAlone => f \in Permitted
  BY PermuteOutcome
<1> HIDE DEF f
<1>2. CASE GoalieAlone
  <2>1. leader = NoStriker /\ Cardinality(team) = 1
    BY <1>2 DEF GoalieAlone
  <2> QED
    BY <1>1, <1>2, <2>1, RankIsOneEach DEF f
<1>3. CASE ~GoalieAlone
  <2>1. OneEach(f) /\ \A r \in team : MayTake(r, f[r])
    BY <1>1, <1>3 DEF Permitted, OneEach
  <2> QED
    BY <2>1 DEF MayTake, f
<1> QED
  BY <1>2, <1>3

-----------------------------------------------------------------------------

RolesSpec == RolesInit /\ [][RolesNext]_roleVars

(* Nobody but the striker has its role, and nobody but the goalie. *)
OwnRoles ==
  \A r \in team : role[r] # NoRole =>
    /\ leader # NoStriker => (role[r] = 0 <=> r = leader)
    /\ Goalie \in team /\ leader # Goalie /\ Cardinality(team) > 1 => (role[r] = 1 <=> r = Goalie)

RolesIInv == RolesTypeOK /\ DOMAIN spot = Roles /\ OwnRoles

LEMMA RolesFitTeam ==
  ASSUME RolesTypeOK, DOMAIN spot = Roles
  PROVE  TeamFits
<1>1. spot \in [0 .. Cardinality(DOMAIN spot) - 1 -> 0 .. LineEnd]
  BY RolesAssumption DEF RolesTypeOK
<1>2. spot \in [Roles -> 0 .. LineEnd]
  BY <1>1
<1> QED
  BY <1>2, RolesAssumption DEF RolesTypeOK, TeamFits

LEMMA RolesInitIInv ==
  ASSUME RolesInit
  PROVE  RolesIInv
<1>1. RolesTypeOK
  BY DEF RolesInit, RolesTypeOK
<1>2. DOMAIN spot = Roles
  <2>1. spot \in [0 .. Cardinality(DOMAIN spot) - 1 -> 0 .. LineEnd]
    BY RolesAssumption DEF RolesInit
  <2>2. Cardinality(DOMAIN spot) = Cardinality(team)
    BY DEF RolesInit
  <2> QED
    BY <2>1, <2>2 DEF Roles
<1>3. OwnRoles
  BY DEF RolesInit, OwnRoles
<1> QED
  BY <1>1, <1>2, <1>3 DEF RolesIInv

LEMMA WhatRobotKnows ==
  ASSUME RolesTypeOK, NEW r \in team
  PROVE  [told EXCEPT ![r] = pose[r]] \in [team -> 0 .. LineEnd]
BY DEF RolesTypeOK

LEMMA RolesNextIInv ==
  ASSUME RolesIInv, [RolesNext]_roleVars
  PROVE  RolesIInv'
<1>0. RolesTypeOK /\ DOMAIN spot = Roles /\ OwnRoles /\ TeamFits
  BY RolesFitTeam DEF RolesIInv
<1>1. UNCHANGED <<team, leader, spot, Roles>>
  BY DEF RolesNext, Walk, Tell, DistributePositions, roleVars, Roles
<1>2. ASSUME NEW r \in team, Walk(r)
      PROVE  RolesIInv'
  <2>1. spot[role[r]] \in 0 .. LineEnd /\ pose[r] \in 0 .. LineEnd
    <3>1. role[r] \in Roles
      BY <1>0, <1>2 DEF Walk, RolesTypeOK
    <3> QED
      BY <1>0, <3>1 DEF RolesTypeOK, TeamFits
  <2>2. (IF pose[r] < spot[role[r]] THEN pose[r] + 1 ELSE pose[r] - 1) \in 0 .. LineEnd
    BY <1>0, <1>2, <2>1 DEF Walk, TeamFits
  <2>3. pose' \in [team -> 0 .. LineEnd]
    BY <1>0, <1>2, <2>2 DEF Walk, RolesTypeOK
  <2>4. UNCHANGED <<told, role>>
    BY <1>2 DEF Walk
  <2> QED
    BY <1>0, <1>1, <2>3, <2>4 DEF RolesIInv, RolesTypeOK, OwnRoles
<1>3. ASSUME NEW r \in team, Tell(r)
      PROVE  RolesIInv'
  BY <1>0, <1>1, <1>3 DEF Tell, RolesIInv, RolesTypeOK, OwnRoles
<1>4. ASSUME NEW r \in team, DistributePositions(r)
      PROVE  RolesIInv'
  <2> DEFINE at == [told EXCEPT ![r] = pose[r]]
             f == PermutePositions(at)
  <2>1. at \in [team -> 0 .. LineEnd]
    BY <1>0, WhatRobotKnows
  <2>2. /\ OneEach(f)
        /\ leader # NoStriker => \A s \in team : f[s] = 0 <=> s = leader
        /\ Goalie \in team /\ leader # Goalie /\ Cardinality(team) > 1 =>
             \A s \in team : f[s] = 1 <=> s = Goalie
    <3> HIDE DEF at
    <3> QED
      BY <1>0, <2>1, EverybodyGetsARole
  <2>3. role' = [role EXCEPT ![r] = f[r]] /\ UNCHANGED <<pose, told>>
    BY <1>4 DEF DistributePositions
  <2> HIDE DEF f
  <2>4. f[r] \in Roles
    BY <2>2 DEF OneEach
  <2>5. RolesTypeOK'
    BY <1>0, <1>1, <2>3, <2>4 DEF RolesTypeOK
  <2>6. OwnRoles'
    BY <1>0, <1>1, <2>2, <2>3 DEF OwnRoles, RolesTypeOK
  <2> QED
    BY <1>0, <1>1, <2>5, <2>6 DEF RolesIInv
<1>5. CASE UNCHANGED roleVars
  BY <1>0, <1>1, <1>5 DEF roleVars, RolesIInv, RolesTypeOK, OwnRoles
<1> QED
  BY <1>2, <1>3, <1>4, <1>5 DEF RolesNext

(***************************************************************************)
(* The roles are of their types, and at no time, however outdated what a   *)
(* robot knows may be, does anybody else believe to have the role of the   *)
(* striker or of the goalie.                                               *)
(***************************************************************************)
THEOREM RolesAreOwned ==
  RolesSpec => [](RolesTypeOK /\ OwnRoles)
<1>1. RolesInit => RolesIInv
  BY RolesInitIInv
<1>2. RolesIInv /\ [RolesNext]_roleVars => RolesIInv'
  BY RolesNextIInv
<1>3. RolesIInv => RolesTypeOK /\ OwnRoles
  BY DEF RolesIInv
<1> QED
  BY <1>1, <1>2, <1>3, PTL DEF RolesSpec

(***************************************************************************)
(* Robots that have decided on the same poses fit together.                *)
(***************************************************************************)
SameNewsFit ==
  \A at \in [team -> 0 .. LineEnd] :
    (\A r \in team : role[r] = PermutePositions(at)[r]) => RolesFit

THEOREM SameNewsSameRoles ==
  RolesSpec => []SameNewsFit
<1>1. RolesInit => RolesIInv
  BY RolesInitIInv
<1>2. RolesIInv /\ [RolesNext]_roleVars => RolesIInv'
  BY RolesNextIInv
<1>3. RolesIInv => SameNewsFit
  <2> SUFFICES ASSUME RolesIInv, NEW at \in [team -> 0 .. LineEnd],
                      \A r \in team : role[r] = PermutePositions(at)[r]
               PROVE  RolesFit
    BY DEF SameNewsFit
  <2> DEFINE f == PermutePositions(at)
  <2>1. TeamFits
    BY RolesFitTeam DEF RolesIInv
  <2>2. /\ OneEach(f)
        /\ leader # NoStriker => \A s \in team : f[s] = 0 <=> s = leader
        /\ Goalie \in team /\ leader # Goalie /\ Cardinality(team) > 1 =>
             \A s \in team : f[s] = 1 <=> s = Goalie
    BY <2>1, EverybodyGetsARole
  <2>3. \A r \in team : role[r] = f[r]
    OBVIOUS
  <2> HIDE DEF f
  <2>4. \A r, s \in team : f[r] = f[s] => r = s
    BY <2>2 DEF OneEach, IsInjective
  <2>5. leader # NoStriker => leader \in team
    BY <2>1 DEF TeamFits
  <2> QED
    BY <2>2, <2>3, <2>4, <2>5 DEF RolesFit
<1> QED
  BY <1>1, <1>2, <1>3, PTL DEF RolesSpec

(***************************************************************************)
(* The state that RolesSettle is about.  Every robot stands at the place   *)
(* of its role and has told of it, and the roles, or others with the same  *)
(* places, fit together.                                                   *)
(***************************************************************************)
Standing ==
  /\ told = pose
  /\ \A r \in team : role[r] \in Roles /\ pose[r] = spot[role[r]]
  /\ \E g \in [team -> Roles] :
       /\ IsInjective(g)
       /\ \A r \in team : MayTake(r, g[r]) \/ GoalieAlone
       /\ \A r \in team : pose[r] = spot[g[r]]

(* It holds of the states that RolesSettle leads to, once everybody has told of them. *)
LEMMA SettledIsStanding ==
  ASSUME TeamFits, RolesTypeOK, RolesFit, told = pose,
         \A r \in team : role[r] \in Roles /\ pose[r] = spot[role[r]]
  PROVE  Standing
<1>1. role \in [team -> Roles]
  BY DEF RolesTypeOK
<1>2. IsInjective(role)
  BY <1>1 DEF RolesFit, IsInjective
<1>3. ASSUME NEW r \in team, ~GoalieAlone
      PROVE  MayTake(r, role[r])
  <2>1. leader # NoStriker => leader \in team /\ (r = leader <=> role[r] = 0)
    BY <1>1, <1>2 DEF RolesFit, TeamFits
  <2>2. ASSUME Goalie \in team, leader # Goalie
        PROVE  r = Goalie <=> role[r] = 1
    <3>1. Cardinality(team) # 1
      <4>1. CASE leader = NoStriker
        BY <1>3, <2>2, <4>1 DEF GoalieAlone
      <4>2. CASE leader # NoStriker
        <5>1. leader \in team \ {Goalie}
          BY <2>1, <2>2, <4>2
        <5>2. Cardinality(team \ {Goalie}) = Cardinality(team) - 1 /\ IsFiniteSet(team \ {Goalie})
          BY <2>2, FS_RemoveElement DEF TeamFits
        <5>3. Cardinality(team \ {Goalie}) # 0
          BY <5>1, <5>2, FS_EmptySet
        <5> QED
          BY <5>2, <5>3
      <4> QED
        BY <4>1, <4>2
    <3>2. Cardinality(team) > 1
      BY <3>1, SizeOfTeam
    <3> QED
      BY <1>1, <1>2, <2>2, <3>2 DEF RolesFit
  <2> QED
    BY <2>1, <2>2 DEF MayTake
<1> QED
  BY <1>1, <1>2, <1>3 DEF Standing

(* A robot of a standing team decides on a role with the place at which it stands. *)
LEMMA StandingDecides ==
  ASSUME TeamFits, RolesTypeOK, Standing
  PROVE  \A r \in team : PermutePositions(pose)[r] \in Roles /\ pose[r] = spot[PermutePositions(pose)[r]]
<1> DEFINE f == PermutePositions(pose)
<1>1. PICK g \in [team -> Roles] :
        /\ IsInjective(g)
        /\ \A r \in team : MayTake(r, g[r]) \/ GoalieAlone
        /\ \A r \in team : pose[r] = spot[g[r]]
  BY DEF Standing
<1>2. pose \in [team -> 0 .. LineEnd]
  BY DEF RolesTypeOK
<1>3. /\ GoalieAlone => f = Rank
      /\ ~GoalieAlone => f \in Permitted /\ \A h \in Permitted : Price(pose, f) <= Price(pose, h)
  BY <1>2, PermuteOutcome
<1> HIDE DEF f
<1>4. CASE GoalieAlone
  <2>1. Roles = {0}
    BY <1>4 DEF GoalieAlone, Roles
  <2>2. f \in [team -> Roles]
    BY <1>3, <1>4, RankIsOneEach DEF OneEach
  <2>3. \A r \in team : f[r] = g[r] /\ f[r] \in Roles
    BY <2>1, <2>2
  <2> QED
    BY <1>1, <2>3 DEF f
<1>5. CASE ~GoalieAlone
  <2>1. g \in Permitted
    BY <1>1, <1>5 DEF Permitted
  <2>2. f \in [team -> Roles]
    BY <1>3, <1>5 DEF Permitted
  <2>3. \A h \in [team -> Roles] : /\ Price(pose, h) \in Nat
                                   /\ Price(pose, h) = 0 <=> \A r \in team : pose[r] = spot[h[r]]
    <3> TAKE h \in [team -> Roles]
    <3>1. \A r \in team : pose[r] \in Int /\ spot[h[r]] \in Int
      BY <1>2 DEF TeamFits
    <3> QED
      BY <3>1, PriceIsNat DEF TeamFits
  <2>4. Price(pose, g) = 0
    BY <1>1, <2>3
  <2>5. Price(pose, f) <= 0 /\ Price(pose, f) \in Nat
    BY <1>3, <1>5, <2>1, <2>2, <2>3, <2>4
  <2>6. \A r \in team : pose[r] = spot[f[r]]
    BY <2>2, <2>3, <2>5
  <2> QED
    BY <2>2, <2>6 DEF f
<1> QED
  BY <1>4, <1>5

LEMMA StandingStep ==
  ASSUME RolesIInv, Standing, [RolesNext]_roleVars
  PROVE  /\ UNCHANGED <<team, leader, spot, pose, told>>
         /\ Standing'
         /\ IsInjective(spot) => UNCHANGED role
<1>1. RolesTypeOK /\ DOMAIN spot = Roles /\ TeamFits
  BY RolesFitTeam DEF RolesIInv
<1>2. UNCHANGED <<team, leader, spot, pose, told>>
  <2>1. ASSUME NEW r \in team PROVE ~Walk(r)
    BY DEF Walk, Standing
  <2>2. ASSUME NEW r \in team, Tell(r) PROVE UNCHANGED <<team, leader, spot, pose, told>>
    <3>1. told = [told EXCEPT ![r] = pose[r]]
      BY <1>1 DEF Standing, RolesTypeOK
    <3> QED
      BY <2>2, <3>1 DEF Tell
  <2> QED
    BY <2>1, <2>2 DEF RolesNext, DistributePositions, roleVars
<1>3. role' = role \/ \E r \in team : role' = [role EXCEPT ![r] = PermutePositions(pose)[r]]
  <2>1. ASSUME NEW r \in team PROVE ~Walk(r)
    BY DEF Walk, Standing
  <2>2. \A r \in team : [told EXCEPT ![r] = pose[r]] = pose
    BY <1>1 DEF Standing, RolesTypeOK
  <2> QED
    BY <2>1, <2>2 DEF RolesNext, Tell, DistributePositions, roleVars
<1>4. \A r \in team : PermutePositions(pose)[r] \in Roles /\ pose[r] = spot[PermutePositions(pose)[r]]
  BY <1>1, StandingDecides
<1>5. \A r \in team : role'[r] \in Roles /\ pose[r] = spot[role'[r]]
  BY <1>1, <1>3, <1>4 DEF Standing, RolesTypeOK
<1>6. Standing'
  BY <1>2, <1>5 DEF Standing, Roles, MayTake, GoalieAlone
<1>7. ASSUME IsInjective(spot) PROVE role' = role
  <2>1. \A r \in team : PermutePositions(pose)[r] = role[r]
    BY <1>1, <1>4, <1>7 DEF IsInjective, Standing
  <2> QED
    BY <1>1, <1>3, <2>1 DEF RolesTypeOK
<1> QED
  BY <1>2, <1>6, <1>7

(***************************************************************************)
(* A team that has settled stays so: once it stands, nobody ever walks     *)
(* again, although no robot prefers the role that it has, and if no two    *)
(* roles share a place nobody changes its role.                            *)
(***************************************************************************)
THEOREM StandingTeamRests ==
  RolesSpec => [][Standing => /\ Standing'
                              /\ UNCHANGED <<pose, told>>
                              /\ IsInjective(spot) => UNCHANGED role]_roleVars
<1>1. RolesInit => RolesIInv
  BY RolesInitIInv
<1>2. RolesIInv /\ [RolesNext]_roleVars => RolesIInv'
  BY RolesNextIInv
<1>3. RolesIInv /\ [RolesNext]_roleVars =>
        [Standing => /\ Standing'
                     /\ UNCHANGED <<pose, told>>
                     /\ IsInjective(spot) => UNCHANGED role]_roleVars
  BY StandingStep
<1> QED
  BY <1>1, <1>2, <1>3, PTL DEF RolesSpec

(***************************************************************************)
(* Both parts of the team's agreement keep their types, side by side.      *)
(***************************************************************************)
THEOREM TeamTypeCorrect ==
  MCSpec => []TeamTypeOK
<1> DEFINE BothIInv == TypeOK /\ RolesIInv
           allVars == <<part, vars, roleVars>>
<1>1. MCInit => BothIInv
  BY InitTypeOK, RolesInitIInv DEF MCInit
<1>2. ASSUME BothIInv, [MCNext]_allVars
      PROVE  BothIInv'
  <2>1. [Next]_vars /\ [RolesNext]_roleVars
    BY <1>2 DEF MCNext
  <2> QED
    BY <1>2, <2>1, NextTypes, RolesNextIInv
<1>3. BothIInv => TeamTypeOK
  BY DEF TeamTypeOK, RolesIInv
<1>4. BothIInv /\ [MCNext]_allVars => BothIInv'
  BY <1>2
<1> QED
  BY <1>1, <1>3, <1>4, PTL DEF MCSpec
=============================================================================
