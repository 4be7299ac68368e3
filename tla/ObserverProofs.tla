----------------------------- MODULE ObserverProofs -----------------------------
(***************************************************************************)
(* Spectators, for any number of slots and any spots.  What is proved of a *)
(* step is proved of the record that the functions of observer.cpp return: *)
(* its fields are of their types, and iuser2 agrees with the mode and the  *)
(* target (Follows).  What is proved of the two searches holds in every    *)
(* state: they miss nobody, and going back undoes going on.                *)
(***************************************************************************)
EXTENDS Observer, WellFoundedInduction, TLAPS

Mode    == OBS_NONE..OBS_MAP_CHASE
Entity  == {NULL} \cup Slots \cup Spots
Record  == [iuser1 : Mode, iuser2 : {NULL} \cup Slots, mode : Mode, target : Entity]

(* What PhysicsFollowTarget says of one record.                            *)
Follows(e) ==
  /\ e.iuser1 \in Tracking => e.iuser2 = e.target
  /\ e.iuser1 \notin Tracking => e.iuser2 = NULL

Good == {e \in Record : Follows(e)}

USE DEF OBS_NONE, OBS_CHASE_LOCKED, OBS_CHASE_FREE, OBS_ROAMING, OBS_IN_EYE, OBS_MAP_FREE,
        OBS_MAP_CHASE, NULL

-----------------------------------------------------------------------------
(* The searches.                                                           *)

LEMMA FirstMembers == \A S : First(S) \subseteq S /\ Last(S) \subseteq S
BY DEF First, Last

(* A set of natural numbers that is not empty has a least member.          *)
LEMMA Least ==
  ASSUME NEW S, S \subseteq Nat, S # {}
  PROVE  \E x \in S : \A y \in S : x <= y
<1> DEFINE R == {ss \in Nat \X Nat : ss[1] < ss[2]}
<1>1. IsWellFoundedOn(R, Nat)
  BY NatLessThanWellFounded, Zenon DEF OpToRel
<1>2. \A x, y \in Nat : y < x => <<y, x>> \in R
  BY SMT
<1> HIDE DEF R
<1>3. PICK x \in S : \A y \in S : ~(<<y, x>> \in R)
  BY <1>1, WFMin, Zenon
<1>4. \A y \in S : ~(y < x)
  BY <1>2, <1>3, Zenon
<1>5. \A y \in S : x <= y
  BY <1>4
<1> QED BY <1>5

(* The least member is the only one, and so is the greatest.               *)
LEMMA FirstIs ==
  ASSUME NEW S, S \subseteq Nat, NEW x \in S
  PROVE  /\ (\A y \in S : x <= y) => First(S) = {x} /\ (CHOOSE d \in First(S) : TRUE) = x
         /\ (\A y \in S : y <= x) => Last(S) = {x} /\ (CHOOSE d \in Last(S) : TRUE) = x
<1>1. ASSUME \A y \in S : x <= y PROVE First(S) = {x}
  <2>1. \A z \in First(S) : z \in S /\ z <= x /\ x <= z /\ z \in Nat /\ x \in Nat
    BY <1>1 DEF First
  <2>2. \A z \in First(S) : z = x
    BY <2>1
  <2>3. x \in First(S)
    BY <1>1 DEF First
  <2> QED BY <2>2, <2>3
<1>2. ASSUME \A y \in S : y <= x PROVE Last(S) = {x}
  <2>1. \A z \in Last(S) : z \in S /\ z <= x /\ x <= z /\ z \in Nat /\ x \in Nat
    BY <1>2 DEF Last
  <2>2. \A z \in Last(S) : z = x
    BY <2>1
  <2>3. x \in Last(S)
    BY <1>2 DEF Last
  <2> QED BY <2>2, <2>3
<1>3. (CHOOSE d \in {x} : TRUE) = x
  OBVIOUS
<1> QED BY <1>1, <1>2, <1>3

(* The search round the table comes by every slot, and back to where it    *)
(* began last; going the other way, it comes by the same slots.            *)
LEMMA AroundSlots ==
  ASSUME NEW start \in Slots, NEW d \in 1..maxClients, NEW b \in BOOLEAN
  PROVE  Around(start, d, b) \in Slots
BY ObserverConstantsOK DEF Around, Slots

LEMMA AroundReaches ==
  ASSUME NEW start \in Slots, NEW p \in Slots, NEW b \in BOOLEAN
  PROVE  \E d \in 1..maxClients : Around(start, d, b) = p /\ (p # start => d < maxClients)
<1> DEFINE d == IF b THEN IF p < start THEN start - p ELSE start - p + maxClients
                     ELSE IF start < p THEN p - start ELSE p - start + maxClients
<1>1. maxClients \in Nat \ {0} /\ start \in 1..maxClients /\ p \in 1..maxClients
  BY ObserverConstantsOK DEF Slots
<1>2. d \in 1..maxClients /\ (p # start => d < maxClients)
  BY <1>1
<1>3. Around(start, d, b) = p
  BY <1>1 DEF Around
<1> QED BY <1>2, <1>3

LEMMA AroundBack ==
  ASSUME NEW start \in Slots, NEW d \in 1..maxClients
  PROVE  /\ Around(start, d, FALSE) = start => d = maxClients
         /\ \A k \in 1..maxClients : k < d =>
              Around(Around(start, d, FALSE), k, TRUE) = Around(start, d - k, FALSE)
         /\ Around(Around(start, d, FALSE), d, TRUE) = start
<1>1. maxClients \in Nat \ {0} /\ start \in 1..maxClients
  BY ObserverConstantsOK DEF Slots
<1> QED BY <1>1 DEF Around

(* Where the search for a player begins.                                   *)
Start(s, target) == IF target \in Slots THEN target ELSE s

Nearest(s, start, b, d) ==
  /\ Watchable(s, Around(start, d, b))
  /\ \A k \in 1..maxClients : k < d => ~Watchable(s, Around(start, k, b))

(* The player found is the nearest who may be watched.                     *)
LEMMA NextPlayerIs ==
  ASSUME NEW s, NEW target, NEW b \in BOOLEAN, NEW d \in 1..maxClients,
         Nearest(s, Start(s, target), b, d)
  PROVE  NextPlayer(s, target, b) = Around(Start(s, target), d, b)
<1> DEFINE start == Start(s, target)
           C     == Candidates(s, start, b)
<1>1. maxClients \in Nat
  BY ObserverConstantsOK
<1>2. C \subseteq Nat /\ d \in C /\ \A k \in C : d <= k
  BY <1>1 DEF Candidates, Nearest
<1>3. NextPlayer(s, target, b) =
        IF First(C) = {} THEN NULL ELSE Around(start, CHOOSE x \in First(C) : TRUE, b)
  BY DEF NextPlayer, Start
<1> HIDE DEF C
<1>4. First(C) = {d} /\ (CHOOSE x \in First(C) : TRUE) = d
  BY <1>2, FirstIs
<1> HIDE DEF start
<1> QED BY <1>3, <1>4 DEF start

(* So there is one if there is anybody to watch.                           *)
LEMMA NearestExists ==
  ASSUME NEW s, NEW start \in Slots, NEW b \in BOOLEAN, NEW p \in Slots, Watchable(s, p)
  PROVE  \E d \in 1..maxClients : Nearest(s, start, b, d) /\ (p # start => d < maxClients)
<1> DEFINE C == Candidates(s, start, b)
<1>1. maxClients \in Nat
  BY ObserverConstantsOK
<1>2. PICK c \in 1..maxClients : Around(start, c, b) = p /\ (p # start => c < maxClients)
  BY AroundReaches
<1>3. C \subseteq 1..maxClients /\ c \in C
  BY <1>2 DEF Candidates
<1>4. \E x \in C : \A y \in C : x <= y
  <2> HIDE DEF C
  <2>1. C \subseteq Nat /\ C # {}
    BY <1>1, <1>3
  <2> QED BY <2>1, Least
<1>5. PICK d \in C : \A k \in C : d <= k
  BY <1>4
<1>6. d \in 1..maxClients /\ Watchable(s, Around(start, d, b)) /\ d <= c
  BY <1>3, <1>5 DEF Candidates
<1>7. \A k \in 1..maxClients : k < d => ~Watchable(s, Around(start, k, b))
  BY <1>5, <1>6 DEF Candidates
<1>8. p # start => d < maxClients
  BY <1>1, <1>2, <1>6
<1> QED BY <1>6, <1>7, <1>8 DEF Nearest

LEMMA NextPlayerExists ==
  ASSUME NEW s \in Slots, NEW target, NEW b \in BOOLEAN, NextPlayer(s, target, b) = NULL
  PROVE  \A p \in Slots : ~Watchable(s, p)
<1> SUFFICES ASSUME NEW p \in Slots, Watchable(s, p) PROVE FALSE
  OBVIOUS
<1>1. Start(s, target) \in Slots
  BY DEF Start
<1>2. PICK d \in 1..maxClients : Nearest(s, Start(s, target), b, d)
  BY <1>1, NearestExists
<1>3. NextPlayer(s, target, b) = Around(Start(s, target), d, b)
  BY <1>2, NextPlayerIs
<1>4. Around(Start(s, target), d, b) \in Slots
  BY <1>1, AroundSlots
<1> QED BY <1>3, <1>4, ObserverConstantsOK DEF Slots

(* What lies between two players has nobody to watch in it, whichever way  *)
(* one goes.                                                               *)
LEMMA PreviousPlayer ==
  ASSUME NEW s \in Slots, NEW p \in Slots, Watchable(s, p)
  PROVE  /\ NextPlayer(s, NextPlayer(s, p, FALSE), TRUE) = p
         /\ \A q \in Slots : Watchable(s, q) /\ p # q => NextPlayer(s, p, FALSE) # p
<1>1. \A q \in Slots : Start(s, q) = q
  BY DEF Start
<1>2. ASSUME NEW q \in Slots, Watchable(s, q), p # q PROVE NextPlayer(s, p, FALSE) # p
  <2>1. PICK d \in 1..maxClients : Nearest(s, p, FALSE, d) /\ d < maxClients
    BY <1>2, NearestExists
  <2>2. NextPlayer(s, p, FALSE) = Around(p, d, FALSE)
    <3>1. Nearest(s, Start(s, p), FALSE, d)
      BY <1>1, <2>1
    <3>2. NextPlayer(s, p, FALSE) = Around(Start(s, p), d, FALSE)
      BY <3>1, NextPlayerIs
    <3> QED BY <1>1, <3>2
  <2>3. Around(p, d, FALSE) # p
    <3>1. d # maxClients
      BY <2>1, ObserverConstantsOK
    <3> QED BY <3>1, AroundBack
  <2> QED BY <2>2, <2>3
<1>3. PICK d \in 1..maxClients : Nearest(s, p, FALSE, d)
  BY NearestExists
<1> DEFINE n == Around(p, d, FALSE)
<1>4. NextPlayer(s, p, FALSE) = n
  <2>1. Nearest(s, Start(s, p), FALSE, d)
    BY <1>1, <1>3
  <2>2. NextPlayer(s, p, FALSE) = Around(Start(s, p), d, FALSE)
    BY <2>1, NextPlayerIs
  <2> QED BY <1>1, <2>2
<1>5. n \in Slots /\ Around(n, d, TRUE) = p
  BY AroundSlots, AroundBack
<1>6. Nearest(s, n, TRUE, d)
  <2>1. ASSUME NEW k \in 1..maxClients, k < d PROVE ~Watchable(s, Around(n, k, TRUE))
    <3>1. Around(n, k, TRUE) = Around(p, d - k, FALSE)
      BY <2>1, AroundBack
    <3>2. d - k \in 1..maxClients /\ d - k < d
      BY <2>1, ObserverConstantsOK
    <3> QED BY <1>3, <3>1, <3>2 DEF Nearest
  <2> HIDE DEF n
  <2> QED BY <1>5, <2>1 DEF Nearest
<1>7. NextPlayer(s, n, TRUE) = p
  <2> HIDE DEF n
  <2>1. Nearest(s, Start(s, n), TRUE, d)
    BY <1>1, <1>5, <1>6
  <2>2. NextPlayer(s, n, TRUE) = Around(Start(s, n), d, TRUE)
    BY <2>1, NextPlayerIs
  <2> QED BY <1>1, <1>5, <2>2
<1> QED BY <1>2, <1>4, <1>7

(* The next player is one that may be watched, or none.                    *)
LEMMA NextPlayerWatchable ==
  ASSUME NEW s \in Slots, NEW target, NEW b \in BOOLEAN
  PROVE  LET p == NextPlayer(s, target, b) IN p = NULL \/ (p \in Slots /\ Watchable(s, p))
<1> DEFINE start == IF target \in Slots THEN target ELSE s
           found == First(Candidates(s, start, b))
<1>1. CASE found = {}
  BY <1>1 DEF NextPlayer
<1>2. CASE found # {}
  <2>1. PICK d : d = (CHOOSE x \in found : TRUE) /\ d \in found
    BY <1>2
  <2>2. d \in 1..maxClients /\ Watchable(s, Around(start, d, b))
    BY <2>1, FirstMembers DEF Candidates
  <2>3. NextPlayer(s, target, b) = Around(start, d, b)
    BY <1>2, <2>1 DEF NextPlayer
  <2>4. Around(start, d, b) \in Slots
    BY <2>2, AroundSlots
  <2> QED BY <2>2, <2>3, <2>4
<1> QED BY <1>1, <1>2

LEMMA NextSpotType ==
  ASSUME NEW target, NEW b \in BOOLEAN
  PROVE  NextSpot(target, b) \in {NULL} \cup Spots
<1> DEFINE rounds == {i \in 0..(classesCount - 1) : SpotsTried(target, b, i) # {}}
           tried  == UNION {SpotsTried(target, b, i) : i \in First(rounds)}
           found  == IF b THEN Last(tried) ELSE First(tried)
<1>1. tried \subseteq Spots
  BY DEF SpotsTried
<1>2. found \subseteq Spots
  <2> HIDE DEF tried
  <2> QED BY <1>1, FirstMembers
<1>3. NextSpot(target, b) = IF found = {} THEN NULL ELSE CHOOSE e \in found : TRUE
  BY DEF NextSpot
<1> HIDE DEF found
<1> QED BY <1>2, <1>3

(* The spot found is the first of the first round that has one.            *)
LEMMA NextSpotIs ==
  ASSUME NEW target, NEW b \in BOOLEAN, NEW i \in 0..(classesCount - 1),
         \A j \in 0..(classesCount - 1) : j < i => SpotsTried(target, b, j) = {},
         NEW x \in SpotsTried(target, b, i),
         \A y \in SpotsTried(target, b, i) : IF b THEN y <= x ELSE x <= y
  PROVE  NextSpot(target, b) = x
<1> DEFINE rounds == {j \in 0..(classesCount - 1) : SpotsTried(target, b, j) # {}}
           tried  == UNION {SpotsTried(target, b, j) : j \in First(rounds)}
           found  == IF b THEN Last(tried) ELSE First(tried)
<1>1. NextSpot(target, b) = IF found = {} THEN NULL ELSE CHOOSE e \in found : TRUE
  BY DEF NextSpot
<1>2. rounds \subseteq Nat /\ i \in rounds /\ \A j \in rounds : i <= j
  BY DEF classesCount
<1>3. First(rounds) = {i}
  <2> HIDE DEF rounds
  <2> QED BY <1>2, FirstIs
<1>4. tried = SpotsTried(target, b, i)
  BY <1>3
<1>5. SpotsTried(target, b, i) \subseteq Nat
  BY ObserverConstantsOK DEF SpotsTried, Spots
<1> HIDE DEF tried
<1>6. found = {x} /\ (CHOOSE e \in found : TRUE) = x
  BY <1>4, <1>5, FirstIs
<1> HIDE DEF found
<1> QED BY <1>1, <1>6

LEMMA NextSpotNone ==
  ASSUME NEW target, NEW b \in BOOLEAN,
         \A j \in 0..(classesCount - 1) : SpotsTried(target, b, j) = {}
  PROVE  NextSpot(target, b) = NULL
<1> DEFINE rounds == {j \in 0..(classesCount - 1) : SpotsTried(target, b, j) # {}}
           tried  == UNION {SpotsTried(target, b, j) : j \in First(rounds)}
<1>1. rounds = {}
  OBVIOUS
<1>2. First(rounds) = {}
  BY <1>1 DEF First
<1>3. tried = {}
  BY <1>2
<1>4. First(tried) = {} /\ Last(tried) = {}
  BY <1>3 DEF First, Last
<1> QED BY <1>4 DEF NextSpot

(* The classes that are tried, forwards and backwards.                     *)
LEMMA SpotFacts ==
  ASSUME NEW e \in Spots
  PROVE  /\ e \in Nat /\ e # NULL /\ e \notin Slots /\ ClassOf(e) \in 0..3
<1>1. e - maxClients \in 1..Len(SpotClass) /\ Len(SpotClass) \in Nat /\ maxClients \in Nat \ {0}
  BY ObserverConstantsOK DEF Spots
<1>2. SpotClass[e - maxClients] \in 0..3
  BY <1>1, ObserverConstantsOK DEF classesCount
<1> QED BY <1>1, <1>2 DEF ClassOf, Spots, Slots

ClassAfter(c, i) == IF c + i < 4 THEN c + i ELSE c + i - 4

LEMMA ClassesInTurn ==
  \A c \in 0..3, i \in 0..4 : (c + i) % classesCount = ClassAfter(c, i)
BY DEF classesCount, ClassAfter

LEMMA TriedFrom ==
  ASSUME NEW e \in Spots, NEW i \in 0..3
  PROVE  /\ SpotsTried(e, FALSE, i) =
              {x \in Spots : ClassOf(x) = ClassAfter(ClassOf(e), i) /\ (i = 0 => x > e)}
         /\ SpotsTried(e, TRUE, i) =
              {x \in Spots : ClassOf(x) = ClassAfter(ClassOf(e), 4 - i) /\ (i = 0 => x < e)}
         /\ SpotsTried(NULL, TRUE, i) = {x \in Spots : ClassOf(x) = ClassAfter(0, 4 - i)}
<1>1. ClassOf(e) \in 0..3 /\ e # NULL /\ NULL \notin Spots
  BY SpotFacts
<1>2. (ClassOf(e) + i) % classesCount = ClassAfter(ClassOf(e), i)
  BY <1>1, ClassesInTurn
<1>3. (ClassOf(e) + (classesCount - i)) % classesCount = ClassAfter(ClassOf(e), 4 - i)
  <2>1. classesCount - i = 4 - i /\ 4 - i \in 0..4
    BY DEF classesCount
  <2> QED BY <1>1, <2>1, ClassesInTurn
<1>4. (0 + (classesCount - i)) % classesCount = ClassAfter(0, 4 - i)
  <2>1. classesCount - i = 4 - i /\ 4 - i \in 0..4
    BY DEF classesCount
  <2> QED BY <2>1, ClassesInTurn
<1>5. SpotsTried(e, FALSE, i) =
        {x \in Spots : ClassOf(x) = ClassAfter(ClassOf(e), i) /\ (i = 0 => x > e)}
  BY <1>1, <1>2 DEF SpotsTried
<1>6. SpotsTried(e, TRUE, i) =
        {x \in Spots : ClassOf(x) = ClassAfter(ClassOf(e), 4 - i) /\ (i = 0 => x < e)}
  BY <1>1, <1>3 DEF SpotsTried
<1>7. SpotsTried(NULL, TRUE, i) = {x \in Spots : ClassOf(x) = ClassAfter(0, 4 - i)}
  BY <1>1, <1>4 DEF SpotsTried
<1> QED BY <1>5, <1>6, <1>7

(* The classes between that of a spot and that of the next one have no     *)
(* spots, whichever way one goes; and if there is no other spot beyond, it *)
(* is the last of the only class.                                          *)
LEMMA PreviousSpot ==
  ASSUME NEW e \in Spots PROVE NextSpot(NextSpot(e, FALSE), TRUE) = e
<1> DEFINE c == ClassOf(e)
           T(i) == SpotsTried(e, FALSE, i)
<1>1. /\ \A x \in Spots : x \in Nat /\ ClassOf(x) \in 0..3
      /\ e \in Nat /\ c \in 0..3 /\ classesCount - 1 = 3
  BY SpotFacts DEF classesCount
<1>2. \A i \in 0..3 : T(i) = {x \in Spots : ClassOf(x) = ClassAfter(c, i) /\ (i = 0 => x > e)}
  BY TriedFrom
<1> HIDE DEF c, T
<1>3. CASE \E i \in 0..3 : T(i) # {}
  <2>1. PICK i \in 0..3 : T(i) # {} /\ \A j \in 0..3 : j < i => T(j) = {}
    <3> DEFINE R == {i \in 0..3 : T(i) # {}}
    <3>1. R \subseteq Nat /\ R # {}
      BY <1>3
    <3>2. PICK i \in R : \A j \in R : i <= j
      <4> HIDE DEF R
      <4> QED BY <3>1, Least
    <3> QED BY <3>2
  <2>2. T(i) \subseteq Spots /\ T(i) \subseteq Nat
    BY <1>1, <1>2
  <2>3. PICK n \in T(i) : \A y \in T(i) : n <= y
    BY <2>1, <2>2, Least
  <2>4. /\ n \in Spots /\ n \in Nat /\ ClassOf(n) = ClassAfter(c, i) /\ (i = 0 => n > e)
    BY <1>1, <1>2, <2>3
  <2>5. NextSpot(e, FALSE) = n
    BY <1>1, <2>1, <2>3, NextSpotIs DEF T
  <2>6. \A j \in 0..3 : SpotsTried(n, TRUE, j) =
          {x \in Spots : ClassOf(x) = ClassAfter(ClassAfter(c, i), 4 - j) /\ (j = 0 => x < n)}
    <3>1. \A j \in 0..3 : SpotsTried(n, TRUE, j) =
            {x \in Spots : ClassOf(x) = ClassAfter(ClassOf(n), 4 - j) /\ (j = 0 => x < n)}
      BY <2>4, TriedFrom
    <3> QED BY <2>4, <3>1
  <2>7. ASSUME NEW j \in 0..3, j < i, NEW x \in SpotsTried(n, TRUE, j) PROVE FALSE
    <3>1. /\ x \in Spots /\ x \in Nat /\ (j = 0 => x < n)
          /\ ClassOf(x) = ClassAfter(ClassAfter(c, i), 4 - j)
      BY <1>1, <2>6, <2>7
    <3>2. CASE j = 0
      <4>1. ClassAfter(ClassAfter(c, i), 4) = ClassAfter(c, i)
        BY <1>1 DEF ClassAfter
      <4>2. x \in T(i)
        BY <1>2, <2>7, <3>1, <3>2, <4>1
      <4> QED BY <2>3, <2>4, <3>1, <3>2, <4>2
    <3>3. CASE j # 0
      <4>1. i - j \in 0..3 /\ i - j < i /\ i - j # 0
        BY <2>7, <3>3
      <4>2. ClassAfter(ClassAfter(c, i), 4 - j) = ClassAfter(c, i - j)
        BY <1>1, <2>7, <3>3 DEF ClassAfter
      <4>3. x \in T(i - j)
        BY <1>2, <3>1, <4>1, <4>2
      <4> QED BY <2>1, <4>1, <4>3
    <3> QED BY <3>2, <3>3
  <2>8. ClassAfter(ClassAfter(c, i), 4 - i) = c
    BY <1>1 DEF ClassAfter
  <2>9. e \in SpotsTried(n, TRUE, i)
    BY <1>1, <2>4, <2>6, <2>8 DEF c
  <2>10. ASSUME NEW y \in SpotsTried(n, TRUE, i) PROVE y <= e
    <3>1. y \in Spots /\ y \in Nat /\ ClassOf(y) = c /\ (i = 0 => y < n)
      BY <1>1, <2>6, <2>8, <2>10
    <3>2. ClassAfter(c, 0) = c
      BY <1>1 DEF ClassAfter
    <3>3. y > e => y \in T(0)
      BY <1>2, <3>1, <3>2
    <3>4. i # 0 => T(0) = {}
      BY <2>1
    <3>5. ~(y > e)
      BY <2>3, <2>4, <3>1, <3>3, <3>4
    <3> QED BY <1>1, <3>1, <3>5
  <2>11. \A j \in 0..3 : j < i => SpotsTried(n, TRUE, j) = {}
    BY <2>7
  <2>12. NextSpot(n, TRUE) = e
    BY <1>1, <2>9, <2>10, <2>11, NextSpotIs
  <2> QED BY <2>5, <2>12
<1>4. CASE \A i \in 0..3 : T(i) = {}
  <2>1. NextSpot(e, FALSE) = NULL
    BY <1>1, <1>4, NextSpotNone DEF T
  <2>2. ASSUME NEW x \in Spots PROVE ClassOf(x) = c /\ x <= e
    <3>1. PICK i \in 0..3 : ClassOf(x) = ClassAfter(c, i)
      <4> DEFINE i == IF c <= ClassOf(x) THEN ClassOf(x) - c ELSE ClassOf(x) - c + 4
      <4>1. i \in 0..3 /\ ClassOf(x) = ClassAfter(c, i)
        BY <1>1 DEF ClassAfter
      <4> QED BY <4>1
    <3>2. i = 0 /\ ~(x > e)
      BY <1>2, <1>4, <3>1
    <3>3. ClassAfter(c, 0) = c
      BY <1>1 DEF ClassAfter
    <3> QED BY <1>1, <3>1, <3>2, <3>3
  <2> DEFINE i == IF c = 0 THEN 0 ELSE 4 - c
  <2>3. \A j \in 0..3 :
          SpotsTried(NULL, TRUE, j) = {x \in Spots : ClassOf(x) = ClassAfter(0, 4 - j)}
    BY TriedFrom
  <2>4. i \in 0..3 /\ ClassAfter(0, 4 - i) = c /\ \A j \in 0..3 : j < i => ClassAfter(0, 4 - j) # c
    BY <1>1 DEF ClassAfter
  <2> HIDE DEF i
  <2>5. \A j \in 0..3 : j < i => SpotsTried(NULL, TRUE, j) = {}
    BY <2>2, <2>3, <2>4
  <2>6. e \in SpotsTried(NULL, TRUE, i) /\ \A y \in SpotsTried(NULL, TRUE, i) : y <= e
    BY <2>2, <2>3, <2>4
  <2>7. NextSpot(NULL, TRUE) = e
    BY <1>1, <2>4, <2>5, <2>6, NextSpotIs
  <2> QED BY <2>1, <2>7
<1> QED BY <1>3, <1>4

-----------------------------------------------------------------------------
(* The functions of observer.cpp.                                          *)

LEMMA FindNextPlayerGood ==
  ASSUME NEW s \in Slots, NEW e \in Record, e.iuser1 # OBS_NONE, NEW b \in BOOLEAN
  PROVE  LET r == FindNextPlayer(s, e, b)
         IN  /\ r \in Good /\ r.iuser1 = e.iuser1 /\ r.mode = e.mode
             /\ r.target = NextPlayer(s, e.target, b)
<1> DEFINE next == NextPlayer(s, e.target, b)
           r    == FindNextPlayer(s, e, b)
<1>1. next \in {NULL} \cup Slots
  BY NextPlayerWatchable
<1>2. r = [e EXCEPT !.target = next,
                    !.iuser2 = IF e.iuser1 \in {OBS_ROAMING, OBS_MAP_FREE} THEN NULL ELSE next]
  BY DEF FindNextPlayer
<1> HIDE DEF next, r
<1>3. r = [iuser1 |-> e.iuser1, mode |-> e.mode, target |-> next,
           iuser2 |-> IF e.iuser1 \in {OBS_ROAMING, OBS_MAP_FREE} THEN NULL ELSE next]
  BY <1>2 DEF Record
<1>4. r \in Record
  BY <1>1, <1>3 DEF Record, Entity
<1>5. Follows(r)
  BY <1>3 DEF Follows, Tracking, Record, Mode
<1> QED BY <1>3, <1>4, <1>5 DEF Good, next, r

LEMMA FindNextSpotGood ==
  ASSUME NEW s \in Slots, NEW e \in Good, e.iuser1 = OBS_ROAMING, NEW b \in BOOLEAN
  PROVE  LET r == FindNextSpot(s, e, b)
         IN  r \in Good /\ r.iuser1 = e.iuser1 /\ r.mode = e.mode
<1>1. e \in Record /\ Follows(e)
  BY DEF Good
<1>2. CASE NextSpot(e.target, b) = NULL
  BY <1>1, <1>2, FindNextPlayerGood DEF FindNextSpot
<1>3. CASE NextSpot(e.target, b) # NULL
  <2> DEFINE next == NextSpot(e.target, b)
  <2>1. next \in Spots
    BY <1>3, NextSpotType
  <2>2. FindNextSpot(s, e, b) = [e EXCEPT !.target = next]
    BY <1>3 DEF FindNextSpot
  <2> HIDE DEF next
  <2>3. [e EXCEPT !.target = next] \in Record
    BY <1>1, <2>1 DEF Record, Entity
  <2>4. Follows([e EXCEPT !.target = next])
    BY <1>1 DEF Record, Follows, Tracking
  <2> QED BY <1>1, <2>2, <2>3, <2>4 DEF Good, Record
<1> QED BY <1>2, <1>3

LEMMA RoamGood ==
  ASSUME NEW e \in Record
  PROVE  Roam(e) \in Good /\ Roam(e).iuser1 = OBS_ROAMING /\ Roam(e).mode = OBS_ROAMING
<1>1. Roam(e).iuser1 = OBS_ROAMING /\ Roam(e).mode = OBS_ROAMING /\ Roam(e).iuser2 = NULL
  BY DEF Roam, Record
<1>2. Roam(e) \in Record
  <2> DEFINE a == [e EXCEPT !.mode = OBS_ROAMING]
             b == [a EXCEPT !.iuser1 = OBS_ROAMING]
             c == [b EXCEPT !.iuser2 = NULL]
  <2>1. OBS_ROAMING \in Mode
    BY DEF Mode
  <2>2. a \in Record
    BY <2>1 DEF Record
  <2>3. b \in Record
    <3> HIDE DEF a
    <3> QED BY <2>1, <2>2 DEF Record
  <2>4. c \in Record
    <3> HIDE DEF b
    <3> QED BY <2>3 DEF Record
  <2> QED BY <2>4 DEF Roam
<1>3. Follows(Roam(e))
  BY <1>1 DEF Follows, Tracking
<1> QED BY <1>1, <1>2, <1>3 DEF Good

(* After CheckTarget the record is good, whatever iuser2 was before, and a *)
(* tracking observer has a target that he may watch.                       *)
LEMMA CheckTargetGood ==
  ASSUME m_bConnected \subseteq Slots, NEW s \in Slots, NEW e \in Record, e.iuser1 # OBS_NONE
  PROVE  LET r == CheckTarget(s, e)
         IN  /\ r \in Good /\ r.iuser1 # OBS_NONE
             /\ e.mode # OBS_NONE => r.mode # OBS_NONE
             /\ r.iuser1 \in Tracking => Watchable(s, r.target)
             /\ r.iuser1 = e.iuser1 \/ \A p \in Slots : ~Watchable(s, p)
<1> DEFINE kept  == [e EXCEPT !.target = IF Unfit(s, e.target) THEN NULL ELSE e.target]
           found == IF kept.target = NULL THEN FindNextPlayer(s, kept, FALSE) ELSE kept
           r     == CheckTarget(s, e)
<1>1. CASE e.iuser1 \in {OBS_ROAMING, OBS_MAP_FREE}
  <2>1. r = [iuser1 |-> e.iuser1, iuser2 |-> NULL, mode |-> e.mode, target |-> e.target]
    BY <1>1 DEF CheckTarget, Record
  <2> HIDE DEF r
  <2>2. r \in Record
    BY <2>1 DEF Record
  <2>3. r.iuser1 \notin Tracking /\ Follows(r)
    BY <1>1, <2>1 DEF Follows, Tracking
  <2> QED BY <2>1, <2>2, <2>3 DEF Good, r
<1>2. CASE e.iuser1 \notin {OBS_ROAMING, OBS_MAP_FREE}
  <2>1. /\ kept \in Record /\ kept.iuser1 = e.iuser1 /\ kept.mode = e.mode
        /\ kept.target = IF Unfit(s, e.target) THEN NULL ELSE e.target
    BY DEF Record, Entity
  <2>2. r = IF found.target = NULL THEN Roam(found) ELSE [found EXCEPT !.iuser2 = found.target]
    BY <1>2 DEF CheckTarget
  <2> HIDE DEF kept, r
  <2>3. found \in Record /\ found.iuser1 = e.iuser1 /\ found.mode = e.mode
    BY <2>1, FindNextPlayerGood DEF Good
  <2>4. found.target # NULL => found.target \in Slots /\ Watchable(s, found.target)
    <3>1. CASE kept.target = NULL
      BY <2>1, <3>1, FindNextPlayerGood, NextPlayerWatchable, ZenonT(60)
    <3>2. CASE kept.target # NULL
      <4>1. ~Unfit(s, e.target) /\ found.target = e.target
        BY <2>1, <3>2
      <4> QED BY <4>1 DEF Unfit, Watchable
    <3> QED BY <3>1, <3>2
  <2> HIDE DEF found
  <2>5. CASE found.target = NULL
    <3>1. r = Roam(found)
      BY <2>2, <2>5
    <3>2. r \in Good /\ r.iuser1 = OBS_ROAMING /\ r.mode = OBS_ROAMING
      BY <2>3, <3>1, RoamGood
    <3>3. kept.target = NULL /\ NextPlayer(s, kept.target, FALSE) = NULL
      BY <2>1, <2>5, FindNextPlayerGood DEF found
    <3>4. \A p \in Slots : ~Watchable(s, p)
      BY <3>3, NextPlayerExists
    <3> QED BY <3>2, <3>4 DEF Tracking, r
  <2>6. CASE found.target # NULL
    <3>1. r = [iuser1 |-> e.iuser1, iuser2 |-> found.target, mode |-> e.mode,
               target |-> found.target]
      BY <2>2, <2>3, <2>6 DEF Record
    <3>2. r \in Record
      BY <2>3, <2>4, <2>6, <3>1 DEF Record, Entity
    <3>3. Follows(r)
      BY <1>2, <3>1 DEF Follows, Tracking, Record, Mode
    <3> QED BY <2>4, <2>6, <3>1, <3>2, <3>3 DEF Good, r
  <2> QED BY <2>5, <2>6 DEF r
<1> QED BY <1>1, <1>2

(* A mode that is asked for makes an observer, or changes nothing.         *)
LEMMA SetModeGood ==
  ASSUME m_bConnected \subseteq Slots, NEW s \in Slots, NEW e \in Good, NEW iMode \in Nat
  PROVE  LET r == SetMode(s, e, iMode)
         IN  /\ r \in Good
             /\ r.iuser1 # OBS_NONE \/ (r = e /\ iMode = OBS_NONE)
             /\ e.mode # OBS_NONE => r.mode # OBS_NONE
<1> DEFINE valid == IF iMode \in OBS_CHASE_LOCKED..OBS_MAP_CHASE THEN iMode ELSE OBS_ROAMING
           asked == [e EXCEPT !.mode = valid, !.iuser1 = valid]
<1>1. e \in Record
  BY DEF Good
<1>2. CASE iMode = e.iuser1
  BY <1>2 DEF SetMode
<1>3. CASE iMode # e.iuser1
  <2>1. valid \in Mode /\ valid # OBS_NONE
    BY DEF Mode
  <2>2. SetMode(s, e, iMode) = CheckTarget(s, asked)
    BY <1>3 DEF SetMode
  <2> HIDE DEF valid
  <2>3. asked \in Record /\ asked.iuser1 # OBS_NONE /\ asked.mode # OBS_NONE
    BY <1>1, <2>1 DEF Record
  <2> HIDE DEF asked
  <2> QED BY <2>2, <2>3, CheckTargetGood
<1> QED BY <1>2, <1>3

LEMMA MoveGood ==
  ASSUME NEW s \in Slots, NEW e \in Good, e.iuser1 # OBS_NONE, NEW b \in BOOLEAN
  PROVE  LET r == Move(s, e, b) IN r \in Good /\ r.iuser1 = e.iuser1 /\ r.mode = e.mode
<1>1. e \in Record
  BY DEF Good
<1>2. CASE e.iuser1 = OBS_MAP_FREE
  BY <1>2 DEF Move
<1>3. CASE e.iuser1 = OBS_ROAMING
  BY <1>3, FindNextSpotGood DEF Move
<1>4. CASE e.iuser1 \notin {OBS_MAP_FREE, OBS_ROAMING}
  BY <1>1, <1>4, FindNextPlayerGood DEF Move
<1> QED BY <1>2, <1>3, <1>4

LEMMA HandleButtonsGood ==
  ASSUME m_bConnected \subseteq Slots, NEW s \in Slots, NEW e \in Good, e.iuser1 # OBS_NONE,
         NEW jump \in BOOLEAN, NEW attack
  PROVE  LET r == HandleButtons(s, e, jump, attack)
         IN  /\ r \in Good /\ r.iuser1 # OBS_NONE
             /\ e.mode # OBS_NONE => r.mode # OBS_NONE
             /\ ~jump => r.iuser1 = e.iuser1
<1> DEFINE jumped == IF jump THEN SetMode(s, e, ModeAfter(e.iuser1)) ELSE e
<1>1. ModeAfter(e.iuser1) \in 1..6
  BY DEF ModeAfter
<1>2. /\ jumped \in Good /\ jumped.iuser1 # OBS_NONE
      /\ e.mode # OBS_NONE => jumped.mode # OBS_NONE
      /\ ~jump => jumped.iuser1 = e.iuser1
  <2>1. ModeAfter(e.iuser1) \in Nat /\ ModeAfter(e.iuser1) # OBS_NONE
    BY <1>1
  <2> QED BY <2>1, SetModeGood
<1>3. HandleButtons(s, e, jump, attack) =
        IF attack = "none" THEN jumped ELSE Move(s, jumped, attack = "attack2")
  BY DEF HandleButtons
<1> HIDE DEF jumped
<1>4. CASE attack = "none"
  BY <1>2, <1>3, <1>4
<1>5. CASE attack # "none"
  <2> DEFINE b == attack = "attack2"
  <2>1. b \in BOOLEAN
    OBVIOUS
  <2>2. HandleButtons(s, e, jump, attack) = Move(s, jumped, b)
    BY <1>3, <1>5
  <2> HIDE DEF b
  <2> QED BY <1>2, <2>1, <2>2, MoveGood
<1> QED BY <1>4, <1>5

(* A thought: an observer stays one, and then watches a player if he       *)
(* tracks; a player stays one.                                             *)
LEMMA ThoughtGood ==
  ASSUME m_bConnected \subseteq Slots, NEW s \in Slots, eyes[s] \in Good,
         NEW jump \in BOOLEAN, NEW attack
  PROVE  LET r == Thought(s, jump, attack)
         IN  /\ r \in Good
             /\ r.iuser1 # OBS_NONE <=> IsObserver(s)
             /\ s \in m_fGameHUDInitialized /\ eyes[s].mode # OBS_NONE => r.mode # OBS_NONE
             /\ s \notin m_fGameHUDInitialized => r.mode # OBS_NONE
             /\ r.iuser1 \in Tracking => Watchable(s, r.target)
             /\ ~jump /\ IsObserver(s) =>
                  r.iuser1 = eyes[s].iuser1 \/ \A p \in Slots : ~Watchable(s, p)
<1> DEFINE e == IF s \in m_fGameHUDInitialized THEN eyes[s]
                ELSE [eyes[s] EXCEPT !.mode = OBS_ROAMING]
<1>1. /\ e \in Good /\ e.iuser1 = eyes[s].iuser1
      /\ e.mode = IF s \in m_fGameHUDInitialized THEN eyes[s].mode ELSE OBS_ROAMING
  <2>1. CASE s \in m_fGameHUDInitialized
    BY <2>1
  <2>2. CASE s \notin m_fGameHUDInitialized
    <3>1. e = [eyes[s] EXCEPT !.mode = OBS_ROAMING]
      BY <2>2
    <3> HIDE DEF e
    <3>2. eyes[s] \in Record /\ Follows(eyes[s])
      BY DEF Good
    <3>3. e \in Record /\ e.iuser1 = eyes[s].iuser1 /\ e.mode = OBS_ROAMING
          /\ e.iuser2 = eyes[s].iuser2 /\ e.target = eyes[s].target
      BY <3>1, <3>2 DEF Record, Mode
    <3>4. Follows(e)
      BY <3>2, <3>3 DEF Follows
    <3> QED BY <2>2, <3>3, <3>4 DEF Good
  <2> QED BY <2>1, <2>2
<1>2. Thought(s, jump, attack) =
        IF IsObserver(s) THEN CheckTarget(s, HandleButtons(s, e, jump, attack)) ELSE e
  BY DEF Thought
<1> HIDE DEF e
<1>3. CASE IsObserver(s)
  <2>1. /\ HandleButtons(s, e, jump, attack) \in Good
        /\ HandleButtons(s, e, jump, attack).iuser1 # OBS_NONE
        /\ e.mode # OBS_NONE => HandleButtons(s, e, jump, attack).mode # OBS_NONE
        /\ ~jump => HandleButtons(s, e, jump, attack).iuser1 = e.iuser1
    BY <1>1, <1>3, HandleButtonsGood DEF IsObserver
  <2>2. HandleButtons(s, e, jump, attack) \in Record
    BY <2>1 DEF Good
  <2> QED BY <1>1, <1>2, <1>3, <2>1, <2>2, CheckTargetGood
<1>4. CASE ~IsObserver(s)
  BY <1>1, <1>2, <1>4 DEF IsObserver, Tracking
<1> QED BY <1>3, <1>4

-----------------------------------------------------------------------------
(* The invariant: the records are good, and a player whose HUD has been    *)
(* initialised has a mode to observe in.                                   *)

SlotsOK ==
  /\ client \subseteq Slots /\ m_bConnected \subseteq Slots
  /\ m_fGameHUDInitialized \subseteq Slots /\ told \subseteq Slots /\ g_fGameOver \in BOOLEAN

ModesSet == \A s \in client \cap m_fGameHUDInitialized : eyes[s].mode # OBS_NONE

IInv == SlotsOK /\ eyes \in [Slots -> Good] /\ SpectatorsKnown /\ ModesSet

LEMMA FreshGood == Fresh \in Good
BY DEF Fresh, Good, Record, Mode, Entity, Follows, Tracking

LEMMA InitIInv == Init => IInv
BY FreshGood DEF Init, IInv, SlotsOK, SpectatorsKnown, ModesSet

(* A step that replaces the record of one slot, and perhaps what was told  *)
(* of it.                                                                  *)
LEMMA OneSlot ==
  ASSUME IInv, NEW s \in Slots, NEW r \in Good, eyes' = [eyes EXCEPT ![s] = r],
         client' = client, told' \subseteq Slots, m_bConnected' \subseteq Slots,
         m_fGameHUDInitialized' \subseteq m_fGameHUDInitialized \cup {s},
         g_fGameOver' = g_fGameOver,
         \A t \in Slots \ {s} : t \in told' <=> t \in told,
         s \in m_fGameHUDInitialized' =>
           /\ s \in told' <=> r.iuser1 # OBS_NONE
           /\ r.mode # OBS_NONE
  PROVE  IInv'
<1>1. eyes \in [Slots -> Good]
  BY DEF IInv
<1>2. eyes' \in [Slots -> Good]
  BY <1>1
<1>3. SlotsOK'
  BY DEF IInv, SlotsOK
<1>4. eyes'[s] = r /\ \A t \in Slots \ {s} : eyes'[t] = eyes[t]
  BY <1>1
<1>5. ASSUME NEW t \in client' \cap m_fGameHUDInitialized'
      PROVE  (t \in told' <=> eyes'[t].iuser1 # OBS_NONE) /\ eyes'[t].mode # OBS_NONE
  <2>1. CASE t = s
    BY <1>4, <1>5, <2>1
  <2>2. CASE t # s
    <3>1. t \in client \cap m_fGameHUDInitialized /\ t \in Slots \ {s}
      BY <1>5, <2>2 DEF IInv, SlotsOK
    <3> QED BY <1>4, <3>1 DEF IInv, SpectatorsKnown, IsObserver, ModesSet
  <2> QED BY <2>1, <2>2
<1> QED BY <1>2, <1>3, <1>5 DEF IInv, SpectatorsKnown, IsObserver, ModesSet

LEMMA StepIInv == IInv /\ [Next]_vars => IInv'
<1> SUFFICES ASSUME IInv, [Next]_vars PROVE IInv'
  OBVIOUS
<1>1. /\ eyes \in [Slots -> Good] /\ m_bConnected \subseteq Slots /\ SlotsOK
      /\ SpectatorsKnown /\ ModesSet
  BY DEF IInv, SlotsOK
<1>2. ASSUME NEW s \in Slots, PutInServer(s) PROVE IInv'
  <2>1. eyes' \in [Slots -> Good] /\ \A t \in Slots \ {s} : eyes'[t] = eyes[t]
    BY <1>1, <1>2, FreshGood DEF PutInServer
  <2>2. \A t \in client' \cap m_fGameHUDInitialized' : t \in client \cap m_fGameHUDInitialized
                                                       /\ t \in Slots \ {s}
    BY <1>1, <1>2 DEF PutInServer, SlotsOK
  <2> QED BY <1>1, <1>2, <2>1, <2>2
          DEF PutInServer, IInv, SlotsOK, SpectatorsKnown, IsObserver, ModesSet
<1>3. ASSUME NEW s \in Slots, Disconnect(s) PROVE IInv'
  BY <1>1, <1>3 DEF Disconnect, IInv, SlotsOK, SpectatorsKnown, IsObserver, ModesSet
<1>4. ASSUME NEW s \in Slots, StartObserver(s) PROVE IInv'
  <2> DEFINE r == SetMode(s, eyes[s], eyes[s].mode)
  <2>1. eyes[s] \in Good /\ eyes[s].mode \in Nat
    BY <1>1 DEF Good, Record, Mode
  <2>2. /\ r \in Good
        /\ r.iuser1 # OBS_NONE \/ eyes[s].mode = OBS_NONE
        /\ eyes[s].mode # OBS_NONE => r.mode # OBS_NONE
    BY <1>1, <2>1, SetModeGood
  <2>3. /\ eyes' = [eyes EXCEPT ![s] = r] /\ told' = told \cup {s}
        /\ UNCHANGED <<client, m_bConnected, m_fGameHUDInitialized, g_fGameOver>>
    BY <1>4 DEF StartObserver, slots
  <2>4. s \in m_fGameHUDInitialized => eyes[s].mode # OBS_NONE
    BY <1>1, <1>4 DEF StartObserver, May, ModesSet
  <2> HIDE DEF r
  <2> QED BY <1>1, <2>2, <2>3, <2>4, OneSlot DEF SlotsOK
<1>5. ASSUME NEW s \in Slots, StopObserver(s) PROVE IInv'
  <2> DEFINE r == [eyes[s] EXCEPT !.iuser1 = OBS_NONE, !.iuser2 = NULL]
  <2>1. eyes[s] \in Record
    BY <1>1 DEF Good
  <2>2. r \in Record /\ r.iuser1 = OBS_NONE /\ r.iuser2 = NULL /\ r.mode = eyes[s].mode
    <3> DEFINE a == [eyes[s] EXCEPT !.iuser1 = OBS_NONE]
               b == [a EXCEPT !.iuser2 = NULL]
    <3>1. a \in Record
      <4>1. OBS_NONE \in Mode
        BY DEF Mode
      <4> QED BY <2>1, <4>1 DEF Record
    <3>2. b \in Record
      <4> HIDE DEF a
      <4> QED BY <3>1 DEF Record
    <3>3. b.iuser1 = OBS_NONE /\ b.iuser2 = NULL /\ b.mode = eyes[s].mode
      BY <2>1 DEF Record
    <3> QED BY <3>2, <3>3
  <2>3. eyes' = [eyes EXCEPT ![s] = r]
    BY <1>1, <1>5 DEF StopObserver
  <2>4. /\ told' = told \ {s} /\ m_bConnected' = m_bConnected \cup {s}
        /\ UNCHANGED <<client, m_fGameHUDInitialized, g_fGameOver>>
    BY <1>5 DEF StopObserver
  <2>5. s \in m_fGameHUDInitialized => eyes[s].mode # OBS_NONE
    BY <1>1, <1>5 DEF StopObserver, May, ModesSet
  <2> HIDE DEF r
  <2>6. r \in Good
    BY <2>2 DEF Good, Follows, Tracking
  <2> QED BY <1>1, <2>2, <2>3, <2>4, <2>5, <2>6, OneSlot DEF SlotsOK
<1>6. ASSUME NEW s \in Slots, NEW iMode \in Modes, SpecMode(s, iMode) PROVE IInv'
  <2> DEFINE r == SetMode(s, eyes[s], iMode)
  <2>1. eyes[s] \in Good /\ iMode \in Nat /\ eyes[s].iuser1 # OBS_NONE
    BY <1>1, <1>6, ObserverConstantsOK DEF SpecMode, IsObserver
  <2>2. /\ r \in Good /\ r.iuser1 # OBS_NONE
        /\ eyes[s].mode # OBS_NONE => r.mode # OBS_NONE
    BY <1>1, <2>1, SetModeGood
  <2>3. /\ eyes' = [eyes EXCEPT ![s] = r]
        /\ UNCHANGED <<client, m_bConnected, m_fGameHUDInitialized, told, g_fGameOver>>
    BY <1>6 DEF SpecMode, slots
  <2>4. s \in m_fGameHUDInitialized => eyes[s].mode # OBS_NONE /\ s \in told
    BY <1>1, <1>6 DEF SpecMode, May, ModesSet, SpectatorsKnown
  <2> HIDE DEF r
  <2> QED BY <1>1, <2>2, <2>3, <2>4, OneSlot DEF SlotsOK
<1>7. ASSUME NEW s \in Slots, NEW b \in BOOLEAN, FollowNext(s, b) PROVE IInv'
  <2> DEFINE r == Move(s, eyes[s], b)
  <2>1. eyes[s] \in Good /\ eyes[s].iuser1 # OBS_NONE
    BY <1>1, <1>7 DEF FollowNext, IsObserver
  <2>2. r \in Good /\ r.iuser1 = eyes[s].iuser1 /\ r.mode = eyes[s].mode
    BY <2>1, MoveGood
  <2>3. /\ eyes' = [eyes EXCEPT ![s] = r]
        /\ UNCHANGED <<client, m_bConnected, m_fGameHUDInitialized, told, g_fGameOver>>
    BY <1>7 DEF FollowNext, slots
  <2>4. s \in m_fGameHUDInitialized => eyes[s].mode # OBS_NONE /\ s \in told
    BY <1>1, <1>7 DEF FollowNext, May, ModesSet, SpectatorsKnown
  <2> HIDE DEF r
  <2> QED BY <1>1, <2>1, <2>2, <2>3, <2>4, OneSlot DEF SlotsOK
<1>8. ASSUME NEW s \in Slots, NEW jump \in BOOLEAN, NEW attack, PreThink(s, jump, attack)
      PROVE  IInv'
  <2> DEFINE r == Thought(s, jump, attack)
  <2>1. eyes[s] \in Good
    BY <1>1
  <2>2. /\ r \in Good /\ (r.iuser1 # OBS_NONE <=> IsObserver(s))
        /\ s \in m_fGameHUDInitialized /\ eyes[s].mode # OBS_NONE => r.mode # OBS_NONE
        /\ s \notin m_fGameHUDInitialized => r.mode # OBS_NONE
    BY <1>1, <2>1, ThoughtGood
  <2>3. /\ eyes' = [eyes EXCEPT ![s] = r]
        /\ UNCHANGED <<client, m_bConnected, g_fGameOver>>
        /\ s \in client /\ InitHUD(s)
    BY <1>8 DEF PreThink
  <2>4. s \in m_fGameHUDInitialized => eyes[s].mode # OBS_NONE /\ (s \in told <=> IsObserver(s))
    BY <1>1, <2>3 DEF ModesSet, SpectatorsKnown
  <2>5. /\ m_fGameHUDInitialized' = m_fGameHUDInitialized \cup {s}
        /\ told' \subseteq Slots /\ \A t \in Slots \ {s} : t \in told' <=> t \in told
        /\ s \in told' <=> IsObserver(s)
    BY <1>1, <2>3, <2>4 DEF InitHUD, SlotsOK
  <2> HIDE DEF r
  <2> QED BY <1>1, <2>2, <2>3, <2>4, <2>5, OneSlot
<1>9. CASE GoToIntermission \/ UNCHANGED vars
  BY <1>1, <1>9
     DEF GoToIntermission, vars, slots, IInv, SlotsOK, SpectatorsKnown, IsObserver, ModesSet
<1>10. CASE ChangeLevel
  BY <1>1, <1>10, FreshGood DEF ChangeLevel, IInv, SlotsOK, SpectatorsKnown, ModesSet
<1> QED BY <1>2, <1>3, <1>4, <1>5, <1>6, <1>7, <1>8, <1>9, <1>10 DEF Next

LEMMA Invariant == Spec => []IInv
BY InitIInv, StepIInv, PTL DEF Spec

-----------------------------------------------------------------------------
(* Whatever mode, target or spot the functions of observer.cpp choose, it  *)
(* is one, and iuser2 is a player or none.                                 *)
THEOREM TypeCorrect == Spec => []TypeOK
<1>1. IInv => TypeOK
  <2> SUFFICES ASSUME IInv PROVE TypeOK
    OBVIOUS
  <2>1. eyes \in [Slots -> Record]
    BY DEF IInv, Good
  <2> QED BY <2>1 DEF IInv, SlotsOK, TypeOK, Record, Mode, Entity
<1> QED BY Invariant, <1>1, PTL

(* The assertion of SetupVisibility: the physics follow the target in all  *)
(* modes that track and nobody in the others.                              *)
THEOREM PhysicsFollow == Spec => []PhysicsFollowTarget
<1>1. IInv => PhysicsFollowTarget
  BY DEF IInv, SlotsOK, PhysicsFollowTarget, Good, Follows
<1> QED BY Invariant, <1>1, PTL

(* Everybody has been told of every initialised player whether he observes *)
(* (StartObserver, StopObserver, InitHUD).                                 *)
THEOREM SpectatorsAreKnown == Spec => []SpectatorsKnown
<1>1. IInv => SpectatorsKnown
  BY DEF IInv
<1> QED BY Invariant, <1>1, PTL

(* Whoever tracks after a thought watches a connected player who does not  *)
(* observe, whatever happened before it, and whatever buttons he presses   *)
(* (HandleButtons, then CheckTarget).                                      *)
THEOREM ThinkersWatchPlayers ==
  Spec => [](\A s \in client, jump \in BOOLEAN, attack \in {"none", "attack", "attack2"} :
               LET e == Thought(s, jump, attack)
               IN  e.iuser1 \in Tracking => Watchable(s, e.target))
<1> DEFINE Watches == \A s \in client, jump \in BOOLEAN, attack \in {"none", "attack", "attack2"} :
                        LET e == Thought(s, jump, attack)
                        IN  e.iuser1 \in Tracking => Watchable(s, e.target)
<1>1. IInv => Watches
  <2> SUFFICES ASSUME IInv, NEW s \in client, NEW jump \in BOOLEAN, NEW attack
               PROVE  LET e == Thought(s, jump, attack)
                      IN  e.iuser1 \in Tracking => Watchable(s, e.target)
    OBVIOUS
  <2>1. s \in Slots /\ eyes[s] \in Good /\ m_bConnected \subseteq Slots
    BY DEF IInv, SlotsOK
  <2> QED BY <2>1, ThoughtGood
<1> QED BY Invariant, <1>1, PTL

(* And he stops tracking only if there is nobody to track: the search of   *)
(* FindNextPlayer round the table misses no player.                        *)
THEOREM TrackersKeepTracking == Spec => []ObserversWatchPlayers
<1>1. ASSUME IInv PROVE ObserversWatchPlayers
  <2> SUFFICES ASSUME NEW s \in client, NEW attack, IsObserver(s)
               PROVE  LET e == Thought(s, FALSE, attack)
                      IN  IF e.iuser1 \in Tracking
                          THEN Watchable(s, e.target)
                          ELSE eyes[s].iuser1 \in Tracking => \A p \in Slots : ~Watchable(s, p)
    BY DEF ObserversWatchPlayers
  <2>1. s \in Slots /\ eyes[s] \in Good /\ m_bConnected \subseteq Slots
    BY <1>1 DEF IInv, SlotsOK
  <2>2. LET e == Thought(s, FALSE, attack)
        IN  /\ e.iuser1 \in Tracking => Watchable(s, e.target)
            /\ e.iuser1 = eyes[s].iuser1 \/ \A p \in Slots : ~Watchable(s, p)
    BY <2>1, ThoughtGood
  <2> QED BY <2>2
<1> QED BY <1>1, Invariant, PTL

(* The previous player or spot of the next one is the one that was left    *)
(* (NextPlayer, NextSpot): for any gaps in the table, and any classes of   *)
(* the spots.                                                              *)
THEOREM ButtonsUndoEachOther == Spec => []PreviousUndoesNext
<1>1. IInv => PreviousUndoesNext
  BY PreviousPlayer, PreviousSpot DEF IInv, SlotsOK, PreviousUndoesNext
<1> QED BY <1>1, Invariant, PTL
================================================================================
