------------------------------- MODULE RulesProofs -------------------------------
(***************************************************************************)
(* The rules for every map cycle file, any number of players and any       *)
(* times.  That a map without limits has its turn is not inductive: how    *)
(* often it was passed over is bounded by how far the pointer still is     *)
(* from it (TurnsInv).                                                     *)
(***************************************************************************)
EXTENDS Rules, TLAPS

(* How far u is from place n, round the list.                              *)
Dist(list, n, u) == IF u >= n THEN u - n ELSE u - n + Len(list)

TurnsInv ==
  \A u \in 1..Len(items) :
    Unlimited(items[u]) => turns[u] + Dist(items, next_item, u) <= Len(items) - 1

-----------------------------------------------------------------------------
(* The operators on the list.                                              *)

LEMMA ReloadType ==
  ASSUME NEW f \in DOMAIN Files
  PROVE  ReloadMapCycleFile(f) \in Seq(Item)
<1> DEFINE Line == [map : ValidMaps, min : Int, max : Int]
<1>1. SUFFICES ASSUME NEW lines \in Seq(Line)
               PROVE  [k \in 1..Len(lines) |-> [map |-> lines[k].map, min |-> Within(lines[k].min),
                                                max |-> Within(lines[k].max)]] \in Seq(Item)
  BY ValidLinesOK DEF ReloadMapCycleFile
<1>2. \A n \in Int : Within(n) \in 0..maxClients
  BY RulesConstantsOK DEF Within
<1>3. \A k \in 1..Len(lines) :
        [map |-> lines[k].map, min |-> Within(lines[k].min), max |-> Within(lines[k].max)] \in Item
  <2> TAKE k \in 1..Len(lines)
  <2>1. lines[k] \in Line
    <3> HIDE DEF Line
    <3> QED OBVIOUS
  <2> QED BY <2>1, <1>2 DEF Item
<1> QED BY <1>3

LEMMA AfterType ==
  ASSUME NEW list \in Seq(Item), NEW n \in 1..Len(list), NEW k \in 0..Len(list)
  PROVE  After(list, n, k) \in 1..Len(list)
BY DEF After

(* The place u is Dist after n, and no other place is.                     *)
LEMMA DistAfter ==
  ASSUME NEW list \in Seq(Item), NEW n \in 1..Len(list), NEW u \in 1..Len(list)
  PROVE  /\ Dist(list, n, u) \in 0..(Len(list) - 1)
         /\ After(list, n, Dist(list, n, u)) = u
BY DEF Dist, After

LEMMA DistAdvance ==
  ASSUME NEW list \in Seq(Item), NEW n \in 1..Len(list), NEW u \in 1..Len(list),
         NEW k \in 0..Dist(list, n, u)
  PROVE  /\ Advance(list, n, k) \in 1..Len(list)
         /\ k = Dist(list, n, u) => After(list, n, k) = u
         /\ k # Dist(list, n, u) => /\ After(list, n, k) # u
                                    /\ Dist(list, Advance(list, n, k), u) = Dist(list, n, u) - k - 1
<1> DEFINE L == Len(list)
           a == After(list, n, k)
           b == Advance(list, n, k)
<1>1. L \in Nat /\ n \in 1..L /\ u \in 1..L
  OBVIOUS
<1>2. /\ a = IF n + k <= L THEN n + k ELSE n + k - L
      /\ b = IF a + 1 <= L THEN a + 1 ELSE a + 1 - L
  BY DEF After, Advance
<1>3. /\ Dist(list, n, u) = IF u >= n THEN u - n ELSE u - n + L
      /\ Dist(list, b, u) = IF u >= b THEN u - b ELSE u - b + L
  BY DEF Dist
<1> HIDE DEF L, a, b
<1>4. k \in Nat /\ k <= Dist(list, n, u) /\ Dist(list, n, u) \in 0..(L - 1)
  BY <1>1, <1>3
<1>5. a \in 1..L /\ b \in 1..L
  BY <1>1, <1>2, <1>3, <1>4
<1>6. k = Dist(list, n, u) => a = u
  BY <1>1, <1>2, <1>3, <1>4
<1>7. k # Dist(list, n, u) => a # u /\ Dist(list, b, u) = Dist(list, n, u) - k - 1
  BY <1>1, <1>2, <1>3, <1>4, <1>5
<1> QED BY <1>5, <1>6, <1>7 DEF L, a, b

(* The traversal does not pass over a map without limits.                  *)
LEMMA StopsBefore ==
  ASSUME NEW list \in Seq(Item), NEW n \in 1..Len(list), NEW u \in 1..Len(list),
         NEW p, NEW k \in 0..(Len(list) - 1),
         Stops(list, n, p, k), Unlimited(list[u])
  PROVE  k <= Dist(list, n, u)
<1>1. Admits(list[u], p)
  BY DEF Admits, Unlimited
<1>2. /\ Dist(list, n, u) \in 0..(Len(list) - 1)
      /\ After(list, n, Dist(list, n, u)) = u
  BY DistAfter
<1> DEFINE d == Dist(list, n, u)
<1>3. d \in 0..(Len(list) - 1) /\ Admits(list[After(list, n, d)], p)
  BY <1>1, <1>2
<1> HIDE DEF d
<1>4. CASE d = Len(list) - 1
  BY <1>4, <1>3 DEF d
<1>5. CASE d \in 0..(Len(list) - 2)
  <2>1. ~ \A j \in 0..(Len(list) - 2) : ~Admits(list[After(list, n, j)], p)
    BY <1>5, <1>3
  <2>2. \A j \in 0..(k - 1) : ~Admits(list[After(list, n, j)], p)
    BY <2>1 DEF Stops
  <2>3. ~(d \in 0..(k - 1))
    BY <2>2, <1>3
  <2> QED BY <2>3, <1>3 DEF d
<1> QED BY <1>3, <1>4, <1>5

(* The place before the pointer is the item chosen.                        *)
LEMMA BeforeAdvance ==
  ASSUME NEW list \in Seq(Item), NEW n \in 1..Len(list), NEW k \in 0..(Len(list) - 1)
  PROVE  After(list, Advance(list, n, k), Len(list) - 1) = After(list, n, k)
<1> DEFINE L == Len(list)
           a == After(list, n, k)
           b == Advance(list, n, k)
<1>1. L \in Nat /\ n \in 1..L /\ k \in 0..(L - 1)
  OBVIOUS
<1>2. /\ a = IF n + k <= L THEN n + k ELSE n + k - L
      /\ b = IF a + 1 <= L THEN a + 1 ELSE a + 1 - L
      /\ After(list, b, L - 1) = IF b + (L - 1) <= L THEN b + (L - 1) ELSE b + (L - 1) - L
  BY DEF After, Advance
<1> HIDE DEF L, a, b
<1>3. a \in 1..L
  BY <1>1, <1>2
<1>4. After(list, b, L - 1) = a
  BY <1>1, <1>2, <1>3
<1> QED BY <1>4 DEF L, a, b

(* Where the traversal stops: at a map that suits the players, if any but  *)
(* the last does.                                                          *)
LEMMA StopsAtSuited ==
  ASSUME NEW list \in Seq(Item), NEW n \in 1..Len(list), NEW p,
         NEW k \in 0..(Len(list) - 1), Stops(list, n, p, k)
  PROVE  \/ Suits(list[After(list, n, k)], p)
         \/ \A u \in 1..Len(list) \ {After(list, n, Len(list) - 1)} : ~Suits(list[u], p)
<1>1. \A item : Suits(item, p) <=> Admits(item, p)
  BY DEF Suits, Admits
<1>2. CASE Admits(list[After(list, n, k)], p)
  BY <1>1, <1>2
<1>3. CASE \A j \in 0..(Len(list) - 2) : ~Admits(list[After(list, n, j)], p)
  <2> SUFFICES ASSUME NEW u \in 1..Len(list), u # After(list, n, Len(list) - 1)
               PROVE  ~Admits(list[u], p)
    BY <1>1
  <2>1. /\ Dist(list, n, u) \in 0..(Len(list) - 1)
        /\ After(list, n, Dist(list, n, u)) = u
    BY DistAfter
  <2>2. Dist(list, n, u) \in 0..(Len(list) - 2)
    BY <2>1
  <2> QED BY <1>3, <2>1, <2>2
<1> QED BY <1>2, <1>3 DEF Stops

(* One choice: the bound of TurnsInv carries over.                         *)
LEMMA Turn ==
  ASSUME NEW list \in Seq(Item), list # <<>>, NEW n \in 1..Len(list),
         NEW past \in [1..Len(list) -> Nat],
         NEW p, NEW k \in 0..(Len(list) - 1), Stops(list, n, p, k),
         NEW u \in 1..Len(list), Unlimited(list[u]),
         past[u] + Dist(list, n, u) <= Len(list) - 1
  PROVE  Played(list, past, After(list, n, k))[u] + Dist(list, Advance(list, n, k), u)
           <= Len(list) - 1
<1> DEFINE d == Dist(list, n, u)
<1>1. d \in 0..(Len(list) - 1) /\ k <= d
  BY DistAfter, StopsBefore
<1>2. /\ Advance(list, n, k) \in 1..Len(list)
      /\ k = d => After(list, n, k) = u
      /\ k # d => /\ After(list, n, k) # u
                  /\ Dist(list, Advance(list, n, k), u) = d - k - 1
  BY <1>1, DistAdvance
<1>3. Dist(list, Advance(list, n, k), u) \in 0..(Len(list) - 1)
  BY <1>2, DistAfter
<1>4. Played(list, past, After(list, n, k))[u] =
        IF u = After(list, n, k) THEN 0
        ELSE IF past[u] < Len(list) THEN past[u] + 1 ELSE past[u]
  BY DEF Played
<1>5. past[u] \in Nat /\ past[u] + d <= Len(list) - 1
  OBVIOUS
<1> HIDE DEF d
<1> QED BY <1>1, <1>2, <1>3, <1>4, <1>5, SMTT(60)

LEMMA PlayedType ==
  ASSUME NEW list \in Seq(Item), NEW past \in [1..Len(list) -> Nat], NEW i
  PROVE  Played(list, past, i) \in [1..Len(list) -> Nat]
BY DEF Played
-----------------------------------------------------------------------------
(* The steps.                                                              *)

LEMMA ChangeLevelTurns ==
  ASSUME CycleOK, TurnsInv, mapcyclefile \in DOMAIN Files, ChangeLevel
  PROVE  CycleOK' /\ TurnsInv' /\ changing' \in ValidMaps
<1> DEFINE same == szPreviousMapCycleFile = mapcyclefile
           list == IF same THEN items ELSE ReloadMapCycleFile(mapcyclefile)
           next == IF same THEN next_item ELSE 1
           past == IF same THEN turns ELSE [u \in DOMAIN list |-> 0]
<1>1. list \in Seq(Item) /\ DOMAIN list = 1..Len(list)
  <2>1. list \in Seq(Item)
    BY ReloadType DEF CycleOK
  <2> HIDE DEF list
  <2> QED BY <2>1
<1>2. list # <<>> => next \in 1..Len(list)
  <2>1. CASE same
    BY <2>1 DEF CycleOK
  <2>2. CASE ~same
    <3>1. list # <<>> => Len(list) > 0
      <4> HIDE DEF list
      <4> QED BY <1>1
    <3> QED BY <2>2, <3>1, <1>1
  <2> QED BY <2>1, <2>2
<1>3. past \in [1..Len(list) -> Nat]
  BY <1>1 DEF CycleOK
<1>4. ASSUME NEW u \in 1..Len(list), Unlimited(list[u]), list # <<>>
      PROVE  past[u] + Dist(list, next, u) <= Len(list) - 1
  <2>1. CASE same
    BY <2>1, <1>1, <1>4 DEF CycleOK, TurnsInv
  <2>2. CASE ~same
    <3>1. past[u] = 0
      BY <2>2, <1>1
    <3>2. Dist(list, next, u) \in 0..(Len(list) - 1)
      <4> HIDE DEF list, next, past
      <4> QED BY <1>1, <1>2, <1>4, DistAfter
    <3> QED BY <3>1, <3>2, <1>1
  <2> QED BY <2>1, <2>2
<1>5. /\ szPreviousMapCycleFile' = mapcyclefile
      /\ IF list = <<>>
         THEN /\ changing' \in ValidMaps
              /\ items' = <<>> /\ next_item' = 1 /\ turns' = <<>>
         ELSE \E k \in 0..(Len(list) - 1) :
                /\ Stops(list, next, CountPlayers, k)
                /\ changing' = list[After(list, next, k)].map
                /\ items' = list /\ next_item' = Advance(list, next, k)
                /\ turns' = Played(list, past, After(list, next, k))
  BY DEF ChangeLevel
<1> HIDE DEF same, list, next, past
<1>6. CASE list = <<>>
  <2>1. items' = <<>> /\ next_item' = 1 /\ turns' = <<>> /\ changing' \in ValidMaps
    BY <1>5, <1>6
  <2>2. Len(items') = 0
    BY <2>1
  <2>3. TurnsInv'
    BY <2>2 DEF TurnsInv
  <2>4. turns' \in [1..Len(items') -> Nat]
    BY <2>1, <2>2
  <2>5. CycleOK'
    <3>1. items' \in Seq(Item)
      BY <2>1
    <3>2. ~(items' # <<>>)
      BY <2>1
    <3>3. next_item' \in Nat
      BY <2>1
    <3> QED BY <1>5, <2>4, <3>1, <3>2, <3>3 DEF CycleOK
  <2> QED BY <2>1, <2>3, <2>5
<1>7. CASE list # <<>>
  <2>1. PICK k \in 0..(Len(list) - 1) :
          /\ Stops(list, next, CountPlayers, k)
          /\ changing' = list[After(list, next, k)].map
          /\ items' = list /\ next_item' = Advance(list, next, k)
          /\ turns' = Played(list, past, After(list, next, k))
    BY <1>5, <1>7
  <2>2. After(list, next, k) \in 1..Len(list)
    <3>1. k \in 0..Len(list) /\ next \in 1..Len(list)
      BY <1>1, <1>2, <1>7
    <3> QED BY <1>1, <3>1, AfterType
  <2>3. Advance(list, next, k) \in 1..Len(list)
    BY <1>1, <1>7, <2>2 DEF Advance, After
  <2>4. turns' \in [1..Len(list) -> Nat]
    BY <1>1, <1>3, <2>1, PlayedType
  <2>5. items' = list /\ next_item' = Advance(list, next, k)
    BY <2>1
  <2>6. CycleOK'
    <3>1. items' \in Seq(Item)
      BY <1>1, <2>5
    <3>2. next_item' \in 1..Len(items') /\ turns' \in [1..Len(items') -> Nat]
      BY <2>3, <2>4, <2>5
    <3>3. next_item' \in Nat
      BY <3>1, <3>2
    <3> QED BY <1>5, <3>1, <3>2, <3>3 DEF CycleOK
  <2>7. TurnsInv'
    <3> SUFFICES ASSUME NEW u \in 1..Len(list), Unlimited(list[u])
                 PROVE  turns'[u] + Dist(list, Advance(list, next, k), u) <= Len(list) - 1
      BY <2>4, <2>5 DEF TurnsInv
    <3>1. past[u] + Dist(list, next, u) <= Len(list) - 1
      BY <1>4, <1>7
    <3> QED BY <1>1, <1>2, <1>3, <1>7, <2>1, <3>1, Turn
  <2>8. changing' \in ValidMaps
    <3>1. list[After(list, next, k)] \in Item
      BY <1>1, <2>2
    <3> QED BY <2>1, <3>1 DEF Item
  <2> QED BY <2>6, <2>7, <2>8
<1> QED BY <1>6, <1>7

-----------------------------------------------------------------------------
(* The invariant.                                                          *)

LEMMA CycleKept == CycleOK /\ TurnsInv /\ UNCHANGED cycle => CycleOK' /\ TurnsInv'
BY DEF CycleOK, TurnsInv, cycle

(* The flag is only raised by a key that was down in this intermission.    *)
KeyCounted == g_fGameOver /\ m_iEndIntermissionButtonHit => keyDown

IInv == TypeOK /\ TurnsInv /\ PlayersCounted /\ IntermissionEnds /\ KeyCounted

LEMMA InitIInv == Init => IInv
<1> SUFFICES ASSUME Init PROVE IInv
  OBVIOUS
<1>1. items = <<>> /\ next_item = 1 /\ turns = <<>>
  BY DEF Init
<1>2. Len(items) = 0 /\ turns \in [1..Len(items) -> Nat]
  BY <1>1
<1>3. CycleOK
  <2>1. items \in Seq(Item)
    BY <1>1
  <2>2. ~(items # <<>>) /\ next_item \in Nat
    BY <1>1
  <2> QED BY <1>2, <2>1, <2>2 DEF Init, CycleOK
<1>4. TypeOK
  BY <1>3, RulesConstantsOK DEF Init, TypeOK
<1>5. TurnsInv
  BY <1>2 DEF TurnsInv
<1> QED BY <1>4, <1>5 DEF Init, IInv, PlayersCounted, IntermissionEnds, KeyCounted

LEMMA ChatType == \A t \in Int : Chat(t) \in 1..MAX_INTERMISSION_TIME
BY RulesConstantsOK DEF Chat

LEMMA StartFrameIInv ==
  ASSUME IInv, NEW fragged \in BOOLEAN, StartFrame(fragged)
  PROVE  IInv'
<1>1. TypeOK /\ TurnsInv /\ PlayersCounted /\ IntermissionEnds /\ KeyCounted
  BY DEF IInv
<1>2. Chat(mp_chattime) \in 1..MAX_INTERMISSION_TIME /\ MAX_INTERMISSION_TIME \in Nat \ {0}
  BY <1>1, ChatType, RulesConstantsOK DEF TypeOK
<1>3. /\ changing = NoMap /\ UNCHANGED <<players, mapcyclefile>>
      /\ time' = IF g_fGameOver' \/ time < TimeLimit THEN time + 1 ELSE time
  BY DEF StartFrame
<1>4. time' \in Nat /\ time' <= time + 1
  BY <1>1, <1>3 DEF TypeOK
<1>5. CASE ~g_fGameOver
  <2>1. Limits(fragged) /\ UNCHANGED <<cycle, changing>>
    BY <1>5 DEF StartFrame
  <2>2. \/ g_fGameOver' = TRUE /\ g_flIntermissionStartTime' = time
        \/ g_fGameOver' = g_fGameOver /\ g_flIntermissionStartTime' = g_flIntermissionStartTime
    BY <2>1 DEF Limits, GoToIntermission
  <2>3. mp_chattime' \in Int /\ m_iEndIntermissionButtonHit' \in BOOLEAN /\ keyDown' \in BOOLEAN
    <3>1. CASE GoToIntermission
      <4>1. mp_chattime' = Chat(mp_chattime)
        BY <3>1 DEF GoToIntermission
      <4>2. m_iEndIntermissionButtonHit' = FALSE /\ keyDown' = FALSE
        BY <3>1 DEF GoToIntermission
      <4>3. mp_chattime' \in Int
        BY <1>2, <4>1
      <4>4. m_iEndIntermissionButtonHit' \in BOOLEAN /\ keyDown' \in BOOLEAN
        BY <4>2
      <4> QED BY <4>3, <4>4
    <3>2. CASE UNCHANGED <<m_iEndIntermissionButtonHit, mp_chattime, keyDown>>
      BY <1>1, <3>2 DEF TypeOK
    <3> QED BY <2>1, <3>1, <3>2 DEF Limits
  <2>5. CycleOK' /\ TurnsInv'
    BY <1>1, <2>1, CycleKept DEF TypeOK
  <2>4. TypeOK'
    BY <1>1, <1>3, <1>4, <2>1, <2>2, <2>3, <2>5 DEF TypeOK, players
  <2>6. PlayersCounted'
    BY <1>1, <1>3, <1>5 DEF PlayersCounted, players
  <2>7. IntermissionEnds'
    <3>1. CASE g_flIntermissionStartTime' = time
      BY <1>1, <1>2, <1>4, <3>1 DEF IntermissionEnds, TypeOK
    <3>2. CASE g_fGameOver' = g_fGameOver
      BY <1>5, <3>2 DEF IntermissionEnds
    <3> QED BY <2>2, <3>1, <3>2
  <2>8. KeyCounted'
    BY <1>5, <2>1 DEF KeyCounted, Limits, GoToIntermission
  <2> QED BY <2>4, <2>5, <2>6, <2>7, <2>8 DEF IInv
<1>6. CASE g_fGameOver
  <2>1. Intermission
    BY <1>6 DEF StartFrame
  <2>2. /\ mp_chattime' = Chat(mp_chattime)
        /\ UNCHANGED <<g_fGameOver, g_flIntermissionStartTime, m_iEndIntermissionButtonHit, keyDown>>
    BY <2>1 DEF Intermission
  <2>3. PlayersCounted'
    BY <1>1, <1>3, <1>6, <2>2 DEF PlayersCounted, players
  <2>6. KeyCounted'
    <3>1. UNCHANGED m_iEndIntermissionButtonHit
      BY <2>1 DEF Intermission
    <3> QED BY <1>1, <2>2, <3>1 DEF KeyCounted
  <2>4. CASE IntermissionOver
    <3>1. ChangeLevel
      BY <2>1, <2>4 DEF Intermission
    <3>2. CycleOK' /\ TurnsInv' /\ changing' \in ValidMaps
      BY <1>1, <3>1, ChangeLevelTurns DEF TypeOK, CycleOK
    <3>3. TypeOK'
      BY <1>1, <1>2, <1>3, <1>4, <2>2, <3>2 DEF TypeOK, players
    <3>4. IntermissionEnds'
      BY <3>2, RulesConstantsOK DEF IntermissionEnds
    <3> QED BY <2>3, <2>6, <3>2, <3>3, <3>4 DEF IInv
  <2>5. CASE ~IntermissionOver
    <3>1. UNCHANGED <<cycle, changing>>
      BY <2>1, <2>5 DEF Intermission
    <3>3. CycleOK' /\ TurnsInv'
      BY <1>1, <3>1, CycleKept DEF TypeOK
    <3>2. TypeOK'
      BY <1>1, <1>2, <1>3, <1>4, <2>2, <3>1, <3>3 DEF TypeOK, players
    <3>4. time <= g_flIntermissionStartTime + MAX_INTERMISSION_TIME
      BY <1>1, <1>2, <2>5 DEF IntermissionOver, TypeOK
    <3>5. IntermissionEnds'
      BY <1>1, <1>2, <1>4, <2>2, <3>4 DEF IntermissionEnds, TypeOK
    <3> QED BY <2>3, <2>6, <3>2, <3>3, <3>5 DEF IInv
  <2> QED BY <2>4, <2>5
<1> QED BY <1>5, <1>6

(* The other steps leave the map cycle alone.                              *)
LEMMA OtherIInv ==
  ASSUME IInv,
         \/ \E s \in Slots :
              PutInServer(s) \/ Leave(s) \/ \E down \in BOOLEAN : PlayerThink(s, down)
         \/ \E t \in ChatTimes : SetChatTime(t)
         \/ \E f \in DOMAIN Files : SetMapCycleFile(f)
         \/ \E m \in ValidMaps : Changelevel(m)
         \/ Spawn
         \/ UNCHANGED vars
  PROVE  IInv'
<1>1. TypeOK /\ TurnsInv /\ PlayersCounted /\ IntermissionEnds /\ KeyCounted
  BY DEF IInv
<1>2. UNCHANGED cycle
  BY DEF PutInServer, Leave, PlayerThink, SetChatTime, SetMapCycleFile, Changelevel, Spawn, vars
<1>3. CycleOK' /\ TurnsInv'
  BY <1>1, <1>2, CycleKept DEF TypeOK
<1>4. ASSUME NEW s \in Slots, PutInServer(s) PROVE IInv'
  BY <1>1, <1>3, <1>4 DEF PutInServer, TypeOK, PlayersCounted, IntermissionEnds, KeyCounted, IInv,
                          level, cycle
<1>5. ASSUME NEW s \in Slots, Leave(s) PROVE IInv'
  BY <1>1, <1>3, <1>5 DEF Leave, ClientDisconnect, TypeOK, PlayersCounted, IntermissionEnds,
                          KeyCounted, IInv, level, cycle
<1>6. ASSUME NEW s \in Slots, NEW down \in BOOLEAN, PlayerThink(s, down) PROVE IInv'
  <2>1. TypeOK'
    <3>1. m_afButtonLast' \subseteq Slots
      BY <1>1, <1>6 DEF PlayerThink, TypeOK
    <3>2. m_iEndIntermissionButtonHit' \in BOOLEAN /\ keyDown' \in BOOLEAN
      BY <1>6, Zenon DEF PlayerThink
    <3> QED BY <1>1, <1>3, <1>6, <3>1, <3>2 DEF PlayerThink, TypeOK
  <2> QED BY <1>1, <1>3, <1>6, <2>1 DEF PlayerThink, PlayersCounted, IntermissionEnds, KeyCounted, IInv
<1>7. ASSUME NEW t \in ChatTimes, SetChatTime(t) PROVE IInv'
  BY <1>1, <1>3, <1>7, RulesConstantsOK
     DEF SetChatTime, TypeOK, PlayersCounted, IntermissionEnds, KeyCounted, IInv, players, level, cycle
<1>8. ASSUME NEW f \in DOMAIN Files, SetMapCycleFile(f) PROVE IInv'
  BY <1>1, <1>3, <1>8
     DEF SetMapCycleFile, TypeOK, PlayersCounted, IntermissionEnds, KeyCounted, IInv, players, level, cycle
<1>9. ASSUME NEW m \in ValidMaps, Changelevel(m) PROVE IInv'
  BY <1>1, <1>3, <1>9, RulesConstantsOK
     DEF Changelevel, TypeOK, PlayersCounted, IntermissionEnds, KeyCounted, IInv, players, level, cycle
<1>10. ASSUME Spawn PROVE IInv'
  BY <1>1, <1>3, <1>10 DEF Spawn, TypeOK, PlayersCounted, IntermissionEnds, KeyCounted, IInv, cycle
<1>11. ASSUME UNCHANGED vars PROVE IInv'
  BY <1>1, <1>3, <1>11
     DEF vars, TypeOK, PlayersCounted, IntermissionEnds, KeyCounted, IInv, players, level, cycle
<1> QED BY <1>4, <1>5, <1>6, <1>7, <1>8, <1>9, <1>10, <1>11

LEMMA Invariant == Spec => []IInv
<1>1. IInv /\ [Next]_vars => IInv'
  BY StartFrameIInv, OtherIInv DEF Next
<1> QED BY InitIInv, <1>1, PTL DEF Spec

-----------------------------------------------------------------------------
(* Whatever the rules do, the pointer stays in the list, and every map     *)
(* chosen is on the server (GoToIntermission, Think, ChangeLevel).         *)
THEOREM TypeCorrect == Spec => []TypeOK
<1>1. IInv => TypeOK
  BY DEF IInv
<1> QED BY Invariant, <1>1, PTL

(* The traversal of ChangeLevel never passes over a map without limits,    *)
(* for any list and any numbers of players: each has its turn once in as   *)
(* many choices as the list is long.                                       *)
THEOREM UnlimitedMapsHaveTheirTurn == Spec => []UnlimitedInTurn
<1>1. IInv => UnlimitedInTurn
  <2> SUFFICES ASSUME IInv, NEW u \in 1..Len(items), Unlimited(items[u])
               PROVE  turns[u] < Len(items)
    BY DEF UnlimitedInTurn
  <2>1. /\ items \in Seq(Item) /\ items # <<>> /\ u \in 1..Len(items)
        /\ next_item \in 1..Len(items) /\ turns[u] \in Nat
    <3>1. items \in Seq(Item) /\ turns \in [1..Len(items) -> Nat]
      BY DEF IInv, TypeOK, CycleOK
    <3>2. items # <<>>
      BY <3>1
    <3> QED BY <3>1, <3>2 DEF IInv, TypeOK, CycleOK
  <2>2. Dist(items, next_item, u) \in 0..(Len(items) - 1)
    BY <2>1, DistAfter
  <2> QED BY <2>1, <2>2 DEF IInv, TurnsInv
<1> QED BY Invariant, <1>1, PTL

(* ChangeLevel counts the players in the game, and during the intermission *)
(* also those who have left it, but never fewer.                           *)
THEOREM PlayersAreCounted == Spec => []PlayersCounted
<1>1. IInv => PlayersCounted
  BY DEF IInv
<1> QED BY Invariant, <1>1, PTL

(* The intermission is over by the first Think past the longest time,      *)
(* whatever the chat time is set to.                                       *)
THEOREM IntermissionIsBounded == Spec => []IntermissionEnds
<1>1. IInv => IntermissionEnds
  BY DEF IInv
<1> QED BY Invariant, <1>1, PTL
(* A level that the rules end was in the intermission for the chat time,   *)
(* and for the longest time unless a key was down in this intermission     *)
(* (Think).                                                                *)
THEOREM IntermissionsLast == Spec => IntermissionLasts
<1> DEFINE Lasts == changing = NoMap /\ changing' # NoMap /\ time' # time =>
                      /\ g_fGameOver /\ time > g_flIntermissionStartTime + Chat(mp_chattime)
                      /\ keyDown \/ time > g_flIntermissionStartTime + MAX_INTERMISSION_TIME
<1>1. ASSUME IInv, [Next]_vars PROVE Lasts
  <2> SUFFICES ASSUME changing = NoMap, changing' # NoMap, time' # time
               PROVE  /\ g_fGameOver /\ time > g_flIntermissionStartTime + Chat(mp_chattime)
                      /\ keyDown \/ time > g_flIntermissionStartTime + MAX_INTERMISSION_TIME
    OBVIOUS
  <2>1. PICK fragged \in BOOLEAN : StartFrame(fragged)
    BY <1>1 DEF Next, PutInServer, Leave, PlayerThink, SetChatTime, SetMapCycleFile, Changelevel,
                Spawn, vars, level
  <2>2. g_fGameOver /\ Intermission
    BY <2>1 DEF StartFrame
  <2>3. IntermissionOver
    BY <2>2 DEF Intermission
  <2>4. TypeOK /\ KeyCounted
    BY <1>1 DEF IInv
  <2>5. Chat(mp_chattime) \in Int /\ MAX_INTERMISSION_TIME \in Int
    BY <2>4, ChatType, RulesConstantsOK DEF TypeOK
  <2>6. time > g_flIntermissionStartTime + Chat(mp_chattime)
    BY <2>3, <2>4, <2>5 DEF IntermissionOver, TypeOK
  <2>7. CASE m_iEndIntermissionButtonHit
    BY <2>2, <2>4, <2>6, <2>7 DEF KeyCounted
  <2>8. CASE g_flIntermissionStartTime + MAX_INTERMISSION_TIME < time
    BY <2>2, <2>4, <2>5, <2>6, <2>8 DEF TypeOK
  <2> QED BY <2>3, <2>7, <2>8 DEF IntermissionOver
<1> QED BY Invariant, <1>1, PTL DEF Spec, IntermissionLasts

(* A map that does not suit the number of players is chosen only if none   *)
(* that the traversal examines does, for any list, limits and pointer      *)
(* (ChangeLevel).                                                          *)
THEOREM ChosenMapsSuit == Spec => MapSuitsPlayers
<1> DEFINE first == IF szPreviousMapCycleFile = szPreviousMapCycleFile' THEN next_item ELSE 1
           Suited == LET chosen == After(items', next_item', Len(items') - 1)
                     IN  Suits(items'[chosen], CountPlayers) \/
                         \A u \in DOMAIN items' \ {After(items', first, Len(items') - 1)} :
                           ~Suits(items'[u], CountPlayers)
           Chosen == <<items, next_item>>' # <<items, next_item>> /\ items' # <<>> => Suited
<1>1. ASSUME IInv, [Next]_vars PROVE Chosen
  <2> SUFFICES ASSUME <<items, next_item>>' # <<items, next_item>>, items' # <<>>
               PROVE  Suited
    OBVIOUS
  <2>1. PICK fragged \in BOOLEAN : StartFrame(fragged)
    BY <1>1 DEF Next, PutInServer, Leave, PlayerThink, SetChatTime, SetMapCycleFile, Changelevel,
                Spawn, vars, cycle
  <2>2. ChangeLevel
    BY <2>1 DEF StartFrame, Intermission, cycle
  <2>3. CycleOK /\ TurnsInv /\ mapcyclefile \in DOMAIN Files
    BY <1>1 DEF IInv, TypeOK
  <2>4. PICK k \in 0..(Len(items') - 1) :
          /\ Stops(items', first, CountPlayers, k)
          /\ next_item' = Advance(items', first, k)
    <3> HIDE DEF first
    <3>1. first = IF szPreviousMapCycleFile = mapcyclefile THEN next_item ELSE 1
      BY <2>2 DEF ChangeLevel, first
    <3> QED BY <2>2, <3>1 DEF ChangeLevel
  <2>5. items' \in Seq(Item)
    BY <2>2, <2>3, ChangeLevelTurns DEF CycleOK
  <2>6. first \in 1..Len(items')
    <3>1. CASE szPreviousMapCycleFile = szPreviousMapCycleFile'
      BY <2>2, <2>3, <3>1 DEF ChangeLevel, CycleOK
    <3>2. CASE szPreviousMapCycleFile # szPreviousMapCycleFile'
      BY <2>5, <3>2
    <3> QED BY <3>1, <3>2
  <2> HIDE DEF first
  <2>7. After(items', next_item', Len(items') - 1) = After(items', first, k)
    BY <2>4, <2>5, <2>6, BeforeAdvance
  <2> QED BY <2>4, <2>5, <2>6, <2>7, StopsAtSuited
<1> QED BY Invariant, <1>1, PTL DEF Spec, MapSuitsPlayers

================================================================================
