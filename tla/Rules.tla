---------------------------------- MODULE Rules ---------------------------------
(***************************************************************************)
(* The end of a level (dlls/multiplay_gamerules.cpp, and Think of          *)
(* teamplay_gamerules.cpp, which does the same): the limits, the           *)
(* intermission, and the choice of the next map from the map cycle by the  *)
(* number of players.  The rules are made anew for every level; the map    *)
(* cycle and its pointer outlive it.                                       *)
(***************************************************************************)
EXTENDS Integers, Sequences, FiniteSets

CONSTANTS
  maxClients,
  TimeLimit,              \* mp_timelimit, in frames; 0 is none
  MAX_INTERMISSION_TIME,  \* in frames
  ChatTimes,              \* values an operator gives to mp_chattime
  Files,                  \* by name: the lines of a map cycle file, none if it cannot be read
  ValidMaps,              \* the maps on the server
  hldm1                   \* "the absolute default level"

Slots == 1..maxClients
NoMap == "-"

ASSUME RulesConstantsOK ==
  /\ maxClients \in Nat \ {0} /\ TimeLimit \in Nat /\ MAX_INTERMISSION_TIME \in Nat \ {0}
  /\ ChatTimes \subseteq Int
  /\ \A f \in DOMAIN Files : Files[f] \in Seq([map : STRING, min : Int, max : Int])
  /\ ValidMaps \subseteq STRING /\ NoMap \notin ValidMaps /\ hldm1 \in ValidMaps

VARIABLES
  client,                       \* the slots with a client in the game
  m_bConnected,                 \* the slots that the game takes for connected
  m_afButtonLast,               \* the slots whose player held a key when last seen
  time,                         \* gpGlobals->time, in frames
  g_fGameOver,
  g_flIntermissionStartTime,
  m_iEndIntermissionButtonHit,
  mp_chattime,
  mapcyclefile,                 \* the cvar
  szPreviousMapCycleFile,       \* the file that mapcycle was read from; "" is none
  items, next_item,             \* mapcycle: the list, and a place in it
  changing,                     \* the map of the changelevel command that is queued
  keyDown,                      \* history: a key was down during this intermission
  turns                         \* history: by item, the choices made since it was chosen

players == <<client, m_bConnected, m_afButtonLast>>
level   == <<time, g_fGameOver, g_flIntermissionStartTime, m_iEndIntermissionButtonHit>>
cycle   == <<szPreviousMapCycleFile, items, next_item, turns>>
vars    == <<players, level, mp_chattime, mapcyclefile, cycle, changing, keyDown>>

Init ==
  /\ client = {} /\ m_bConnected = {} /\ m_afButtonLast = {}
  /\ time = 0 /\ g_fGameOver = FALSE /\ g_flIntermissionStartTime = 0
  /\ m_iEndIntermissionButtonHit \in BOOLEAN  \* the constructor leaves it alone
  /\ mp_chattime \in ChatTimes
  /\ mapcyclefile \in DOMAIN Files /\ szPreviousMapCycleFile = ""
  /\ items = <<>> /\ next_item = 1 /\ turns = <<>>
  /\ changing = NoMap /\ keyDown = FALSE

-----------------------------------------------------------------------------
(* The map cycle.                                                          *)

Within(n) == IF n < 0 THEN 0 ELSE IF n > maxClients THEN maxClients ELSE n

ValidLines(filename) == SelectSeq(Files[filename], LAMBDA line : line.map \in ValidMaps)

(* What SelectSeq is, for the proofs: none of the provers can unfold it.   *)
ASSUME ValidLinesOK ==
  \A f \in DOMAIN Files : ValidLines(f) \in Seq([map : ValidMaps, min : Int, max : Int])

(* The items of the maps that exist, their limits within bounds.           *)
ReloadMapCycleFile(filename) ==
  LET lines == ValidLines(filename)
  IN  [k \in 1..Len(lines) |-> [map |-> lines[k].map, min |-> Within(lines[k].min),
                                max |-> Within(lines[k].max)]]

(* The place k items after place n, round the list.                        *)
After(list, n, k) == IF n + k <= Len(list) THEN n + k ELSE n + k - Len(list)

Unlimited(item) == item.min = 0 /\ item.max = 0

(* Mutant: the upper limit is taken for a lower one.                       *)
AdmitsAbove(item, curplayers) ==
  /\ item.min # 0 => curplayers >= item.min
  /\ item.max # 0 => curplayers >= item.max

Admits(item, curplayers) ==
  /\ item.min # 0 => curplayers >= item.min
  /\ item.max # 0 => curplayers <= item.max

(* One limit is met, which sets "found" even if the other is not.          *)
HalfAdmits(item, curplayers) ==
  \/ item.min # 0 /\ curplayers >= item.min
  \/ item.max # 0 /\ curplayers <= item.max

(* The traversal stops k items after next_item.  It leaves before it has   *)
(* examined the last item: that one is taken if no other fits and one of   *)
(* them met one of its limits, else next_item is.                          *)
Stops(list, next, curplayers, k) ==
  LET Examined == 0..(Len(list) - 2)
      Fits(j) == Admits(list[After(list, next, j)], curplayers)
      half == \E j \in Examined : HalfAdmits(list[After(list, next, j)], curplayers)
  IN  \/ k \in Examined /\ Fits(k) /\ \A j \in 0..(k - 1) : ~Fits(j)
      \/ (\A j \in Examined : ~Fits(j)) /\ k = IF half THEN Len(list) - 1 ELSE 0

CountPlayers == Cardinality(m_bConnected)

(* Mutants: the pointer stays at the item chosen; it runs off the list.    *)
AdvanceStay(list, next, k) == After(list, next, k)
AdvanceOff(list, next, k) == After(list, next, k) + 1

(* The pointer after the item chosen.                                      *)
Advance(list, next, k) == After(list, After(list, next, k), 1)

(* One more choice, of item, counted no further than the list is long.     *)
Played(list, past, item) ==
  [u \in DOMAIN list |->
     IF u = item THEN 0 ELSE IF past[u] < Len(list) THEN past[u] + 1 ELSE past[u]]

(* Reads the file again if it has another name than the last time; with a  *)
(* list, takes its next map; without one szNextMap is not initialised, and *)
(* is any map, or none that exists, which makes it hldm1.                  *)
ChangeLevel ==
  LET same == szPreviousMapCycleFile = mapcyclefile
      list == IF same THEN items ELSE ReloadMapCycleFile(mapcyclefile)
      next == IF same THEN next_item ELSE 1
  IN  /\ szPreviousMapCycleFile' = mapcyclefile
      /\ IF list = <<>>
         THEN /\ changing' \in ValidMaps
              /\ items' = <<>> /\ next_item' = 1 /\ turns' = <<>>
         ELSE \E k \in 0..(Len(list) - 1) :
                /\ Stops(list, next, CountPlayers, k)
                /\ changing' = list[After(list, next, k)].map
                /\ items' = list /\ next_item' = Advance(list, next, k)
                /\ turns' = Played(list, IF same THEN turns ELSE [u \in DOMAIN list |-> 0],
                                   After(list, next, k))

-----------------------------------------------------------------------------
(* The rules think once a frame, before the players.                       *)

Chat(t) ==
  IF t < 1 THEN 1 ELSE IF t > MAX_INTERMISSION_TIME THEN MAX_INTERMISSION_TIME ELSE t

(* Mutant: a key that was noted before the intermission counts.            *)
GoToIntermissionUnreset ==
  /\ g_fGameOver' = TRUE /\ g_flIntermissionStartTime' = time
  /\ UNCHANGED m_iEndIntermissionButtonHit
  /\ mp_chattime' = Chat(mp_chattime) /\ keyDown' = FALSE

GoToIntermission ==
  /\ g_fGameOver' = TRUE /\ g_flIntermissionStartTime' = time
  /\ m_iEndIntermissionButtonHit' = FALSE
  /\ mp_chattime' = Chat(mp_chattime) /\ keyDown' = FALSE

(* Mutant: without a key the players stay in the intermission.             *)
OverOnKey ==
  /\ g_flIntermissionStartTime + Chat(mp_chattime) < time
  /\ m_iEndIntermissionButtonHit

IntermissionOver ==
  /\ g_flIntermissionStartTime + Chat(mp_chattime) < time
  /\ \/ m_iEndIntermissionButtonHit
     \/ g_flIntermissionStartTime + MAX_INTERMISSION_TIME < time

(* When the time limit is reached, or the frag limit (fragged).            *)
Limits(fragged) ==
  IF fragged \/ (TimeLimit # 0 /\ time >= TimeLimit)
  THEN GoToIntermission
  ELSE UNCHANGED <<g_fGameOver, g_flIntermissionStartTime, m_iEndIntermissionButtonHit,
                   mp_chattime, keyDown>>

Intermission ==
  /\ mp_chattime' = Chat(mp_chattime)
  /\ IF IntermissionOver THEN ChangeLevel ELSE UNCHANGED <<cycle, changing>>
  /\ UNCHANGED <<g_fGameOver, g_flIntermissionStartTime, m_iEndIntermissionButtonHit, keyDown>>

(* A frame of the server: Think, and the clock.  Bound: before the         *)
(* intermission the clock stops at the time limit.                         *)
StartFrame(fragged) ==
  /\ changing = NoMap
  /\ IF g_fGameOver THEN Intermission ELSE Limits(fragged) /\ UNCHANGED <<cycle, changing>>
  /\ time' = IF g_fGameOver' \/ time < TimeLimit THEN time + 1 ELSE time
  /\ UNCHANGED <<players, mapcyclefile>>

(* PreThink and PostThink of a player whose key is down or up.  During the *)
(* intermission PlayerThink clears the keys, so that a key that is held    *)
(* counts as pressed in every frame.                                       *)
PlayerThink(s, down) ==
  /\ changing = NoMap /\ s \in client
  /\ m_iEndIntermissionButtonHit' =
       (m_iEndIntermissionButtonHit \/ (g_fGameOver /\ down /\ s \notin m_afButtonLast))
  /\ m_afButtonLast' = IF down /\ ~g_fGameOver THEN m_afButtonLast \cup {s}
                       ELSE m_afButtonLast \ {s}
  /\ keyDown' = (keyDown \/ (g_fGameOver /\ down))
  /\ UNCHANGED <<client, m_bConnected, time, g_fGameOver, g_flIntermissionStartTime,
                 mp_chattime, mapcyclefile, cycle, changing>>

-----------------------------------------------------------------------------
(* The engine and the operator.                                            *)

PutInServer(s) ==
  /\ changing = NoMap /\ s \notin client
  /\ client' = client \cup {s} /\ m_bConnected' = m_bConnected \cup {s}
  /\ m_afButtonLast' = m_afButtonLast \ {s}
  /\ UNCHANGED <<level, mp_chattime, mapcyclefile, cycle, changing, keyDown>>

(* Mutant: the slots of players who leave are never freed.                 *)
ClientDisconnectNever(s) == m_bConnected' = m_bConnected

(* ClientDisconnect, which does nothing during the intermission.           *)
ClientDisconnect(s) ==
  m_bConnected' = IF g_fGameOver THEN m_bConnected ELSE m_bConnected \ {s}

Leave(s) ==
  /\ changing = NoMap /\ s \in client
  /\ client' = client \ {s} /\ ClientDisconnect(s)
  /\ UNCHANGED <<m_afButtonLast, level, mp_chattime, mapcyclefile, cycle, changing, keyDown>>

SetChatTime(t) ==
  /\ mp_chattime' = t
  /\ UNCHANGED <<players, level, mapcyclefile, cycle, changing, keyDown>>

SetMapCycleFile(f) ==
  /\ mapcyclefile' = f
  /\ UNCHANGED <<players, level, mp_chattime, cycle, changing, keyDown>>

(* The operator's own changelevel command.                                 *)
Changelevel(m) ==
  /\ changing = NoMap /\ changing' = m
  /\ UNCHANGED <<players, level, mp_chattime, mapcyclefile, cycle, keyDown>>

(* CWorld::Spawn of the next level, with new rules and new players.        *)
Spawn ==
  /\ changing # NoMap /\ changing' = NoMap
  /\ client' = {} /\ m_bConnected' = {} /\ m_afButtonLast' = {}
  /\ time' = 0 /\ g_fGameOver' = FALSE /\ g_flIntermissionStartTime' = 0
  /\ m_iEndIntermissionButtonHit' \in BOOLEAN /\ keyDown' = FALSE
  /\ UNCHANGED <<mp_chattime, mapcyclefile, cycle>>

Next ==
  \/ \E fragged \in BOOLEAN : StartFrame(fragged)
  \/ \E s \in Slots : PutInServer(s) \/ Leave(s) \/ \E down \in BOOLEAN : PlayerThink(s, down)
  \/ \E t \in ChatTimes : SetChatTime(t)
  \/ \E f \in DOMAIN Files : SetMapCycleFile(f)
  \/ \E m \in ValidMaps : Changelevel(m)
  \/ Spawn

Spec == Init /\ [][Next]_vars

-----------------------------------------------------------------------------
Item == [map : ValidMaps, min : 0..maxClients, max : 0..maxClients]

(* The pointer is in the list.                                             *)
CycleOK ==
  /\ szPreviousMapCycleFile \in DOMAIN Files \cup {""}
  /\ items \in Seq(Item) /\ next_item \in Nat
  /\ items # <<>> => next_item \in 1..Len(items)
  /\ turns \in [1..Len(items) -> Nat]

(* Slots, times and maps.                                                  *)
TypeOK ==
  /\ client \subseteq Slots /\ m_bConnected \subseteq Slots /\ m_afButtonLast \subseteq Slots
  /\ time \in Nat /\ g_fGameOver \in BOOLEAN /\ g_flIntermissionStartTime \in Nat
  /\ m_iEndIntermissionButtonHit \in BOOLEAN /\ mp_chattime \in Int /\ keyDown \in BOOLEAN
  /\ mapcyclefile \in DOMAIN Files /\ changing \in ValidMaps \cup {NoMap}
  /\ CycleOK

(* However many players there are when a level ends, the traversal never   *)
(* passes over a map without limits: each is chosen at least once in as    *)
(* many consecutive choices as the list is long.                           *)
UnlimitedInTurn ==
  \A u \in 1..Len(items) : Unlimited(items[u]) => turns[u] < Len(items)

(* The players that ChangeLevel counts are those in the game, except that  *)
(* those who leave during the intermission are still counted.              *)
PlayersCounted ==
  /\ client \subseteq m_bConnected
  /\ ~g_fGameOver => m_bConnected = client

Suits(item, n) == (item.min = 0 \/ n >= item.min) /\ (item.max = 0 \/ n <= item.max)

(* A map that does not suit the number of players is chosen only if no map *)
(* of the list suits it, the one before the pointer, which is not          *)
(* examined, excepted.                                                     *)
MapSuitsPlayers ==
  [][<<items, next_item>>' # <<items, next_item>> /\ items' # <<>> =>
       LET chosen == After(items', next_item', Len(items') - 1)
           first  == IF szPreviousMapCycleFile = szPreviousMapCycleFile' THEN next_item ELSE 1
       IN  Suits(items'[chosen], CountPlayers) \/
           \A u \in DOMAIN items' \ {After(items', first, Len(items') - 1)} :
             ~Suits(items'[u], CountPlayers)]_vars

(* The rules end a level only after the chat time, as it then is, and      *)
(* before the longest intermission is over only if a key was down in this  *)
(* one; whatever the operator did to the chat time, and whatever the flag  *)
(* was when the rules were made.                                           *)
IntermissionLasts ==
  [][changing = NoMap /\ changing' # NoMap /\ time' # time =>
       /\ g_fGameOver /\ time > g_flIntermissionStartTime + Chat(mp_chattime)
       /\ keyDown \/ time > g_flIntermissionStartTime + MAX_INTERMISSION_TIME]_vars

(* Every intermission ends by the first frame past its longest time, also  *)
(* if nobody presses a key or the operator keeps changing the chat time.   *)
IntermissionEnds ==
  g_fGameOver /\ changing = NoMap => time <= g_flIntermissionStartTime + MAX_INTERMISSION_TIME + 1
================================================================================
