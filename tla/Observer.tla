-------------------------------- MODULE Observer --------------------------------
(***************************************************************************)
(* Spectators (dlls/observer.cpp, and its callers in client.cpp and        *)
(* player.cpp): whom an observer watches, and in which mode.  The players  *)
(* he may watch come and go, die or observe themselves; he notices when he *)
(* thinks.  Entities are numbered as in the engine: 0 is none, then the    *)
(* players' slots, then the spots of the map.                              *)
(***************************************************************************)
EXTENDS Integers, Sequences

CONSTANTS
  maxClients,
  SpotClass,   \* by spot: the place of its class in FindNextSpot's list
  Modes,       \* arguments of "specmode" that are tried
  MayObserve   \* bound: slots whose players use the observer's commands

Slots == 1..maxClients
Spots == (maxClients + 1)..(maxClients + Len(SpotClass))
NULL  == 0

classesCount == 4
ClassOf(e) == SpotClass[e - maxClients]

ASSUME ObserverConstantsOK ==
  /\ maxClients \in Nat \ {0} /\ SpotClass \in Seq(0..(classesCount - 1))
  /\ Modes \subseteq Nat /\ MayObserve \subseteq Slots

OBS_NONE         == 0
OBS_CHASE_LOCKED == 1
OBS_CHASE_FREE   == 2
OBS_ROAMING      == 3
OBS_IN_EYE       == 4
OBS_MAP_FREE     == 5
OBS_MAP_CHASE    == 6

Tracking == {OBS_CHASE_LOCKED, OBS_CHASE_FREE, OBS_IN_EYE, OBS_MAP_CHASE}

VARIABLES
  client,                 \* the slots with a client who has been put in the server
  m_bConnected,           \* the slots that the game takes for connected
  m_fGameHUDInitialized,  \* the slots whose HUD has been initialised
  eyes,                   \* by slot: iuser1, iuser2, m_iObserverMode, m_hObserverTarget
  told,                   \* the slots last announced as spectators
  g_fGameOver

slots == <<client, m_bConnected, m_fGameHUDInitialized>>
vars  == <<slots, eyes, told, g_fGameOver>>

Fresh == [iuser1 |-> OBS_NONE, iuser2 |-> NULL, mode |-> OBS_NONE, target |-> NULL]

Init ==
  /\ client = {} /\ m_bConnected = {} /\ m_fGameHUDInitialized = {}
  /\ eyes = [s \in Slots |-> Fresh] /\ told = {} /\ g_fGameOver = FALSE

IsObserver(s) == eyes[s].iuser1 # OBS_NONE

-----------------------------------------------------------------------------
(* What the functions of observer.cpp do to the observer's record e.       *)

(* UTIL_PlayerByIndex finds a player, who is not s and does not observe.   *)
Watchable(s, p) == p \in m_bConnected /\ p # s /\ ~IsObserver(p)

(* Mutant: the search wraps round before the last slot.                    *)
AroundShort(start, d, bReverse) ==
  IF bReverse
  THEN IF d < start THEN start - d ELSE start - d + maxClients
  ELSE IF start + d < maxClients THEN start + d ELSE start + d - maxClients + 1

(* The d-th slot from start, round the table.                              *)
Around(start, d, bReverse) ==
  IF bReverse
  THEN IF d < start THEN start - d ELSE start - d + maxClients
  ELSE IF start + d <= maxClients THEN start + d ELSE start + d - maxClients

Candidates(s, start, bReverse) ==
  {d \in 1..maxClients : Watchable(s, Around(start, d, bReverse))}

(* The least member of a set, and the greatest, if there is one.           *)
First(S) == {x \in S : \A y \in S : x <= y}
Last(S)  == {x \in S : \A y \in S : y <= x}

NextPlayer(s, target, bReverse) ==
  LET start == IF target \in Slots THEN target ELSE s
      found == First(Candidates(s, start, bReverse))
  IN  IF found = {} THEN NULL ELSE Around(start, CHOOSE d \in found : TRUE, bReverse)

(* Mutant: the physics are not told of the new target.                     *)
FindNextPlayerUntold(s, e, bReverse) ==
  [e EXCEPT !.target = NextPlayer(s, e.target, bReverse)]

FindNextPlayer(s, e, bReverse) ==
  LET next == NextPlayer(s, e.target, bReverse)
  IN  [e EXCEPT !.target = next,
                !.iuser2 = IF e.iuser1 \in {OBS_ROAMING, OBS_MAP_FREE} THEN NULL ELSE next]

(* The spots tried in round i: of the target's class beyond the target,    *)
(* then any of the classes that follow in the list.                        *)
SpotsTried(target, bReverse, i) ==
  LET class == IF target \in Spots THEN ClassOf(target) ELSE 0
      tried == (class + (IF bReverse THEN classesCount - i ELSE i)) % classesCount
  IN  {e \in Spots : /\ ClassOf(e) = tried
                     /\ (i = 0 /\ target # NULL)
                          => IF bReverse THEN e < target ELSE e > target}

NextSpot(target, bReverse) ==
  LET rounds == {i \in 0..(classesCount - 1) : SpotsTried(target, bReverse, i) # {}}
      tried  == UNION {SpotsTried(target, bReverse, i) : i \in First(rounds)}
      found  == IF bReverse THEN Last(tried) ELSE First(tried)
  IN  IF found = {} THEN NULL ELSE CHOOSE e \in found : TRUE

FindNextSpot(s, e, bReverse) ==
  LET next == NextSpot(e.target, bReverse)
  IN  IF next = NULL THEN FindNextPlayer(s, e, bReverse) ELSE [e EXCEPT !.target = next]

(* Mutants: spectators may be watched; so may a spot.                      *)
UnfitWithObservers(s, target) == target = s \/ target \notin m_bConnected
UnfitWithSpots(s, target) == target = s \/ (target \in Slots /\ IsObserver(target))

(* The target of a tracking observer who has to find another.              *)
Unfit(s, target) ==
  \/ target = s
  \/ target \in Slots /\ IsObserver(target)
  \/ target \notin m_bConnected

(* Observer_SetMode(OBS_ROAMING), whose call of CheckTarget clears iuser2. *)
Roam(e) == [e EXCEPT !.mode = OBS_ROAMING, !.iuser1 = OBS_ROAMING, !.iuser2 = NULL]

CheckTarget(s, e) ==
  IF e.iuser1 \notin {OBS_ROAMING, OBS_MAP_FREE}
  THEN LET kept  == [e EXCEPT !.target = IF Unfit(s, e.target) THEN NULL ELSE e.target]
           found == IF kept.target = NULL THEN FindNextPlayer(s, kept, FALSE) ELSE kept
       IN  IF found.target = NULL THEN Roam(found) ELSE [found EXCEPT !.iuser2 = found.target]
  ELSE [e EXCEPT !.iuser2 = NULL]

SetMode(s, e, iMode) ==
  LET valid == IF iMode \in OBS_CHASE_LOCKED..OBS_MAP_CHASE THEN iMode ELSE OBS_ROAMING
  IN  IF iMode = e.iuser1
      THEN e
      ELSE CheckTarget(s, [e EXCEPT !.mode = valid, !.iuser1 = valid])

(* Jump goes through the modes; then attack goes to the next player or     *)
(* spot, the other attack to the previous one.                             *)
ModeAfter(iuser1) ==
  CASE iuser1 = OBS_CHASE_LOCKED -> OBS_CHASE_FREE
    [] iuser1 = OBS_CHASE_FREE   -> OBS_MAP_CHASE
    [] iuser1 = OBS_ROAMING      -> OBS_IN_EYE
    [] iuser1 = OBS_IN_EYE       -> OBS_CHASE_LOCKED
    [] iuser1 = OBS_MAP_CHASE    -> OBS_MAP_FREE
    [] OTHER                     -> OBS_ROAMING

Move(s, e, bReverse) ==
  CASE e.iuser1 = OBS_MAP_FREE -> e
    [] e.iuser1 = OBS_ROAMING  -> FindNextSpot(s, e, bReverse)
    [] OTHER                   -> FindNextPlayer(s, e, bReverse)

HandleButtons(s, e, jump, attack) ==
  LET jumped == IF jump THEN SetMode(s, e, ModeAfter(e.iuser1)) ELSE e
  IN  IF attack = "none" THEN jumped ELSE Move(s, jumped, attack = "attack2")
-----------------------------------------------------------------------------
(* Comings and goings.                                                     *)

(* ClientPutInServer: a new CBasePlayer, with the entity's fields cleared. *)
PutInServer(s) ==
  /\ s \notin client
  /\ client' = client \cup {s} /\ m_bConnected' = m_bConnected \cup {s}
  /\ m_fGameHUDInitialized' = m_fGameHUDInitialized \ {s}
  /\ eyes' = [eyes EXCEPT ![s] = Fresh]
  /\ UNCHANGED <<told, g_fGameOver>>

(* ClientDisconnect, which does nothing during the intermission.           *)
Disconnect(s) ==
  /\ s \in client
  /\ client' = client \ {s}
  /\ m_bConnected' = IF g_fGameOver THEN m_bConnected ELSE m_bConnected \ {s}
  /\ UNCHANGED <<m_fGameHUDInitialized, eyes, told, g_fGameOver>>

GoToIntermission ==
  /\ ~g_fGameOver /\ g_fGameOver' = TRUE
  /\ UNCHANGED <<slots, eyes, told>>

(* The next level: everybody is put in the server again.                   *)
ChangeLevel ==
  /\ g_fGameOver
  /\ client' = {} /\ m_bConnected' = {} /\ m_fGameHUDInitialized' = {}
  /\ eyes' = [s \in Slots |-> Fresh] /\ told' = {} /\ g_fGameOver' = FALSE

-----------------------------------------------------------------------------
(* Commands of a client.                                                   *)

May(s) == s \in client \cap MayObserve

(* "spectate", of a player.  Before his HUD is initialised his mode is     *)
(* OBS_NONE, and he is announced without becoming an observer.             *)
StartObserver(s) ==
  /\ May(s) /\ ~IsObserver(s)
  /\ eyes' = [eyes EXCEPT ![s] = SetMode(s, @, @.mode)]
  /\ told' = told \cup {s}
  /\ UNCHANGED <<slots, g_fGameOver>>

(* "spectate", of an observer.                                             *)
StopObserver(s) ==
  /\ May(s) /\ IsObserver(s)
  /\ eyes' = [eyes EXCEPT ![s].iuser1 = OBS_NONE, ![s].iuser2 = NULL]
  /\ m_bConnected' = m_bConnected \cup {s}
  /\ told' = told \ {s}
  /\ UNCHANGED <<client, m_fGameHUDInitialized, g_fGameOver>>

SpecMode(s, iMode) ==
  /\ May(s) /\ IsObserver(s)
  /\ eyes' = [eyes EXCEPT ![s] = SetMode(s, @, iMode)]
  /\ UNCHANGED <<slots, told, g_fGameOver>>

FollowNext(s, bReverse) ==
  /\ May(s) /\ IsObserver(s)
  /\ eyes' = [eyes EXCEPT ![s] = Move(s, @, bReverse)]
  /\ UNCHANGED <<slots, told, g_fGameOver>>

-----------------------------------------------------------------------------
(* CBasePlayer::PreThink.                                                  *)

(* Mutant: the others are not told again.                                  *)
InitHUDUntold(s) ==
  /\ m_fGameHUDInitialized' = m_fGameHUDInitialized \cup {s}
  /\ told' = told

(* UpdateClientData, the first time: the mode becomes OBS_ROAMING, and     *)
(* everybody is told whether the player observes.                          *)
InitHUD(s) ==
  /\ m_fGameHUDInitialized' = m_fGameHUDInitialized \cup {s}
  /\ told' = IF s \in m_fGameHUDInitialized THEN told
             ELSE IF IsObserver(s) THEN told \cup {s} ELSE told \ {s}

Thought(s, jump, attack) ==
  LET e == IF s \in m_fGameHUDInitialized THEN eyes[s] ELSE [eyes[s] EXCEPT !.mode = OBS_ROAMING]
  IN  IF IsObserver(s) THEN CheckTarget(s, HandleButtons(s, e, jump, attack)) ELSE e

PreThink(s, jump, attack) ==
  /\ s \in client /\ ~g_fGameOver
  /\ InitHUD(s)
  /\ eyes' = [eyes EXCEPT ![s] = Thought(s, jump, attack)]
  /\ UNCHANGED <<client, m_bConnected, g_fGameOver>>

Next ==
  \/ \E s \in Slots :
       \/ PutInServer(s) \/ Disconnect(s)
       \/ StartObserver(s) \/ StopObserver(s)
       \/ \E iMode \in Modes : SpecMode(s, iMode)
       \/ \E bReverse \in BOOLEAN : FollowNext(s, bReverse)
       \/ \E jump \in BOOLEAN, attack \in {"none", "attack", "attack2"} :
            PreThink(s, jump, attack)
  \/ GoToIntermission
  \/ ChangeLevel

Spec == Init /\ [][Next]_vars

-----------------------------------------------------------------------------
(* Slots, modes, targets; iuser2 is never a spot.                          *)
TypeOK ==
  /\ client \subseteq Slots /\ m_bConnected \subseteq Slots
  /\ m_fGameHUDInitialized \subseteq Slots /\ told \subseteq Slots
  /\ g_fGameOver \in BOOLEAN
  /\ eyes \in [Slots -> [iuser1 : OBS_NONE..OBS_MAP_CHASE, iuser2 : {NULL} \cup Slots,
                         mode : OBS_NONE..OBS_MAP_CHASE, target : {NULL} \cup Slots \cup Spots]]

(* The assertion of SetupVisibility, in every mode that tracks: the entity *)
(* that the physics and the client follow (iuser2) is the observer's       *)
(* target, between any two commands, thoughts and departures.              *)
PhysicsFollowTarget ==
  \A s \in client :
    /\ eyes[s].iuser1 \in Tracking => eyes[s].iuser2 = eyes[s].target
    /\ eyes[s].iuser1 \notin Tracking => eyes[s].iuser2 = NULL

(* Whatever happened since an observer last thought, once he has thought   *)
(* he watches a connected player who plays, or nobody; and he stops        *)
(* tracking only if there is nobody to track.                              *)
ObserversWatchPlayers ==
  \A s \in client, attack \in {"none", "attack", "attack2"} :
    IsObserver(s) =>
      LET e == Thought(s, FALSE, attack)
      IN  IF e.iuser1 \in Tracking
          THEN Watchable(s, e.target)
          ELSE eyes[s].iuser1 \in Tracking => \A p \in Slots : ~Watchable(s, p)

(* The previous player or spot of the next one is the one that was left,   *)
(* so that both buttons together reach everyone: whatever the gaps in the  *)
(* table, and with spots of several classes.                               *)
PreviousUndoesNext ==
  \A s \in client :
    /\ \A p \in Slots : Watchable(s, p) =>
         /\ NextPlayer(s, NextPlayer(s, p, FALSE), TRUE) = p
         /\ \A q \in Slots : Watchable(s, q) /\ p # q => NextPlayer(s, p, FALSE) # p
    /\ \A e \in Spots : NextSpot(NextSpot(e, FALSE), TRUE) = e

(* Once a player's HUD has been initialised, everybody has been told       *)
(* whether he observes, also if he took the slot of a spectator or asked   *)
(* to spectate before he first thought.                                    *)
SpectatorsKnown ==
  \A s \in client \cap m_fGameHUDInitialized : s \in told <=> IsObserver(s)
================================================================================
