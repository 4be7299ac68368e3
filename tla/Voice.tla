-------------------------------- MODULE Voice --------------------------------
(***************************************************************************)
(* Voice muting as a whole: the server's CVoiceGameMgr, every client's     *)
(* CVoiceStatus, and the engine that connects them, with players who come, *)
(* go, mute each other and sit through level changes.                      *)
(***************************************************************************)
EXTENDS VoiceServer, VoiceClient

CONSTANTS
  Muters,      \* the clients whose players use the mute buttons and the cvar
  MaxJoins,    \* bound: connections ever made
  MaxChanges,  \* bound: changes of mind (mute, cvar, rules, relaunch)
  MaxLevels,   \* bound: level changes
  MaxEvents    \* bound: all three together, connections twice

ASSUME BoundsOK == Muters \subseteq Clients /\ MaxJoins \in Nat /\ MaxChanges \in Nat
                   /\ MaxLevels \in Nat /\ MaxEvents \in Nat

VARIABLES joins, changes, levels

bounds == <<joins, changes, levels>>
vars   == <<link, server, client, bounds>>

(* Whether the bounds leave room for n more.  An intermission counts as    *)
(* the level change it ends in, which there is always room for.            *)
Room(n) ==
  2 * joins + changes + levels + (IF g_fGameOver THEN 1 ELSE 0) + n <= MaxEvents

Init == LinkInit /\ ServerInit /\ ClientInit /\ joins = 0 /\ changes = 0 /\ levels = 0

-----------------------------------------------------------------------------
(* Players come and go.                                                    *)

(* The engine finds a free slot and calls ClientConnect.                   *)
Join(c, s) ==
  /\ joins < MaxJoins /\ Room(2) /\ joins' = joins + 1
  /\ phase[s] = "out" /\ \A t \in Slots : occupant[t] # c
  /\ occupant' = [occupant EXCEPT ![s] = c]
  /\ phase' = [phase EXCEPT ![s] = "connecting"]
  /\ ClientConnected(s)
  /\ UNCHANGED <<down, up, udp, client, changes, levels>>

Spawn(s) ==
  /\ phase[s] = "connecting"
  /\ phase' = [phase EXCEPT ![s] = "playing"]
  /\ PutInServer(s)
  /\ UNCHANGED <<occupant, down, up, udp, client, bounds>>

Leave(s) ==
  /\ phase[s] # "out"
  /\ occupant' = [occupant EXCEPT ![s] = NoOne]
  /\ phase' = [phase EXCEPT ![s] = "out"]
  /\ HangUp(s)
  /\ ClientDisconnect(s)
  /\ UNCHANGED <<client, bounds>>

EndGame ==
  /\ levels < MaxLevels /\ Room(1)
  /\ GoToIntermission
  /\ UNCHANGED <<link, client, bounds>>

(* An intermission ends, or somebody changes the map.  Everyone in the     *)
(* game stays connected and is announced to the new level again.           *)
ChangeLevel ==
  /\ levels < MaxLevels /\ (Room(1) \/ g_fGameOver) /\ levels' = levels + 1
  /\ phase' = [s \in Slots |-> IF phase[s] = "out" THEN "out" ELSE "changing"]
  /\ down' = [s \in Slots |-> <<>>]
  /\ up' = [s \in Slots |-> <<>>]
  /\ udp' = [s \in Slots |-> <<>>]
  /\ NewLevel
  /\ UNCHANGED <<occupant, client, joins, changes>>

Reconnect(s) ==
  /\ phase[s] = "changing"
  /\ phase' = [phase EXCEPT ![s] = "connecting"]
  /\ ClientConnected(s)
  /\ UNCHANGED <<occupant, down, up, udp, client, bounds>>

-----------------------------------------------------------------------------
(* Players and admins change their minds.                                  *)

Change ==
  /\ changes < MaxChanges /\ Room(1) /\ changes' = changes + 1
  /\ UNCHANGED <<joins, levels>>

Mute(s, t, blocked) ==
  /\ Change /\ occupant[s] \in Muters /\ s # t
  /\ SetPlayerBlockedState(s, t, blocked)
  /\ UNCHANGED server

Toggle(c, on) == Change /\ SetModEnable(c, on) /\ UNCHANGED server
Restart(c)    == Change /\ Relaunch(c) /\ UNCHANGED server
Vote(r)       == Change /\ NewRules(r) /\ UNCHANGED <<link, client>>

-----------------------------------------------------------------------------
(* The two ends at work, and the wire.                                     *)

Update == UpdateMasks /\ UNCHANGED <<client, bounds>>

ClientFrame(s) == Frame(s) /\ UNCHANGED <<server, bounds>>

Receive(s) ==
  /\ HandleVoiceMaskMsg(s) \/ HandleReqStateMsg(s)
  /\ UNCHANGED <<server, bounds>>

Command(s) ==
  /\ Playing(s) /\ up[s] # <<>>
  /\ VModEnable(s, Head(up[s]))
  /\ up' = [up EXCEPT ![s] = Tail(@)]
  /\ UNCHANGED <<occupant, phase, down, udp, client, bounds>>

Packet(s) ==
  /\ Playing(s) /\ udp[s] # <<>>
  /\ VBan(s, Head(udp[s]))
  /\ udp' = [udp EXCEPT ![s] = Tail(@)]
  /\ UNCHANGED <<occupant, phase, down, up, client, bounds>>

Lose(s) ==
  /\ udp[s] # <<>>
  /\ udp' = [udp EXCEPT ![s] = Tail(@)]
  /\ UNCHANGED <<occupant, phase, down, up, server, client, bounds>>

Next ==
  \/ \E s \in Slots : \/ \E c \in Clients : Join(c, s)
                      \/ Spawn(s) \/ Leave(s) \/ Reconnect(s)
                      \/ \E t \in Slots : \E b \in BOOLEAN : Mute(s, t, b)
                      \/ ClientFrame(s) \/ Receive(s)
                      \/ Command(s) \/ Packet(s) \/ Lose(s)
  \/ \E c \in Muters : Restart(c) \/ \E on \in BOOLEAN : Toggle(c, on)
  \/ \E r \in Rules : Vote(r)
  \/ EndGame \/ ChangeLevel \/ Update

Spec == Init /\ [][Next]_vars

(* Both ends run their frames, the reliable channel delivers, a packet     *)
(* sent again and again gets through, everyone who connects gets into the  *)
(* game, and an intermission ends (Think changes level after               *)
(* MAX_INTERMISSION_TIME at the latest).                                   *)
FairSpec ==
  /\ Spec
  /\ WF_vars(Update) /\ WF_vars(g_fGameOver /\ ChangeLevel)
  /\ \A s \in Slots : /\ WF_vars(ClientFrame(s)) /\ WF_vars(Receive(s))
                      /\ WF_vars(Command(s)) /\ SF_vars(Packet(s))
                      /\ WF_vars(Spawn(s)) /\ WF_vars(Reconnect(s))

-----------------------------------------------------------------------------
TypeOK == LinkTypeOK /\ ServerTypeOK /\ ClientTypeOK
          /\ joins \in 0..MaxJoins /\ changes \in 0..MaxChanges /\ levels \in 0..MaxLevels

(* The delta compression is sound: outside an intermission the server's    *)
(* record of what it sent to a client is the last mask still on the wire,  *)
(* or what the client holds.                                               *)
LastMask(s, i) == IsMask(down[s][i]) /\ \A j \in (i + 1)..Len(down[s]) : ~IsMask(down[s][j])
NoMask(s)      == \A i \in 1..Len(down[s]) : ~IsMask(down[s][i])
SentNone(s)    == g_SentGameRulesMasks[s] = {} /\ g_SentBanMasks[s] = {}

ClientKnowsWhatWasSent ==
  ~g_fGameOver => \A s \in Slots : Human(s) =>
    /\ \A i \in 1..Len(down[s]) : LastMask(s, i) =>
         down[s][i] = VoiceMask(g_SentGameRulesMasks[s], g_SentBanMasks[s])
    /\ NoMask(s) /\ ~SentNone(s) =>
         /\ m_AudiblePlayers[occupant[s]] = g_SentGameRulesMasks[s]
         /\ m_ServerBannedPlayers[occupant[s]] = g_SentBanMasks[s]

(* What the scoreboard can show (audible, not banned) is what the engine   *)
(* was told to let through.                                                *)
ClientSeesWhatTheEngineDoes ==
  ~g_fGameOver => \A s \in Slots : Human(s) /\ NoMask(s) /\ ~SentNone(s) =>
    listening[s] = m_AudiblePlayers[occupant[s]] \ m_ServerBannedPlayers[occupant[s]]

(* The three below say where the two ends settle once players stop coming, *)
(* going and changing their minds, which the bounds make them do.          *)

(* A muted player's voice does not get through, although the packet that   *)
(* says so may be lost any number of times.                                *)
MutesTakeHold ==
  <>[](\A s, t \in Slots : Human(s) /\ Playing(t) /\ occupant[t] \in m_BanMgr[occupant[s]]
         => t \notin listening[s])

(* Nobody is left blocked, for voice and chat, by a mute meant for the     *)
(* player who had the slot before him.                                     *)
NobodyStaysBlocked ==
  <>[](\A s, t \in Slots : Human(s) /\ Playing(t) /\ PlayerHasBlockedPlayer(s, t)
         => occupant[t] \in m_BanMgr[occupant[s]])

(* The server learns every client's own voice_modenable.                   *)
ModEnableArrives ==
  <>[](\A s \in Slots : Human(s) =>
         (s \in g_PlayerModEnable <=> voice_modenable[occupant[s]]))

(* "Called when a new client connects (unsquelches its entity for          *)
(* everyone)" (voice_gamemgr.h:54).                                        *)
UnsquelchedOnConnect ==
  [][\A s \in Slots : phase[s] # "connecting" /\ phase'[s] = "connecting" =>
       \A r \in Slots : ~PlayerHasBlockedPlayer(r, s)']_vars

(* "If this is different from what the client has, send an update."        *)
(* (voice_gamemgr.cpp:250): after an update with no mask on the wire, the  *)
(* client has the masks of that update.                                    *)
SilentOnlyIfClientHasIt ==
  [][Update => \A s \in Slots : Human(s) /\ NoMask(s)' =>
       /\ m_AudiblePlayers[occupant[s]] = GameRulesMask(s)
       /\ m_ServerBannedPlayers[occupant[s]] = g_BanMasks[s]]_vars
=============================================================================
