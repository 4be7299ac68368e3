----------------------------- MODULE VoiceClient -----------------------------
(***************************************************************************)
(* CVoiceStatus and CVoiceBanMgr (game_shared/client/voice_status.cpp and  *)
(* voice_banmgr.cpp), one of each per client: the list of muted players,   *)
(* and what the client believes the server knows of it.                    *)
(***************************************************************************)
EXTENDS VoiceLink

VARIABLES
  m_BanMgr,               \* the players this client has muted
  voice_modenable,        \* its cvar
  m_AudiblePlayers,       \* the last VoiceMask it was sent
  m_ServerBannedPlayers,
  m_bServerModEnable      \* what it told the server, or Unknown

client == <<m_BanMgr, voice_modenable, m_AudiblePlayers, m_ServerBannedPlayers,
            m_bServerModEnable>>

Unknown == {}
On(b)   == {b}

(* The constructor; the mutes come from voice_ban.dt, the cvar is archived *)
ClientInit ==
  /\ m_BanMgr = [c \in Clients |-> {}]
  /\ voice_modenable \in {f \in [Clients -> BOOLEAN] : \A c \in Bots : f[c]}
  /\ m_AudiblePlayers = [c \in Clients |-> {}]
  /\ m_ServerBannedPlayers = [c \in Clients |-> {}]
  /\ m_bServerModEnable = [c \in Clients |-> Unknown]

(* GetPlayerUniqueID knows the players that are in the game.               *)
Known == {t \in Slots : Playing(t)}

(* Mutant of BanMask: the players muted, not the slots they sit in.        *)
BanMaskOfPlayers(c) == m_BanMgr'[c]

(* Mutant of BanMask: the mutes are added to what the server has, and none *)
(* is taken back from a slot that another player has taken.                *)
BanMaskKeeping(c) == {t \in Known : occupant[t] \in m_BanMgr'[c]}
                     \cup (m_ServerBannedPlayers[c] \cap Known)

BanMask(c)       == {t \in Known : occupant[t] \in m_BanMgr'[c]}
ServerBanMask(c) == m_ServerBannedPlayers[c] \cap Known

(* UpdateServerState, for the client in slot s: VModEnable goes reliably,  *)
(* the ban mask does not (one packet too many is a lost packet), and it is *)
(* sent again until the server echoes it.                                  *)
UpdateServerState(s, bForce) ==
  LET c == occupant[s] IN
  /\ Len(up[s]) < MaxUp
  /\ m_bServerModEnable' = [m_bServerModEnable EXCEPT ![c] = On(voice_modenable[c])]
  /\ up' = IF bForce \/ m_bServerModEnable[c] # On(voice_modenable[c])
             THEN [up EXCEPT ![s] = Append(@, voice_modenable[c])] ELSE up
  /\ udp' = IF (bForce \/ BanMask(c) # ServerBanMask(c)) /\ Len(udp[s]) < MaxUp
              THEN [udp EXCEPT ![s] = Append(@, BanMask(c))] ELSE udp

(* Mutant of Frame: it does not look at the server's state.                *)
FrameIdle(s) == Human(s) /\ UNCHANGED <<client, link>>

(* Frame, which comes here once a second.                                  *)
Frame(s) ==
  /\ Human(s)
  /\ UNCHANGED m_BanMgr
  /\ UpdateServerState(s, FALSE)
  /\ UNCHANGED <<voice_modenable, m_AudiblePlayers, m_ServerBannedPlayers,
                 occupant, phase, down>>

(* SetPlayerBlockedState, the scoreboard's mute button.                    *)
SetPlayerBlockedState(s, t, blocked) ==
  LET c == occupant[s] IN
  /\ Human(s) /\ t \in Known
  /\ m_BanMgr' = [m_BanMgr EXCEPT ![c] = IF blocked THEN @ \cup {occupant[t]}
                                                    ELSE @ \ {occupant[t]}]
  /\ UpdateServerState(s, FALSE)
  /\ UNCHANGED <<voice_modenable, m_AudiblePlayers, m_ServerBannedPlayers,
                 occupant, phase, down>>

(* The message has no byte left for the READ_BYTE at its end, which gives  *)
(* -1: the client forgets that it told the server its cvar.                *)
HandleVoiceMaskMsg(s) ==
  LET c == occupant[s] IN
  /\ Human(s) /\ down[s] # <<>> /\ IsMask(Head(down[s]))
  /\ m_AudiblePlayers' = [m_AudiblePlayers EXCEPT ![c] = Head(down[s]).hear]
  /\ m_ServerBannedPlayers' = [m_ServerBannedPlayers EXCEPT ![c] = Head(down[s]).ban]
  /\ m_bServerModEnable' = [m_bServerModEnable EXCEPT ![c] = Unknown]
  /\ down' = [down EXCEPT ![s] = Tail(@)]
  /\ UNCHANGED <<m_BanMgr, voice_modenable, occupant, phase, up, udp>>

HandleReqStateMsg(s) ==
  /\ Human(s) /\ down[s] # <<>> /\ Head(down[s]) = ReqState
  /\ UNCHANGED m_BanMgr
  /\ UpdateServerState(s, TRUE)
  /\ down' = [down EXCEPT ![s] = Tail(@)]
  /\ UNCHANGED <<voice_modenable, m_AudiblePlayers, m_ServerBannedPlayers,
                 occupant, phase>>

(* The player sets the cvar, or talks, which sets it (UpdateSpeakerStatus) *)
SetModEnable(c, on) ==
  /\ voice_modenable[c] # on
  /\ voice_modenable' = [voice_modenable EXCEPT ![c] = on]
  /\ UNCHANGED <<m_BanMgr, m_AudiblePlayers, m_ServerBannedPlayers,
                 m_bServerModEnable, link>>

(* The game is quit, which saves the mutes, and started again.             *)
Relaunch(c) ==
  /\ \A s \in Slots : occupant[s] # c
  /\ m_AudiblePlayers' = [m_AudiblePlayers EXCEPT ![c] = {}]
  /\ m_ServerBannedPlayers' = [m_ServerBannedPlayers EXCEPT ![c] = {}]
  /\ m_bServerModEnable' = [m_bServerModEnable EXCEPT ![c] = Unknown]
  /\ UNCHANGED <<m_BanMgr, voice_modenable, link>>

ClientTypeOK ==
  /\ m_BanMgr \in [Clients -> SUBSET Clients]
  /\ voice_modenable \in [Clients -> BOOLEAN]
  /\ m_AudiblePlayers \in [Clients -> SUBSET Slots]
  /\ m_ServerBannedPlayers \in [Clients -> SUBSET Slots]
  /\ m_bServerModEnable \in [Clients -> SUBSET BOOLEAN]
=============================================================================
