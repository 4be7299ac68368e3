----------------------------- MODULE VoiceServer -----------------------------
(***************************************************************************)
(* CVoiceGameMgr (game_shared/server/voice_gamemgr.cpp): which client may  *)
(* hear which other client.  Its masks are globals that outlive the        *)
(* manager, so they survive disconnects and level changes.                 *)
(***************************************************************************)
EXTENDS VoiceLink

CONSTANT Rules  \* what the game rules may say: sets of [Slots -> SUBSET Slots]

ASSUME RulesOK == Rules \subseteq [Slots -> SUBSET Slots]

VARIABLES
  g_PlayerModEnable,     \* slots whose client wants voice
  g_BanMasks,            \* g_BanMasks[s]: slots the client in s has muted
  g_SentGameRulesMasks,  \* the masks last sent to each client
  g_SentBanMasks,
  g_bWantModEnable,      \* slots whose VModEnable is awaited
  m_bConnected,          \* slots whose CBasePlayer counts as a player
  hears,                 \* sv_alltalk or CanPlayerHearPlayer, per listener
  listening,             \* what pfnVoice_SetClientListening was told last
  g_fGameOver

masks  == <<g_BanMasks, g_SentGameRulesMasks, g_SentBanMasks>>
server == <<g_PlayerModEnable, masks, g_bWantModEnable, m_bConnected, hears,
            listening, g_fGameOver>>

None == [s \in Slots |-> {}]

ServerInit ==
  /\ g_PlayerModEnable = {} /\ g_bWantModEnable = {} /\ m_bConnected = {}
  /\ g_BanMasks = None /\ g_SentGameRulesMasks = None /\ g_SentBanMasks = None
  /\ listening = None /\ hears \in Rules /\ g_fGameOver = FALSE

(* Mutant of ClientConnected: the ban mask's delta is not cleared.          *)
ClientConnectedKeepsBanDelta(s) ==
  /\ g_bWantModEnable' = g_bWantModEnable \cup {s}
  /\ g_SentGameRulesMasks' = [g_SentGameRulesMasks EXCEPT ![s] = {}]
  /\ UNCHANGED <<g_PlayerModEnable, g_BanMasks, g_SentBanMasks, m_bConnected, hears,
                 listening, g_fGameOver>>

(* Mutant of ClientConnected: nobody asks for the client's VModEnable.     *)
ClientConnectedAsksNothing(s) ==
  /\ g_SentGameRulesMasks' = [g_SentGameRulesMasks EXCEPT ![s] = {}]
  /\ g_SentBanMasks' = [g_SentBanMasks EXCEPT ![s] = {}]
  /\ UNCHANGED <<g_PlayerModEnable, g_BanMasks, g_bWantModEnable, m_bConnected, hears,
                 listening, g_fGameOver>>

(* "Clear out everything we use for deltas on this guy."                   *)
ClientConnected(s) ==
  /\ g_bWantModEnable' = g_bWantModEnable \cup {s}
  /\ g_SentGameRulesMasks' = [g_SentGameRulesMasks EXCEPT ![s] = {}]
  /\ g_SentBanMasks' = [g_SentBanMasks EXCEPT ![s] = {}]
  /\ UNCHANGED <<g_PlayerModEnable, g_BanMasks, m_bConnected, hears, listening,
                 g_fGameOver>>

(* ClientCommand "vban" and "VModEnable", from spawned players only.       *)
VBan(s, mask) ==
  /\ g_BanMasks' = [g_BanMasks EXCEPT ![s] = mask]
  /\ UNCHANGED <<g_PlayerModEnable, g_SentGameRulesMasks, g_SentBanMasks,
                 g_bWantModEnable, m_bConnected, hears, listening, g_fGameOver>>

VModEnable(s, on) ==
  /\ g_PlayerModEnable' = IF on THEN g_PlayerModEnable \cup {s}
                                ELSE g_PlayerModEnable \ {s}
  /\ g_bWantModEnable' = g_bWantModEnable \ {s}
  /\ UNCHANGED <<masks, m_bConnected, hears, listening, g_fGameOver>>

(* UpdateMasks, for the players there are.                                 *)
GameRulesMask(s) == IF s \in g_PlayerModEnable THEN hears[s] \cap m_bConnected ELSE {}

Differs(s) == \/ GameRulesMask(s) # g_SentGameRulesMasks[s]
              \/ g_BanMasks[s] # g_SentBanMasks[s]

News(s) == (IF s \in g_bWantModEnable THEN <<ReqState>> ELSE <<>>)
           \o (IF Differs(s) THEN <<VoiceMask(GameRulesMask(s), g_BanMasks[s])>>
                             ELSE <<>>)

(* The engine carries messages to humans who are in the game only.         *)
Sent == [s \in Slots |-> IF s \in m_bConnected /\ Human(s) THEN down[s] \o News(s)
                                                             ELSE down[s]]

(* Mutant of UpdateMasks: "tell the engine" looks at the ban mask that was *)
(* sent before.                                                            *)
UpdateMasksLate ==
  /\ \A s \in Slots : Len(Sent[s]) <= MaxDown
  /\ down' = Sent
  /\ g_SentGameRulesMasks' = [s \in Slots |->
       IF s \in m_bConnected THEN GameRulesMask(s) ELSE g_SentGameRulesMasks[s]]
  /\ g_SentBanMasks' = [s \in Slots |->
       IF s \in m_bConnected THEN g_BanMasks[s] ELSE g_SentBanMasks[s]]
  /\ listening' = [s \in Slots |->
       IF s \in m_bConnected THEN GameRulesMask(s) \ g_SentBanMasks[s] ELSE listening[s]]
  /\ UNCHANGED <<g_PlayerModEnable, g_BanMasks, g_bWantModEnable, m_bConnected, hears,
                 g_fGameOver, occupant, phase, up, udp>>

UpdateMasks ==
  /\ \A s \in Slots : Len(Sent[s]) <= MaxDown
  /\ down' = Sent
  /\ g_SentGameRulesMasks' = [s \in Slots |->
       IF s \in m_bConnected THEN GameRulesMask(s) ELSE g_SentGameRulesMasks[s]]
  /\ g_SentBanMasks' = [s \in Slots |->
       IF s \in m_bConnected THEN g_BanMasks[s] ELSE g_SentBanMasks[s]]
  /\ listening' = [s \in Slots |->
       IF s \in m_bConnected THEN GameRulesMask(s) \ g_BanMasks[s] ELSE listening[s]]
  /\ UNCHANGED <<g_PlayerModEnable, g_BanMasks, g_bWantModEnable, m_bConnected, hears,
                 g_fGameOver, occupant, phase, up, udp>>

(* Host_Say asks this before it shows a player's chat to another.          *)
PlayerHasBlockedPlayer(receiver, sender) == sender \in g_BanMasks[receiver]

(* The parts of the game around the manager that it depends on.            *)
PutInServer(s) ==
  /\ m_bConnected' = m_bConnected \cup {s}
  /\ UNCHANGED <<g_PlayerModEnable, masks, g_bWantModEnable, hears, listening,
                 g_fGameOver>>

(* ClientDisconnect returns at once during an intermission: the player who *)
(* left still counts as connected.                                         *)
ClientDisconnect(s) ==
  /\ m_bConnected' = IF g_fGameOver THEN m_bConnected ELSE m_bConnected \ {s}
  /\ UNCHANGED <<g_PlayerModEnable, masks, g_bWantModEnable, hears, listening,
                 g_fGameOver>>

GoToIntermission ==
  /\ ~g_fGameOver /\ g_fGameOver' = TRUE
  /\ UNCHANGED <<g_PlayerModEnable, masks, g_bWantModEnable, m_bConnected, hears,
                 listening>>

(* A new level: new world, new entities, a new CHalfLifeMultiplay.         *)
NewLevel ==
  /\ g_fGameOver' = FALSE /\ m_bConnected' = {}
  /\ UNCHANGED <<g_PlayerModEnable, masks, g_bWantModEnable, hears, listening>>

(* sv_alltalk is set, or somebody changes team.                            *)
NewRules(r) ==
  /\ hears' = r /\ r # hears
  /\ UNCHANGED <<g_PlayerModEnable, masks, g_bWantModEnable, m_bConnected, listening,
                 g_fGameOver>>

ServerTypeOK ==
  /\ g_PlayerModEnable \subseteq Slots /\ g_bWantModEnable \subseteq Slots
  /\ m_bConnected \subseteq Slots
  /\ g_BanMasks \in [Slots -> SUBSET Slots]
  /\ g_SentGameRulesMasks \in [Slots -> SUBSET Slots]
  /\ g_SentBanMasks \in [Slots -> SUBSET Slots]
  /\ hears \in [Slots -> SUBSET Slots]
  /\ listening \in [Slots -> SUBSET Slots]
  /\ g_fGameOver \in BOOLEAN
=============================================================================
