------------------------------ MODULE VoiceProofs ------------------------------
(***************************************************************************)
(* The delta compression of the voice masks is sound, for every number of  *)
(* slots, players and bots and every set of rules.                         *)
(*                                                                         *)
(* ClientKnowsWhatWasSent is not inductive: that a newcomer's record is    *)
(* clear, that his wire is, and that nobody is told masks before he can    *)
(* receive them depends on who sits where and on who counts as connected.  *)
(***************************************************************************)
EXTENDS Voice, SequenceTheorems, TLAPS

(* A slot in use has one client, and a client one slot.                    *)
Seated ==
  /\ \A s \in Slots : phase[s] = "out" <=> occupant[s] = NoOne
  /\ \A s, t \in Slots : occupant[s] = occupant[t] /\ occupant[s] # NoOne => s = t

(* Nothing is on the wire to a client that is not in the game.             *)
Quiet == \A s \in Slots : ~Playing(s) => down[s] = <<>>

(* Outside an intermission who counts as connected is in the game,         *)
Present == ~g_fGameOver => \A s \in m_bConnected : Playing(s)

(* a client on its way in was sent nothing,                                *)
Fresh == ~g_fGameOver => \A s \in Slots : phase[s] = "connecting" => SentNone(s)

(* and the engine's table agrees with the masks sent.                      *)
Told ==
  ~g_fGameOver => \A s \in Slots : Playing(s) /\ ~SentNone(s) =>
    listening[s] = g_SentGameRulesMasks[s] \ g_SentBanMasks[s]

IInv == TypeOK /\ Seated /\ Quiet /\ Present /\ Fresh /\ Told /\ ClientKnowsWhatWasSent

-----------------------------------------------------------------------------
(* Types.                                                                  *)
LEMMA EmptyIsSeq == \A S : <<>> \in Seq(S)
  OBVIOUS

LEMMA InitTyped == Init => TypeOK
  <1> SUFFICES ASSUME Init PROVE TypeOK
    OBVIOUS
  <1> USE LinkOK, RulesOK, BoundsOK, EmptyIsSeq
  <1>1. LinkTypeOK
    BY DEF Init, LinkInit, LinkTypeOK, Phases
  <1>2. ServerTypeOK
    BY DEF Init, ServerInit, ServerTypeOK, None
  <1>3. ClientTypeOK
    BY DEF Init, ClientInit, ClientTypeOK, Unknown
  <1>4. QED
    BY <1>1, <1>2, <1>3 DEF TypeOK, Init

LEMMA NewsTyped ==
  ASSUME TypeOK, NEW s \in Slots
  PROVE  News(s) \in Seq(Message)
  <1>1. GameRulesMask(s) \in SUBSET Slots
    BY DEF TypeOK, ServerTypeOK, GameRulesMask
  <1>2. ReqState \in Message /\ VoiceMask(GameRulesMask(s), g_BanMasks[s]) \in Message
    BY <1>1 DEF Message, Mask, VoiceMask, TypeOK, ServerTypeOK
  <1>3. QED
    BY <1>2, EmptyIsSeq DEF News

LEMMA SentTyped ==
  ASSUME TypeOK
  PROVE  Sent \in [Slots -> Seq(Message)]
  <1>1. ASSUME NEW s \in Slots PROVE down[s] \o News(s) \in Seq(Message)
    <2>1. down[s] \in Seq(Message)
      BY DEF TypeOK, LinkTypeOK
    <2>2. News(s) \in Seq(Message)
      BY NewsTyped
    <2>3. QED
      BY <2>1, <2>2
  <1>2. QED
    BY <1>1 DEF Sent, TypeOK, LinkTypeOK

LEMMA BanMaskTyped ==
  ASSUME NEW c
  PROVE  BanMask(c) \in SUBSET Slots
  BY DEF BanMask, Known

LEMMA UpdateServerStateTyped ==
  ASSUME TypeOK, Seated, NEW s \in Slots, Human(s), NEW b \in BOOLEAN,
         UpdateServerState(s, b)
  PROVE  /\ up' \in [Slots -> Seq(BOOLEAN)]
         /\ udp' \in [Slots -> Seq(SUBSET Slots)]
         /\ m_bServerModEnable' \in [Clients -> SUBSET BOOLEAN]
  <1>1. occupant[s] \in Clients
    BY DEF TypeOK, LinkTypeOK, Seated, Human, Playing
  <1>2. voice_modenable[occupant[s]] \in BOOLEAN
    BY <1>1 DEF TypeOK, ClientTypeOK
  <1>3. up' \in [Slots -> Seq(BOOLEAN)]
    <2>1. Append(up[s], voice_modenable[occupant[s]]) \in Seq(BOOLEAN)
      BY <1>2 DEF TypeOK, LinkTypeOK
    <2>2. QED
      BY <2>1 DEF UpdateServerState, TypeOK, LinkTypeOK
  <1>4. udp' \in [Slots -> Seq(SUBSET Slots)]
    <2>1. Append(udp[s], BanMask(occupant[s])) \in Seq(SUBSET Slots)
      BY BanMaskTyped DEF TypeOK, LinkTypeOK
    <2>2. QED
      BY <2>1 DEF UpdateServerState, TypeOK, LinkTypeOK
  <1>5. m_bServerModEnable' \in [Clients -> SUBSET BOOLEAN]
    BY <1>2 DEF UpdateServerState, TypeOK, ClientTypeOK, On
  <1>6. QED
    BY <1>3, <1>4, <1>5

LEMMA TypeStep == TypeOK /\ Seated /\ [Next]_vars => TypeOK'
  <1> SUFFICES ASSUME TypeOK, Seated, [Next]_vars PROVE TypeOK'
    OBVIOUS
  <1> USE LinkOK, RulesOK, BoundsOK DEF TypeOK, Phases
  <1>1. ASSUME NEW s \in Slots, NEW c \in Clients, Join(c, s) PROVE TypeOK'
    BY <1>1 DEF Join, ClientConnected, client, masks, LinkTypeOK, ServerTypeOK, ClientTypeOK
  <1>2. ASSUME NEW s \in Slots, Spawn(s) PROVE TypeOK'
    BY <1>2 DEF Spawn, PutInServer, client, masks, bounds, LinkTypeOK, ServerTypeOK,
                ClientTypeOK
  <1>3. ASSUME NEW s \in Slots, Leave(s) PROVE TypeOK'
    BY <1>3, EmptyIsSeq DEF Leave, HangUp, ClientDisconnect, client, masks, bounds,
                LinkTypeOK, ServerTypeOK, ClientTypeOK
  <1>4. ASSUME NEW s \in Slots, Reconnect(s) PROVE TypeOK'
    BY <1>4 DEF Reconnect, ClientConnected, client, masks, bounds, LinkTypeOK,
                ServerTypeOK, ClientTypeOK
  <1>5. ASSUME NEW s \in Slots, NEW t \in Slots, NEW b \in BOOLEAN, Mute(s, t, b)
        PROVE  TypeOK'
    <2>1. Human(s) /\ UpdateServerState(s, FALSE)
      BY <1>5 DEF Mute, SetPlayerBlockedState
    <2>2. LinkTypeOK'
      BY <1>5, <2>1, UpdateServerStateTyped DEF Mute, SetPlayerBlockedState, LinkTypeOK
    <2>3. ClientTypeOK'
      <3>1. occupant[t] \in Clients
        BY <1>5 DEF Mute, SetPlayerBlockedState, Known, Playing, Seated, LinkTypeOK
      <3>2. m_BanMgr' \in [Clients -> SUBSET Clients]
        BY <1>5, <3>1 DEF Mute, SetPlayerBlockedState, ClientTypeOK
      <3>3. QED
        BY <1>5, <2>1, <3>2, UpdateServerStateTyped DEF Mute, SetPlayerBlockedState,
                                                         ClientTypeOK
    <2>4. QED
      BY <1>5, <2>2, <2>3 DEF Mute, Change, server, masks, ServerTypeOK
  <1>6. ASSUME NEW s \in Slots, ClientFrame(s) PROVE TypeOK'
    <2>1. Human(s) /\ UpdateServerState(s, FALSE)
      BY <1>6 DEF ClientFrame, Frame
    <2>2. LinkTypeOK' /\ ClientTypeOK'
      BY <1>6, <2>1, UpdateServerStateTyped DEF ClientFrame, Frame, LinkTypeOK, ClientTypeOK
    <2>3. QED
      BY <1>6, <2>2 DEF ClientFrame, server, masks, bounds, ServerTypeOK
  <1>7. ASSUME NEW s \in Slots, Receive(s) PROVE TypeOK'
    <2>1. down[s] \in Seq(Message) /\ down[s] # <<>>
      BY <1>7 DEF Receive, HandleVoiceMaskMsg, HandleReqStateMsg, LinkTypeOK
    <2>2. Head(down[s]) \in Message /\ Tail(down[s]) \in Seq(Message)
      BY <2>1
    <2>3. CASE HandleVoiceMaskMsg(s)
      <3>1. Head(down[s]).hear \in SUBSET Slots /\ Head(down[s]).ban \in SUBSET Slots
        BY <2>2, <2>3 DEF HandleVoiceMaskMsg, IsMask, Message, Mask, ReqState
      <3>2. LinkTypeOK'
        BY <2>2, <2>3 DEF HandleVoiceMaskMsg, LinkTypeOK
      <3>3. ClientTypeOK'
        BY <2>3, <3>1 DEF HandleVoiceMaskMsg, ClientTypeOK, Unknown
      <3>4. QED
        BY <1>7, <3>2, <3>3 DEF Receive, server, masks, bounds, ServerTypeOK
    <2>4. CASE HandleReqStateMsg(s)
      <3>1. Human(s) /\ UpdateServerState(s, TRUE)
        BY <2>4 DEF HandleReqStateMsg
      <3>2. LinkTypeOK'
        BY <2>2, <2>4, <3>1, UpdateServerStateTyped DEF HandleReqStateMsg, LinkTypeOK
      <3>3. ClientTypeOK'
        BY <2>4, <3>1, UpdateServerStateTyped DEF HandleReqStateMsg, ClientTypeOK
      <3>4. QED
        BY <1>7, <3>2, <3>3 DEF Receive, server, masks, bounds, ServerTypeOK
    <2>5. QED
      BY <1>7, <2>3, <2>4 DEF Receive
  <1>8. ASSUME NEW s \in Slots, Command(s) PROVE TypeOK'
    <2>1. Tail(up[s]) \in Seq(BOOLEAN)
      BY <1>8 DEF Command, LinkTypeOK
    <2>2. LinkTypeOK'
      BY <1>8, <2>1 DEF Command, LinkTypeOK
    <2>3. ServerTypeOK'
      BY <1>8 DEF Command, VModEnable, masks, ServerTypeOK
    <2>4. QED
      BY <1>8, <2>2, <2>3 DEF Command, client, bounds, ClientTypeOK
  <1>9. ASSUME NEW s \in Slots, Packet(s) PROVE TypeOK'
    BY <1>9 DEF Packet, VBan, client, masks, bounds, LinkTypeOK, ServerTypeOK,
                ClientTypeOK
  <1>10. ASSUME NEW s \in Slots, Lose(s) PROVE TypeOK'
    BY <1>10 DEF Lose, client, server, masks, bounds, LinkTypeOK, ServerTypeOK,
                 ClientTypeOK
  <1>11. ASSUME NEW c \in Muters, Restart(c) PROVE TypeOK'
    BY <1>11 DEF Restart, Change, Relaunch, server, masks, link, LinkTypeOK, ServerTypeOK,
                 ClientTypeOK, Unknown
  <1>12. ASSUME NEW c \in Muters, NEW on \in BOOLEAN, Toggle(c, on) PROVE TypeOK'
    BY <1>12 DEF Toggle, Change, SetModEnable, server, masks, link, LinkTypeOK,
                 ServerTypeOK, ClientTypeOK
  <1>13. ASSUME NEW r \in Rules, Vote(r) PROVE TypeOK'
    BY <1>13 DEF Vote, Change, NewRules, masks, link, client, LinkTypeOK, ServerTypeOK,
                 ClientTypeOK
  <1>14. CASE EndGame
    BY <1>14 DEF EndGame, GoToIntermission, masks, link, client, bounds, LinkTypeOK,
                 ServerTypeOK, ClientTypeOK
  <1>15. CASE ChangeLevel
    <2>1. LinkTypeOK'
      BY <1>15, EmptyIsSeq DEF ChangeLevel, LinkTypeOK
    <2>2. ServerTypeOK'
      BY <1>15 DEF ChangeLevel, NewLevel, masks, ServerTypeOK
    <2>3. QED
      BY <1>15, <2>1, <2>2 DEF ChangeLevel, client, ClientTypeOK
  <1>16. CASE Update
    <2>1. \A s \in Slots : GameRulesMask(s) \in SUBSET Slots
      BY DEF GameRulesMask, ServerTypeOK
    <2>2. down' \in [Slots -> Seq(Message)]
      BY <1>16, SentTyped DEF Update, UpdateMasks
    <2>3. QED
      BY <1>16, <2>1, <2>2 DEF Update, UpdateMasks, client, bounds, LinkTypeOK,
                               ServerTypeOK, ClientTypeOK
  <1>17. CASE UNCHANGED vars
    BY <1>17 DEF vars, link, server, masks, client, bounds, LinkTypeOK, ServerTypeOK,
                 ClientTypeOK
  <1>18. QED
    BY <1>1, <1>2, <1>3, <1>4, <1>5, <1>6, <1>7, <1>8, <1>9, <1>10, <1>11, <1>12, <1>13,
       <1>14, <1>15, <1>16, <1>17 DEF Next

-----------------------------------------------------------------------------
(* Most steps leave alone everything the invariant speaks of.              *)
core == <<occupant, phase, down, g_SentGameRulesMasks, g_SentBanMasks, listening,
          m_bConnected, g_fGameOver>>

SameMasks(s) ==
  /\ m_AudiblePlayers'[occupant[s]] = m_AudiblePlayers[occupant[s]]
  /\ m_ServerBannedPlayers'[occupant[s]] = m_ServerBannedPlayers[occupant[s]]

Beside == UNCHANGED core /\ \A s \in Slots : occupant[s] \in Clients => SameMasks(s)

Central ==
  \/ \E s \in Slots : \/ \E c \in Clients : Join(c, s)
                      \/ Spawn(s) \/ Leave(s) \/ Reconnect(s) \/ Receive(s)
  \/ EndGame \/ ChangeLevel \/ Update

LEMMA RestartBeside ==
  ASSUME TypeOK, NEW c \in Muters, Restart(c)
  PROVE  Beside
  <1>1. \A s \in Slots : occupant[s] # c
    BY DEF Restart, Relaunch
  <1>2. \A d \in Clients : d # c => /\ m_AudiblePlayers'[d] = m_AudiblePlayers[d]
                                    /\ m_ServerBannedPlayers'[d] = m_ServerBannedPlayers[d]
    BY DEF Restart, Relaunch, TypeOK, ClientTypeOK
  <1>3. \A s \in Slots : occupant[s] \in Clients => SameMasks(s)
    BY <1>1, <1>2 DEF SameMasks
  <1>4. UNCHANGED core
    BY DEF core, Restart, Relaunch, server, masks, link
  <1>5. QED
    BY <1>3, <1>4 DEF Beside

LEMMA Sides == TypeOK /\ [Next]_vars => Central \/ Beside
  <1> SUFFICES ASSUME TypeOK, [Next]_vars PROVE Central \/ Beside
    OBVIOUS
  <1> USE DEF Beside, SameMasks, core
  <1>1. ASSUME NEW s \in Slots, NEW t \in Slots, NEW b \in BOOLEAN, Mute(s, t, b)
        PROVE  Beside
    BY <1>1 DEF Mute, SetPlayerBlockedState, server, masks
  <1>2. ASSUME NEW s \in Slots, ClientFrame(s) PROVE Beside
    BY <1>2 DEF ClientFrame, Frame, server, masks
  <1>3. ASSUME NEW s \in Slots, Receive(s) PROVE Central
    BY <1>3 DEF Central
  <1>4. ASSUME NEW s \in Slots, Command(s) PROVE Beside
    BY <1>4 DEF Command, VModEnable, masks, client
  <1>5. ASSUME NEW s \in Slots, Packet(s) PROVE Beside
    BY <1>5 DEF Packet, VBan, client
  <1>6. ASSUME NEW s \in Slots, Lose(s) PROVE Beside
    BY <1>6 DEF Lose, client, server, masks
  <1>7. ASSUME NEW c \in Muters, NEW on \in BOOLEAN, Toggle(c, on) PROVE Beside
    BY <1>7 DEF Toggle, SetModEnable, server, masks, link
  <1>8. ASSUME NEW r \in Rules, Vote(r) PROVE Beside
    BY <1>8 DEF Vote, NewRules, masks, link, client
  <1>9. CASE UNCHANGED vars
    BY <1>9 DEF vars, link, server, masks, client
  <1> HIDE DEF Beside, SameMasks, core
  <1>10. ASSUME NEW c \in Muters, Restart(c) PROVE Beside
    BY <1>10, RestartBeside
  <1>11. ASSUME NEW s \in Slots,
                \/ \E c \in Clients : Join(c, s)
                \/ Spawn(s) \/ Leave(s) \/ Reconnect(s)
         PROVE  Central
    <2>1. CASE \E c \in Clients : Join(c, s)
      BY <2>1 DEF Central
    <2>2. CASE Spawn(s) \/ Leave(s) \/ Reconnect(s)
      BY <2>2 DEF Central
    <2>3. QED
      BY <1>11, <2>1, <2>2
  <1>12. CASE EndGame \/ ChangeLevel \/ Update
    BY <1>12 DEF Central
  <1>13. QED
    BY <1>1, <1>2, <1>3, <1>4, <1>5, <1>6, <1>7, <1>8, <1>9, <1>10, <1>11, <1>12 DEF Next

-----------------------------------------------------------------------------
(* Who sits where, and what is on the wire to those who are not playing.   *)
LEMMA SeatedStep == TypeOK /\ Seated /\ (Central \/ Beside) => Seated'
  <1> SUFFICES ASSUME TypeOK, Seated, Central \/ Beside PROVE Seated'
    OBVIOUS
  <1> USE LinkOK DEF Seated, TypeOK, LinkTypeOK
  <1>1. ASSUME NEW s \in Slots, NEW c \in Clients, Join(c, s) PROVE Seated'
    BY <1>1 DEF Join
  <1>2. ASSUME NEW s \in Slots, Spawn(s) PROVE Seated'
    BY <1>2 DEF Spawn
  <1>3. ASSUME NEW s \in Slots, Leave(s) PROVE Seated'
    BY <1>3 DEF Leave
  <1>4. ASSUME NEW s \in Slots, Reconnect(s) PROVE Seated'
    BY <1>4 DEF Reconnect
  <1>5. CASE ChangeLevel
    BY <1>5 DEF ChangeLevel
  <1>6. CASE UNCHANGED <<occupant, phase>>
    BY <1>6
  <1>7. QED
    BY <1>1, <1>2, <1>3, <1>4, <1>5, <1>6
       DEF Central, Beside, core, Receive, HandleVoiceMaskMsg, HandleReqStateMsg, EndGame,
           link, Update, UpdateMasks

LEMMA QuietStep == TypeOK /\ Quiet /\ (Central \/ Beside) => Quiet'
  <1> SUFFICES ASSUME TypeOK, Quiet, Central \/ Beside PROVE Quiet'
    OBVIOUS
  <1> USE DEF Quiet, TypeOK, LinkTypeOK, Playing
  <1>1. ASSUME NEW s \in Slots, NEW c \in Clients, Join(c, s) PROVE Quiet'
    BY <1>1 DEF Join
  <1>2. ASSUME NEW s \in Slots, Spawn(s) PROVE Quiet'
    BY <1>2 DEF Spawn
  <1>3. ASSUME NEW s \in Slots, Leave(s) PROVE Quiet'
    BY <1>3 DEF Leave, HangUp
  <1>4. ASSUME NEW s \in Slots, Reconnect(s) PROVE Quiet'
    BY <1>4 DEF Reconnect
  <1>5. CASE ChangeLevel
    BY <1>5 DEF ChangeLevel
  <1>6. ASSUME NEW s \in Slots, Receive(s) PROVE Quiet'
    BY <1>6 DEF Receive, HandleVoiceMaskMsg, HandleReqStateMsg, Human
  <1>7. CASE Update
    BY <1>7 DEF Update, UpdateMasks, Sent, Human
  <1>8. CASE EndGame \/ Beside
    BY <1>8 DEF EndGame, link, Beside, core
  <1>9. QED
    BY <1>1, <1>2, <1>3, <1>4, <1>5, <1>6, <1>7, <1>8 DEF Central

LEMMA PresentStep == TypeOK /\ Present /\ (Central \/ Beside) => Present'
  <1> SUFFICES ASSUME TypeOK, Present, Central \/ Beside PROVE Present'
    OBVIOUS
  <1> USE DEF Present, TypeOK, LinkTypeOK, ServerTypeOK, Playing
  <1>1. ASSUME NEW s \in Slots, NEW c \in Clients, Join(c, s) PROVE Present'
    BY <1>1 DEF Join, ClientConnected
  <1>2. ASSUME NEW s \in Slots, Spawn(s) PROVE Present'
    BY <1>2 DEF Spawn, PutInServer
  <1>3. ASSUME NEW s \in Slots, Leave(s) PROVE Present'
    BY <1>3 DEF Leave, ClientDisconnect
  <1>4. ASSUME NEW s \in Slots, Reconnect(s) PROVE Present'
    BY <1>4 DEF Reconnect, ClientConnected
  <1>5. CASE ChangeLevel
    BY <1>5 DEF ChangeLevel, NewLevel
  <1>6. CASE EndGame
    BY <1>6 DEF EndGame, GoToIntermission
  <1>7. CASE UNCHANGED <<phase, m_bConnected, g_fGameOver>>
    BY <1>7
  <1>8. QED
    BY <1>1, <1>2, <1>3, <1>4, <1>5, <1>6, <1>7
       DEF Central, Beside, core, HandleVoiceMaskMsg, Receive, HandleReqStateMsg, server,
           Update, UpdateMasks

LEMMA FreshStep == TypeOK /\ Present /\ Fresh /\ (Central \/ Beside) => Fresh'
  <1> SUFFICES ASSUME TypeOK, Present, Fresh, Central \/ Beside PROVE Fresh'
    OBVIOUS
  <1> USE DEF Present, Fresh, SentNone, TypeOK, LinkTypeOK, ServerTypeOK, Playing
  <1>1. ASSUME NEW s \in Slots, NEW c \in Clients, Join(c, s) PROVE Fresh'
    BY <1>1 DEF Join, ClientConnected
  <1>2. ASSUME NEW s \in Slots, Spawn(s) PROVE Fresh'
    BY <1>2 DEF Spawn, PutInServer, masks
  <1>3. ASSUME NEW s \in Slots, Leave(s) PROVE Fresh'
    BY <1>3 DEF Leave, ClientDisconnect, masks
  <1>4. ASSUME NEW s \in Slots, Reconnect(s) PROVE Fresh'
    BY <1>4 DEF Reconnect, ClientConnected
  <1>5. CASE ChangeLevel
    BY <1>5 DEF ChangeLevel
  <1>6. CASE EndGame
    BY <1>6 DEF EndGame, GoToIntermission
  <1>7. CASE Update
    BY <1>7 DEF Update, UpdateMasks
  <1>8. CASE UNCHANGED <<phase, g_SentGameRulesMasks, g_SentBanMasks, g_fGameOver>>
    BY <1>8
  <1>9. QED
    BY <1>1, <1>2, <1>3, <1>4, <1>5, <1>6, <1>7, <1>8
       DEF Central, Beside, core, HandleVoiceMaskMsg, Receive, HandleReqStateMsg, server,
           masks

LEMMA ToldStep == TypeOK /\ Fresh /\ Told /\ (Central \/ Beside) => Told'
  <1> SUFFICES ASSUME TypeOK, Fresh, Told, Central \/ Beside PROVE Told'
    OBVIOUS
  <1> USE DEF Fresh, Told, SentNone, TypeOK, LinkTypeOK, ServerTypeOK, Playing
  <1>1. ASSUME NEW s \in Slots, NEW c \in Clients, Join(c, s) PROVE Told'
    BY <1>1 DEF Join, ClientConnected
  <1>2. ASSUME NEW s \in Slots, Spawn(s) PROVE Told'
    BY <1>2 DEF Spawn, PutInServer, masks
  <1>3. ASSUME NEW s \in Slots, Leave(s) PROVE Told'
    BY <1>3 DEF Leave, ClientDisconnect, masks
  <1>4. ASSUME NEW s \in Slots, Reconnect(s) PROVE Told'
    BY <1>4 DEF Reconnect, ClientConnected
  <1>5. CASE ChangeLevel
    BY <1>5 DEF ChangeLevel
  <1>6. CASE EndGame
    BY <1>6 DEF EndGame, GoToIntermission
  <1>7. CASE Update
    BY <1>7 DEF Update, UpdateMasks
  <1>8. CASE UNCHANGED <<phase, g_SentGameRulesMasks, g_SentBanMasks, listening, g_fGameOver>>
    BY <1>8
  <1>9. QED
    BY <1>1, <1>2, <1>3, <1>4, <1>5, <1>6, <1>7, <1>8
       DEF Central, Beside, core, HandleVoiceMaskMsg, Receive, HandleReqStateMsg, server,
           masks

-----------------------------------------------------------------------------
(* The record of what was sent against the wire and the client's copy.     *)
(* Knows(s) is ClientKnowsWhatWasSent for one slot.                        *)
Knows(s) ==
  /\ \A i \in 1..Len(down[s]) : LastMask(s, i) =>
       down[s][i] = VoiceMask(g_SentGameRulesMasks[s], g_SentBanMasks[s])
  /\ NoMask(s) /\ ~SentNone(s) =>
       /\ m_AudiblePlayers[occupant[s]] = g_SentGameRulesMasks[s]
       /\ m_ServerBannedPlayers[occupant[s]] = g_SentBanMasks[s]

LEMMA AllKnow ==
  ClientKnowsWhatWasSent <=> (~g_fGameOver => \A s \in Slots : Human(s) => Knows(s))
  BY DEF ClientKnowsWhatWasSent, Knows

(* A slot whose wire, record and copy stay the same still agrees.          *)
Same(s) ==
  /\ down'[s] = down[s] /\ occupant'[s] = occupant[s]
  /\ g_SentGameRulesMasks'[s] = g_SentGameRulesMasks[s]
  /\ g_SentBanMasks'[s] = g_SentBanMasks[s]
  /\ SameMasks(s)

LEMMA SameKnows ==
  ASSUME NEW s \in Slots, Same(s), Knows(s)
  PROVE  Knows(s)'
  BY DEF Same, Knows, SameMasks, LastMask, NoMask, SentNone

(* So does a slot with an empty wire and an empty record.                  *)
LEMMA EmptyKnows ==
  ASSUME NEW s \in Slots, down[s] = <<>>, SentNone(s)
  PROVE  Knows(s)
  BY DEF Knows, NoMask

(* One client handles the head of its wire.                                *)
LEMMA ReceiveKnows ==
  ASSUME TypeOK, Seated, NEW s \in Slots, Knows(s), Receive(s)
  PROVE  Knows(s)'
  <1> DEFINE d == down[s]
             e == down'[s]
  <1>1. d \in Seq(Message) /\ d # <<>> /\ e = Tail(d)
    BY DEF Receive, HandleVoiceMaskMsg, HandleReqStateMsg, TypeOK, LinkTypeOK
  <1>2. /\ Len(e) = Len(d) - 1 /\ Len(d) \in Nat /\ Len(d) > 0
        /\ \A i \in 1..Len(e) : i + 1 \in 1..Len(d) /\ e[i] = d[i + 1]
        /\ Head(d) = d[1]
    BY <1>1
  <1>3. /\ occupant' = occupant /\ g_SentGameRulesMasks' = g_SentGameRulesMasks
        /\ g_SentBanMasks' = g_SentBanMasks
    BY DEF Receive, HandleVoiceMaskMsg, HandleReqStateMsg, server, masks
  <1>4. ASSUME NEW i \in 1..Len(e), LastMask(s, i)'
        PROVE  e[i] = VoiceMask(g_SentGameRulesMasks[s], g_SentBanMasks[s])
    <2>1. LastMask(s, i + 1)
      <3>1. IsMask(d[i + 1])
        BY <1>2, <1>4 DEF LastMask, IsMask
      <3>2. ASSUME NEW j \in (i + 2)..Len(d) PROVE ~IsMask(d[j])
        <4>1. j - 1 \in (i + 1)..Len(e) /\ j - 1 \in 1..Len(e) /\ e[j - 1] = d[j]
          BY <1>2
        <4>2. QED
          BY <1>4, <4>1 DEF LastMask, IsMask
      <3>3. QED
        BY <3>1, <3>2 DEF LastMask
    <2>2. QED
      BY <1>2, <2>1 DEF Knows
  <1>5. ASSUME NoMask(s)', ~SentNone(s)
        PROVE  /\ m_AudiblePlayers'[occupant[s]] = g_SentGameRulesMasks[s]
               /\ m_ServerBannedPlayers'[occupant[s]] = g_SentBanMasks[s]
    <2>1. ASSUME NEW j \in 2..Len(d) PROVE ~IsMask(d[j])
      <3>1. j - 1 \in 1..Len(e) /\ e[j - 1] = d[j]
        BY <1>2
      <3>2. QED
        BY <1>5, <3>1 DEF NoMask, IsMask
    <2>2. occupant[s] \in Clients
      BY DEF Receive, HandleVoiceMaskMsg, HandleReqStateMsg, Human, Playing, Seated, TypeOK,
             LinkTypeOK
    <2>3. CASE HandleVoiceMaskMsg(s)
      <3>1. LastMask(s, 1)
        BY <1>2, <2>1, <2>3 DEF LastMask, HandleVoiceMaskMsg
      <3>2. d[1] = VoiceMask(g_SentGameRulesMasks[s], g_SentBanMasks[s])
        BY <1>2, <3>1 DEF Knows
      <3>3. d[1].hear = g_SentGameRulesMasks[s] /\ d[1].ban = g_SentBanMasks[s]
        BY <3>2 DEF VoiceMask
      <3>4. QED
        BY <1>2, <2>2, <2>3, <3>3 DEF HandleVoiceMaskMsg, TypeOK, ClientTypeOK
    <2>4. CASE HandleReqStateMsg(s)
      <3>1. ~IsMask(d[1])
        BY <1>2, <2>4 DEF HandleReqStateMsg, IsMask, ReqState
      <3>2. NoMask(s)
        BY <1>2, <2>1, <3>1 DEF NoMask
      <3>3. QED
        BY <1>5, <2>4, <3>2 DEF Knows, HandleReqStateMsg
    <2>5. QED
      BY <2>3, <2>4 DEF Receive
  <1>6. SentNone(s)' = SentNone(s)
    BY <1>3 DEF SentNone
  <1>7. QED
    BY <1>3, <1>4, <1>5, <1>6 DEF Knows

(* The server sends what differs.                                          *)
LEMMA UpdateKnows ==
  ASSUME TypeOK, Seated, NEW s \in Slots, Human(s), Knows(s), Update
  PROVE  Knows(s)'
  <1> DEFINE d == down[s]
             e == down'[s]
             g == GameRulesMask(s)
             new == VoiceMask(g, g_BanMasks[s])
  <1>1. occupant' = occupant /\ UNCHANGED client
    BY DEF Update, UpdateMasks
  <1>2. CASE s \notin m_bConnected
    <2>1. Same(s)
      BY <1>1, <1>2 DEF Update, UpdateMasks, Sent, Same, SameMasks, client, TypeOK,
                        LinkTypeOK, ServerTypeOK
    <2>2. QED
      BY <2>1, SameKnows
  <1>3. CASE s \in m_bConnected
    <2>1. /\ g_SentGameRulesMasks'[s] = g /\ g_SentBanMasks'[s] = g_BanMasks[s]
          /\ e = d \o News(s)
      BY <1>3 DEF Update, UpdateMasks, Sent
    <2>2. d \in Seq(Message) /\ News(s) \in Seq(Message)
      BY NewsTyped DEF TypeOK, LinkTypeOK
    <2>3. /\ Len(e) = Len(d) + Len(News(s)) /\ Len(d) \in Nat /\ Len(News(s)) \in Nat
          /\ \A i \in 1..Len(d) : e[i] = d[i]
          /\ \A i \in 1..Len(News(s)) : e[Len(d) + i] = News(s)[i]
      BY <2>1, <2>2
    <2>4. CASE Differs(s)
      <3>1. Len(News(s)) \in 1..2 /\ News(s)[Len(News(s))] = new
        BY <2>4 DEF News
      <3>2. e[Len(e)] = new /\ Len(e) \in 1..Len(e) /\ IsMask(new)
        <4>0. /\ Len(News(s)) \in Nat /\ Len(News(s)) >= 1
              /\ Len(d) \in Nat /\ Len(e) = Len(d) + Len(News(s))
          BY <2>3, <3>1, SMTT(60)
        <4>1. Len(News(s)) \in 1..Len(News(s)) /\ Len(e) \in 1..Len(e)
          BY <4>0
        <4>2. e[Len(d) + Len(News(s))] = News(s)[Len(News(s))]
          BY <2>3, <4>1
        <4>3. QED
          BY <2>3, <3>1, <4>1, <4>2 DEF VoiceMask, IsMask
      <3>3. ~NoMask(s)'
        BY <3>2 DEF NoMask, IsMask
      <3>4. ASSUME NEW i \in 1..Len(e), LastMask(s, i)' PROVE i = Len(e)
        BY <2>3, <3>2, <3>4 DEF LastMask, IsMask
      <3>5. QED
        BY <2>1, <3>2, <3>3, <3>4 DEF Knows
    <2>5. CASE ~Differs(s)
      <3>1. g = g_SentGameRulesMasks[s] /\ g_BanMasks[s] = g_SentBanMasks[s]
        BY <2>5 DEF Differs
      <3>2. Len(News(s)) \in 0..1 /\ \A i \in 1..Len(News(s)) : News(s)[i] = ReqState
        BY <2>5 DEF News
      <3>3. \A i \in 1..Len(e) : i > Len(d) => ~IsMask(e[i])
        BY <2>3, <3>2 DEF IsMask, ReqState
      <3>4. ASSUME NEW i \in 1..Len(e), LastMask(s, i)'
            PROVE  i \in 1..Len(d) /\ LastMask(s, i) /\ e[i] = d[i]
        <4>1. IsMask(e[i]) /\ \A j \in (i + 1)..Len(e) : ~IsMask(e[j])
          BY <3>4 DEF LastMask, IsMask
        <4>2. i \in 1..Len(d) /\ e[i] = d[i]
          BY <2>3, <3>3, <4>1
        <4>3. \A j \in (i + 1)..Len(d) : j \in (i + 1)..Len(e) /\ e[j] = d[j]
          BY <2>3, <4>2
        <4>4. QED
          BY <4>1, <4>2, <4>3 DEF LastMask
      <3>5. ASSUME NoMask(s)' PROVE NoMask(s)
        <4>1. \A i \in 1..Len(e) : ~IsMask(e[i])
          BY <3>5 DEF NoMask, IsMask
        <4>2. \A i \in 1..Len(d) : i \in 1..Len(e) /\ e[i] = d[i]
          BY <2>3
        <4>3. QED
          BY <4>1, <4>2 DEF NoMask
      <3>6. QED
        BY <1>1, <2>1, <3>1, <3>4, <3>5 DEF Knows, SentNone, client
    <2>6. QED
      BY <2>4, <2>5
  <1>4. QED
    BY <1>2, <1>3

LEMMA KnowStep ==
  ASSUME TypeOK, Seated, Quiet, Present, Fresh, ClientKnowsWhatWasSent, Central \/ Beside
  PROVE  ClientKnowsWhatWasSent'
  <1>1. SUFFICES ASSUME ~g_fGameOver', NEW s \in Slots, Human(s)' PROVE Knows(s)'
    BY DEF ClientKnowsWhatWasSent, Knows
  <1>2. ~g_fGameOver /\ Human(s) => Knows(s)
    BY AllKnow
  <1> USE DEF TypeOK, LinkTypeOK, ServerTypeOK, Human, Playing
  <1>3. ASSUME Same(s), Human(s), ~g_fGameOver PROVE Knows(s)'
    BY <1>2, <1>3, SameKnows
  <1>4. ASSUME NEW t \in Slots, NEW c \in Clients, Join(c, t) PROVE Knows(s)'
    BY <1>1, <1>3, <1>4 DEF Join, ClientConnected, client, Same, SameMasks
  <1>5. ASSUME NEW t \in Slots, Spawn(t) PROVE Knows(s)'
    <2>1. CASE s = t
      <3>1. down'[s] = <<>> /\ SentNone(s)'
        BY <1>1, <1>5, <2>1 DEF Spawn, PutInServer, masks, Quiet, Fresh, SentNone
      <3>2. QED
        BY <3>1 DEF Knows, NoMask
    <2>2. CASE s # t
      BY <1>1, <1>3, <1>5, <2>2 DEF Spawn, PutInServer, client, masks, Same, SameMasks
    <2>3. QED
      BY <2>1, <2>2
  <1>6. ASSUME NEW t \in Slots, Leave(t) PROVE Knows(s)'
    BY <1>1, <1>3, <1>6 DEF Leave, HangUp, ClientDisconnect, client, masks, Same, SameMasks
  <1>7. ASSUME NEW t \in Slots, Reconnect(t) PROVE Knows(s)'
    BY <1>1, <1>3, <1>7 DEF Reconnect, ClientConnected, client, Same, SameMasks
  <1>8. ASSUME NEW t \in Slots, Receive(t) PROVE Knows(s)'
    <2>1. Human(s) /\ ~g_fGameOver
      BY <1>1, <1>8 DEF Receive, HandleVoiceMaskMsg, HandleReqStateMsg, server
    <2>2. CASE s = t
      BY <1>2, <1>8, <2>1, <2>2, ReceiveKnows
    <2>3. CASE s # t
      <3>1. occupant[s] # occupant[t] /\ occupant[s] \in Clients
        BY <2>1, <2>3 DEF Seated
      <3>2. SameMasks(s)
        <4>1. CASE HandleVoiceMaskMsg(t)
          BY <3>1, <4>1 DEF HandleVoiceMaskMsg, SameMasks, ClientTypeOK
        <4>2. CASE HandleReqStateMsg(t)
          BY <4>2 DEF HandleReqStateMsg, SameMasks
        <4>3. QED
          BY <1>8, <4>1, <4>2 DEF Receive
      <3>3. Same(s)
        BY <1>8, <2>3, <3>2 DEF Receive, HandleVoiceMaskMsg, HandleReqStateMsg, server,
                                masks, Same
      <3>4. QED
        BY <1>3, <2>1, <3>3
    <2>4. QED
      BY <2>2, <2>3
  <1>9. ~EndGame
    BY <1>1 DEF EndGame, GoToIntermission
  <1>10. ~ChangeLevel
    BY <1>1 DEF ChangeLevel
  <1>11. CASE Update
    <2>1. Human(s) /\ ~g_fGameOver
      BY <1>1, <1>11 DEF Update, UpdateMasks
    <2>2. QED
      BY <1>2, <1>11, <2>1, UpdateKnows
  <1>12. CASE Beside
    <2>1. Human(s) /\ ~g_fGameOver /\ occupant[s] \in Clients
      BY <1>1, <1>12 DEF Beside, core, Seated
    <2>2. QED
      BY <1>3, <1>12, <2>1 DEF Beside, core, Same
  <1>13. QED
    BY <1>4, <1>5, <1>6, <1>7, <1>8, <1>9, <1>10, <1>11, <1>12 DEF Central

-----------------------------------------------------------------------------
LEMMA InitInv == Init => IInv
  <1> SUFFICES ASSUME Init PROVE IInv
    OBVIOUS
  <1>1. TypeOK
    BY InitTyped
  <1>2. \A s \in Slots : /\ phase[s] = "out" /\ occupant[s] = NoOne /\ down[s] = <<>>
                         /\ SentNone(s)
    BY DEF Init, LinkInit, ServerInit, None, SentNone
  <1>3. m_bConnected = {}
    BY DEF Init, ServerInit
  <1>4. QED
    BY <1>1, <1>2, <1>3
       DEF IInv, Seated, Quiet, Present, Fresh, Told, ClientKnowsWhatWasSent, Human, Playing

LEMMA InvStep == IInv /\ [Next]_vars => IInv'
  BY TypeStep, Sides, SeatedStep, QuietStep, PresentStep, FreshStep, ToldStep, KnowStep DEF IInv

(* The strengthened invariant holds in every reachable state.              *)
THEOREM InvariantHolds == Spec => []IInv
  BY InitInv, InvStep, PTL DEF Spec

(* Every variable of the voice managers and the link keeps its type.       *)
THEOREM TypeCorrect == Spec => []TypeOK
  <1>1. IInv => TypeOK
    BY DEF IInv
  <1>2. QED
    BY <1>1, InvariantHolds, PTL

(* UpdateMasks and HandleVoiceMaskMsg keep the two ends of the delta       *)
(* compression in step, outside an intermission.                           *)
THEOREM DeltasStayInStep == Spec => []ClientKnowsWhatWasSent
  <1>1. IInv => ClientKnowsWhatWasSent
    BY DEF IInv
  <1>2. QED
    BY <1>1, InvariantHolds, PTL

(* What the client may show as audible is what UpdateMasks told the engine *)
(* to let through.                                                         *)
THEOREM ScoreboardTellsTheTruth == Spec => []ClientSeesWhatTheEngineDoes
  <1>1. IInv => ClientSeesWhatTheEngineDoes
    BY DEF IInv, ClientSeesWhatTheEngineDoes, ClientKnowsWhatWasSent, Told, Human
  <1>2. QED
    BY <1>1, InvariantHolds, PTL
=============================================================================
