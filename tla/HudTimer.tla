------------------------------- MODULE HudTimer -------------------------------
(***************************************************************************)
(* CHudTimer's rules query (cl_dll/CHudTimer.cpp, net.cpp): the HUD asks   *)
(* the game server for its rules over UDP, looks at one datagram per frame *)
(* and shows when the map ends.  The server may want a challenge echoed    *)
(* first, and splits an answer that is too long for one datagram.          *)
(*                                                                         *)
(* Time is what Think and SyncTimerRemote can tell of m_flNextSyncTime.    *)
(* The server's rules are the number of changes made to mp_timelimit so    *)
(* far, and the number of them that mp_timeleft reflects: it follows later *)
(***************************************************************************)
EXTENDS Integers, Sequences, FiniteSets

CONSTANTS
  Ids,         \* bound: response ids in use at a time
  MaxParts,    \* datagrams of an answer at most: 15, what four bits count
  Parts,       \* Parts[r]: datagrams the rules take after r changes
  PartSize,    \* what a split packet holds, 1400 - 9 bytes
  LastSize,    \* what the last one holds, or the only one
  MaxChanges,  \* bound: changes of mp_timelimit
  MaxInbox,    \* bound: datagrams waiting in the socket
  MaxFaults,   \* bound: datagrams lost or delivered twice, and time-outs while
               \* something is still on its way
  MaxBreaks    \* bound: level changes, disconnections, changes of the cvar

NoId == "0"
ChallengeSize == 9

ASSUME TimerConstantsOK ==
  /\ MaxChanges \in Nat /\ MaxParts \in Nat \ {0}
  /\ Parts \in [0..MaxChanges -> 1..MaxParts]
  /\ PartSize \in Nat \ {0} /\ LastSize \in 1..PartSize
  /\ NoId \notin Ids
  /\ MaxInbox \in Nat /\ MaxFaults \in Nat
  /\ MaxBreaks \in Nat

VARIABLES
  g_eRulesRequestStatus,
  m_flNextSyncTime,         \* "future", "now", or "old": over 3 seconds ago
  hud_timer_sync,           \* the cvar
  m_iResponceID, m_iReceivedPackets, m_iReceivedPacketsCount, m_iReceivedSize,
  m_szPacketBuffer,         \* what was last written at the place of each part
  m_flSynced, m_bDelayTimeleftReading,
  m_flEndTime,              \* the change it belongs to, or -1
  inbox,                    \* the datagrams waiting in the socket
  net,                      \* those on their way; equal ones count once
  rules, timeleft,          \* the server's
  printed,                  \* "mp_timelimit" changed: not yet at the client
  faults, breaks

merge  == <<m_iResponceID, m_iReceivedPackets, m_iReceivedPacketsCount, m_iReceivedSize,
            m_szPacketBuffer>>
shown  == <<m_flSynced, m_flEndTime, m_bDelayTimeleftReading>>
server == <<rules, timeleft, printed>>
bounds == <<faults, breaks>>
vars   == <<g_eRulesRequestStatus, m_flNextSyncTime, hud_timer_sync, merge, shown, inbox,
            net, server, bounds>>

Awaiting == {"SOCKET_AWAITING_CODE", "SOCKET_AWAITING_ANSWER"}
Statuses == {"SOCKET_NONE", "SOCKET_IDLE"} \cup Awaiting

(* The datagrams: a request, with or without the server's challenge; the   *)
(* challenge; a part of an answer.                                         *)
Ask(coded) == [kind |-> "request", coded |-> coded]
Challenge  == [kind |-> "challenge"]
Part       == [kind : {"rules"}, id : Ids, part : 0..(MaxParts - 1), of : 1..MaxParts,
               limit : 0..MaxChanges, left : 0..MaxChanges]
Datagram   == {Ask(FALSE), Ask(TRUE), Challenge} \cup Part
Nothing    == [kind |-> "nothing"]

PayloadSize(p) == IF p.part = p.of - 1 THEN LastSize ELSE PartSize

Init ==
  /\ g_eRulesRequestStatus = "SOCKET_NONE" /\ m_flNextSyncTime = "now"
  /\ hud_timer_sync = TRUE
  /\ m_iResponceID = NoId /\ m_iReceivedPackets = {} /\ m_iReceivedPacketsCount = 0
  /\ m_iReceivedSize = 0 /\ m_szPacketBuffer = [i \in 0..(MaxParts - 1) |-> Nothing]
  /\ m_flSynced = FALSE /\ m_flEndTime = -1 /\ m_bDelayTimeleftReading = TRUE
  /\ inbox = <<>> /\ net = {}
  /\ rules = 0 /\ timeleft = 0 /\ printed = FALSE
  /\ faults = 0 /\ breaks = 0

-----------------------------------------------------------------------------
(* SyncTimer, connected to a remote server.                                *)

Due      == hud_timer_sync /\ m_flNextSyncTime # "future"
TimedOut == g_eRulesRequestStatus \in Awaiting /\ m_flNextSyncTime = "old"

(* Mutant of SendRequest: the parts of an earlier answer are kept.         *)
SendRequestKeepingParts ==
  /\ Due /\ (g_eRulesRequestStatus \notin Awaiting \/ TimedOut)
  /\ inbox' = <<>>
  /\ net' = net \cup {Ask(FALSE)}
  /\ g_eRulesRequestStatus' = "SOCKET_AWAITING_CODE" /\ m_flNextSyncTime' = "now"
  /\ UNCHANGED <<hud_timer_sync, merge, shown, server, bounds>>

(* A new request, or the old one again after 3 seconds without an answer.  *)
SendRequest ==
  /\ Due /\ (g_eRulesRequestStatus \notin Awaiting \/ TimedOut)
  /\ m_iResponceID' = NoId /\ m_iReceivedPackets' = {} /\ m_iReceivedPacketsCount' = 0
  /\ m_iReceivedSize' = 0
  /\ inbox' = <<>>
  /\ net' = net \cup {Ask(FALSE)}
  /\ g_eRulesRequestStatus' = "SOCKET_AWAITING_CODE" /\ m_flNextSyncTime' = "now"
  /\ UNCHANGED <<hud_timer_sync, m_szPacketBuffer, shown, server, bounds>>

(* One datagram of the socket is looked at.                                *)
Take(p) ==
  /\ Due /\ g_eRulesRequestStatus \in Awaiting /\ ~TimedOut
  /\ inbox # <<>> /\ p = Head(inbox) /\ inbox' = Tail(inbox)
  /\ UNCHANGED <<hud_timer_sync, server, bounds>>

EchoChallenge ==
  /\ Take(Challenge)
  /\ g_eRulesRequestStatus = "SOCKET_AWAITING_CODE"
  /\ g_eRulesRequestStatus' = "SOCKET_AWAITING_ANSWER" /\ m_flNextSyncTime' = "now"
  /\ net' = net \cup {Ask(TRUE)}
  /\ UNCHANGED <<merge, shown>>

(* A packet that is not split goes to the front of the merge buffer.       *)
StrayChallenge ==
  /\ Take(Challenge)
  /\ g_eRulesRequestStatus = "SOCKET_AWAITING_ANSWER"
  /\ m_szPacketBuffer' = [m_szPacketBuffer EXCEPT ![0] = Challenge]
  /\ m_iReceivedSize' = m_iReceivedSize + ChallengeSize
  /\ UNCHANGED <<g_eRulesRequestStatus, m_flNextSyncTime, m_iResponceID,
                 m_iReceivedPackets, m_iReceivedPacketsCount, shown, net>>

(* The rules are parsed.  mp_timelimit stands in the first part of the     *)
(* answer, mp_timeleft in its last; the latter is believed unless it may   *)
(* not have followed a change of the former yet, and there is another look *)
(* soon in that case.                                                      *)
Sync(buffer, of) ==
  /\ m_flSynced' = TRUE
  /\ g_eRulesRequestStatus' = "SOCKET_IDLE"
  /\ m_flEndTime' = IF m_bDelayTimeleftReading THEN buffer[0].limit ELSE buffer[of - 1].left
  /\ m_bDelayTimeleftReading' = FALSE
  /\ m_flNextSyncTime' = "future"

Wait ==
  /\ g_eRulesRequestStatus' = "SOCKET_AWAITING_ANSWER"
  /\ UNCHANGED <<shown, m_flNextSyncTime>>

TakeSingle(p) ==
  /\ Take(p) /\ p \in Part /\ p.of = 1
  /\ m_szPacketBuffer' = [m_szPacketBuffer EXCEPT ![0] = p]
  /\ m_iReceivedSize' = m_iReceivedSize + PayloadSize(p)
  /\ Sync(m_szPacketBuffer', 1)
  /\ UNCHANGED <<m_iResponceID, m_iReceivedPackets, m_iReceivedPacketsCount, net>>

(* Mutants of Wanted: a part of any answer, a part received before.        *)
WantedOfAnyAnswer(p) == p.part \notin m_iReceivedPackets
WantedAgain(p)       == m_iReceivedPackets = {} \/ p.id = m_iResponceID

(* "packet is from different responce", "already has this packet"          *)
Wanted(p) == /\ m_iReceivedPackets = {} \/ p.id = m_iResponceID
             /\ p.part \notin m_iReceivedPackets

DropPart(p) ==
  /\ Take(p) /\ p \in Part /\ p.of > 1 /\ ~Wanted(p)
  /\ Wait
  /\ UNCHANGED <<merge, net>>

AddPart(p) ==
  /\ Take(p) /\ p \in Part /\ p.of > 1 /\ Wanted(p)
  /\ m_iResponceID' = p.id
  /\ m_iReceivedPackets' = m_iReceivedPackets \cup {p.part}
  /\ m_iReceivedPacketsCount' = m_iReceivedPacketsCount + 1
  /\ m_iReceivedSize' = m_iReceivedSize + PayloadSize(p)
  /\ m_szPacketBuffer' = [m_szPacketBuffer EXCEPT ![p.part] = p]
  /\ IF m_iReceivedPacketsCount' >= p.of /\ m_szPacketBuffer'[0].kind = "rules"
       THEN Sync(m_szPacketBuffer', p.of) ELSE Wait
  /\ UNCHANGED net

Receive ==
  \/ EchoChallenge \/ StrayChallenge
  \/ inbox # <<>> /\ \E p \in {Head(inbox)} : TakeSingle(p) \/ DropPart(p) \/ AddPart(p)

(* "Close socket if we are not connected anymore"                          *)
CloseSocket ==
  /\ g_eRulesRequestStatus' = "SOCKET_NONE" /\ inbox' = <<>> /\ net' = {}

Break == breaks < MaxBreaks /\ breaks' = breaks + 1 /\ UNCHANGED faults

Disconnected ==
  /\ Break /\ Due
  /\ CloseSocket
  /\ m_flNextSyncTime' = "future"
  /\ UNCHANGED <<hud_timer_sync, merge, shown, server>>

VidInit ==
  /\ Break
  /\ CloseSocket
  /\ m_flNextSyncTime' = "now" /\ m_iReceivedSize' = 0
  /\ m_flSynced' = FALSE /\ m_flEndTime' = -1 /\ m_bDelayTimeleftReading' = TRUE
  /\ printed' = FALSE
  /\ UNCHANGED <<hud_timer_sync, m_iResponceID, m_iReceivedPackets,
                 m_iReceivedPacketsCount, m_szPacketBuffer, rules, timeleft>>

SetSync(on) ==
  /\ Break
  /\ hud_timer_sync # on /\ hud_timer_sync' = on
  /\ UNCHANGED <<g_eRulesRequestStatus, m_flNextSyncTime, merge, shown, inbox, net, server>>

SyncOff ==
  /\ ~hud_timer_sync /\ m_flNextSyncTime # "future"
  /\ m_flSynced' = FALSE
  /\ UNCHANGED <<g_eRulesRequestStatus, m_flNextSyncTime, hud_timer_sync, merge,
                 m_flEndTime, m_bDelayTimeleftReading, inbox, net, server, bounds>>

(* The message about the cvar arrives.                                     *)
DoResync ==
  /\ printed /\ printed' = FALSE
  /\ m_bDelayTimeleftReading' = TRUE
  /\ m_flNextSyncTime' \in {"now", "old"}
  /\ UNCHANGED <<g_eRulesRequestStatus, hud_timer_sync, merge, m_flSynced, m_flEndTime,
                 inbox, net, rules, timeleft, bounds>>

(* The clock.                                                              *)
Elapse ==
  /\ \/ m_flNextSyncTime = "future" /\ m_flNextSyncTime' = "now" /\ UNCHANGED faults
     \/ /\ m_flNextSyncTime = "now" /\ g_eRulesRequestStatus \in Awaiting
        /\ m_flNextSyncTime' = "old"
        /\ IF net = {} /\ inbox = <<>> THEN UNCHANGED faults
                                       ELSE faults < MaxFaults /\ faults' = faults + 1
  /\ UNCHANGED <<g_eRulesRequestStatus, hud_timer_sync, merge, shown, inbox, net, server,
                 breaks>>

-----------------------------------------------------------------------------
(* The server and the network, which are not in the repository.            *)

ChangeLimit ==
  /\ rules < MaxChanges /\ rules' = rules + 1 /\ printed' = TRUE
  /\ UNCHANGED <<g_eRulesRequestStatus, m_flNextSyncTime, hud_timer_sync, merge, shown,
                 inbox, net, timeleft, bounds>>

TimeleftFollows ==
  /\ timeleft # rules /\ timeleft' = rules
  /\ UNCHANGED <<g_eRulesRequestStatus, m_flNextSyncTime, hud_timer_sync, merge, shown,
                 inbox, net, rules, printed, bounds>>

(* A datagram leaves the network when it arrives, unless it comes twice.   *)
Arrives(d, new) ==
  /\ d \in net
  /\ \/ net' = (net \ {d}) \cup new /\ UNCHANGED faults
     \/ net' = net \cup new /\ faults < MaxFaults /\ faults' = faults + 1
  /\ UNCHANGED <<g_eRulesRequestStatus, m_flNextSyncTime, hud_timer_sync, merge, shown,
                 server, breaks>>

IdsInUse == {m_iResponceID} \cup {d.id : d \in net \cap Part}
            \cup {inbox[i].id : i \in {j \in DOMAIN inbox : inbox[j] \in Part}}

RulesAnswer(id) ==
  {[kind |-> "rules", id |-> id, part |-> i, of |-> Parts[rules], limit |-> rules,
    left |-> timeleft] : i \in 0..(Parts[rules] - 1)}

(* The server answers a request that echoes its challenge with its rules,  *)
(* and one that does not with the challenge or, if it is an old one, with  *)
(* the rules at once.                                                      *)
Reply(r) ==
  /\ r \in {Ask(TRUE), Ask(FALSE)}
  /\ \/ \E id \in Ids \ IdsInUse : Arrives(r, RulesAnswer(id))
     \/ r = Ask(FALSE) /\ Arrives(r, {Challenge})
  /\ UNCHANGED inbox

Deliver(d) ==
  /\ d \notin {Ask(TRUE), Ask(FALSE)}
  /\ Len(inbox) < MaxInbox /\ inbox' = Append(inbox, d)
  /\ Arrives(d, {})

Lose(d) ==
  /\ faults < MaxFaults /\ faults' = faults + 1
  /\ net' = net \ {d}
  /\ UNCHANGED <<g_eRulesRequestStatus, m_flNextSyncTime, hud_timer_sync, merge, shown,
                 inbox, server, breaks>>

Next ==
  \/ SendRequest \/ Receive \/ Disconnected \/ VidInit \/ SyncOff \/ DoResync \/ Elapse
  \/ \E on \in BOOLEAN : SetSync(on)
  \/ ChangeLimit \/ TimeleftFollows
  \/ \E d \in net : Reply(d) \/ Deliver(d) \/ Lose(d)

Spec == Init /\ [][Next]_vars

(* Frames are drawn, time passes, the server works, and the network goes   *)
(* on delivering what it has not lost.                                     *)
FairSpec ==
  /\ Spec
  /\ WF_vars(SendRequest) /\ WF_vars(Receive) /\ WF_vars(SyncOff) /\ WF_vars(DoResync)
  /\ WF_vars(Elapse) /\ WF_vars(TimeleftFollows)
  /\ WF_vars(\E d \in net : Reply(d)) /\ WF_vars(\E d \in net : Deliver(d))

-----------------------------------------------------------------------------
TypeOK ==
  /\ g_eRulesRequestStatus \in Statuses
  /\ m_flNextSyncTime \in {"future", "now", "old"}
  /\ hud_timer_sync \in BOOLEAN
  /\ m_iResponceID \in Ids \cup {NoId}
  /\ m_iReceivedPackets \subseteq 0..(MaxParts - 1)
  /\ m_iReceivedPacketsCount \in 0..MaxParts
  /\ m_iReceivedSize \in Nat
  /\ m_szPacketBuffer \in [0..(MaxParts - 1) -> Part \cup {Challenge, Nothing}]
  /\ m_flSynced \in BOOLEAN /\ m_bDelayTimeleftReading \in BOOLEAN
  /\ m_flEndTime \in -1..MaxChanges
  /\ inbox \in Seq(Part \cup {Challenge})
  /\ net \subseteq Datagram
  /\ rules \in 0..MaxChanges /\ timeleft \in 0..MaxChanges /\ printed \in BOOLEAN
  /\ faults \in 0..MaxFaults
  /\ breaks \in 0..MaxBreaks

(* What is parsed is one answer of the server in full, although parts are  *)
(* lost, come twice, in any order, late, and from several answers.         *)
WholeAnswer ==
  \E n \in 1..MaxParts, id \in Ids :
    /\ \A i \in 0..(n - 1) : /\ m_szPacketBuffer[i].kind = "rules"
                            /\ m_szPacketBuffer[i].id = id
                            /\ m_szPacketBuffer[i].part = i
                            /\ m_szPacketBuffer[i].of = n
    /\ m_iReceivedSize >= (n - 1) * PartSize + LastSize

Parsed == g_eRulesRequestStatus \in Awaiting /\ g_eRulesRequestStatus' = "SOCKET_IDLE"

ParsesWholeAnswers == [][Parsed => WholeAnswer']_vars

(* The timer shows the server's current mp_timelimit in the end, once the  *)
(* network has stopped losing, doubling and delaying datagrams, which the  *)
(* bounds make it do.                                                      *)
TimerFollowsServer ==
  <>[](hud_timer_sync => m_flSynced /\ m_flEndTime = rules)
=============================================================================
