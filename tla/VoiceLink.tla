------------------------------ MODULE VoiceLink ------------------------------
(***************************************************************************)
(* The engine between the voice manager of the server and the voice        *)
(* managers of the clients: who sits in which slot, and what is on the     *)
(* wire.  The engine is not part of the repository; this is what the code  *)
(* on both ends relies on.                                                 *)
(*                                                                         *)
(* Messages to a client and its reliable commands arrive in order while    *)
(* the connection lasts.  pfnServerCmdUnreliable ("vban") packets may be   *)
(* lost and never overtake one another.                                    *)
(***************************************************************************)
EXTENDS Naturals, Sequences

CONSTANTS
  Slots,     \* the client slots 0 .. m_nMaxPlayers - 1
  Clients,   \* the players, as GetPlayerUniqueID tells them apart
  Bots,      \* those that are fake clients, with nothing at the other end
  NoOne,
  MaxDown,   \* bound: messages under way to a client
  MaxUp      \* bound: commands of each kind under way to the server

ASSUME LinkOK == /\ NoOne \notin Clients /\ Bots \subseteq Clients
                 /\ MaxDown \in Nat /\ MaxUp \in Nat

VARIABLES
  occupant,  \* occupant[s]: the client in slot s, or NoOne
  phase,     \* phase[s]: how far that client is into the game
  down,      \* down[s]: messages to the client in slot s
  up,        \* up[s]: its VModEnable commands to the server
  udp        \* udp[s]: its vban commands

link == <<occupant, phase, down, up, udp>>

(* "connecting" lasts from ClientConnect to ClientPutInServer; "changing"  *)
(* from the end of a level to the ClientConnect of the next one.           *)
Phases == {"out", "changing", "connecting", "playing"}

Playing(s) == phase[s] = "playing"
Human(s)   == Playing(s) /\ occupant[s] \notin Bots

(* What the server can say.                                                *)
Mask     == [type : {"VoiceMask"}, hear : SUBSET Slots, ban : SUBSET Slots]
ReqState == [type |-> "ReqState"]
Message  == Mask \cup {ReqState}

VoiceMask(hear, ban) == [type |-> "VoiceMask", hear |-> hear, ban |-> ban]
IsMask(m)            == m.type = "VoiceMask"

LinkInit ==
  /\ occupant = [s \in Slots |-> NoOne]
  /\ phase = [s \in Slots |-> "out"]
  /\ down = [s \in Slots |-> <<>>]
  /\ up = [s \in Slots |-> <<>>]
  /\ udp = [s \in Slots |-> <<>>]

(* A slot's connection starts or ends: nothing is on its wire.             *)
HangUp(s) ==
  /\ down' = [down EXCEPT ![s] = <<>>]
  /\ up' = [up EXCEPT ![s] = <<>>]
  /\ udp' = [udp EXCEPT ![s] = <<>>]

LinkTypeOK ==
  /\ occupant \in [Slots -> Clients \cup {NoOne}]
  /\ phase \in [Slots -> Phases]
  /\ down \in [Slots -> Seq(Message)]
  /\ up \in [Slots -> Seq(BOOLEAN)]
  /\ udp \in [Slots -> Seq(SUBSET Slots)]
=============================================================================
