----------------------------- MODULE StatusRequest -----------------------------
(***************************************************************************)
(* How the scoreboard learns the players' Steam ids.  The client sends the *)
(* console command "status", recognises the answer among the texts that    *)
(* the server prints (SvcPrint, cl_dll/svc_messages.cpp), reads an id from *)
(* each row and keeps the text from the console.  A row bears the player's *)
(* name; the slot is looked up in g_PlayerInfoList.                        *)
(*                                                                         *)
(* The server's texts arrive in order.  A change of a slot's occupant is   *)
(* broadcast with the frame, after what was printed directly meanwhile.    *)
(* A player stands for the name and the id, which never change.            *)
(***************************************************************************)
EXTENDS Naturals, Sequences, FiniteSets

CONSTANTS
  MAX_PLAYERS,  \* slots of the server
  Players,
  NoPlayer,
  hud_scores,   \* whether the cvar is at least 1: the HUD lists the scores
  MaxSlow,      \* bound: answers that take more than a second
  MaxJoins,     \* bound: players who join, beyond the one at the start
  MaxLevels,    \* bound: changes of level
  MaxPrints     \* bound: texts that have nothing to do with all this

Slots == 1..MAX_PLAYERS

ASSUME StatusConstantsOK ==
  /\ MAX_PLAYERS \in Nat \ {0} /\ Players # {} /\ NoPlayer \notin Players
  /\ hud_scores \in BOOLEAN
  /\ MaxSlow \in Nat /\ MaxJoins \in Nat /\ MaxLevels \in Nat /\ MaxPrints \in Nat

VARIABLES
  m_iStatusRequestState,
  processingUserRow,     \* the static of SvcPrint
  recent,                \* the last request is less than a second old
  g_PlayerSteamId,       \* by slot, whose id it is
  names,                 \* the engine's table: the occupant, by slot
  listed,                \* the slots whose name g_PlayerInfoList points to
  roster,                \* the server's
  lag,                   \* changes of occupants that are not broadcast yet
  wire,                  \* from the server to the client
  asked,                 \* "status" commands on their way to the server
  slow, joins, levels, prints,
  missed                 \* history: <<slot, id>> still cached, though it was
                         \* printed that the player had gone

client == <<m_iStatusRequestState, processingUserRow, recent, g_PlayerSteamId>>
table  == <<names, listed>>
server == <<roster, lag>>
bounds == <<slow, joins, levels, prints>>
vars   == <<client, table, server, wire, asked, bounds, missed>>

States == {"IDLE", "SENT", "ANSWER_RECEIVED", "PROCESSING"}

(* The texts of the server.  nl: the text ends its line.  idx: the first   *)
(* column of a row, which counts the rows.                                 *)
Header(nl)  == [kind |-> "header", nl |-> nl]
Row(p, i, nl) == [kind |-> "row", who |-> p, idx |-> i, nl |-> nl]
Rest        == [kind |-> "rest", nl |-> TRUE]
Other(kind) == [kind |-> kind, nl |-> TRUE]
Dropped(p)  == [kind |-> "dropped", who |-> p, nl |-> TRUE]
Unrelated   == Other("print")
Info(s, p)  == [kind |-> "info", slot |-> s, who |-> p]

Text ==
  {Header(nl) : nl \in BOOLEAN}
  \cup {Row(p, i, nl) : p \in Players, i \in Slots, nl \in BOOLEAN}
  \cup {Rest, Unrelated, Other("hostname"), Other("map"), Other("end")}
  \cup {Dropped(p) : p \in Players}
Broadcast == {Info(s, p) : s \in Slots, p \in Players \cup {NoPlayer}}

Occupied(t) == {s \in Slots : t[s] # NoPlayer}

Init ==
  /\ m_iStatusRequestState = "IDLE" /\ processingUserRow = FALSE /\ recent = FALSE
  /\ g_PlayerSteamId = [s \in Slots |-> NoPlayer]
  /\ roster = [s \in Slots |-> IF s = 1 THEN CHOOSE p \in Players : TRUE ELSE NoPlayer]
  /\ names = roster /\ listed = {}
  /\ lag = <<>> /\ wire = <<>> /\ asked = 0
  /\ slow = 0 /\ joins = 0 /\ levels = 0 /\ prints = 0 /\ missed = {}

-----------------------------------------------------------------------------
(* The client asks.                                                        *)

(* Mutant: a request without an answer is never given up.                  *)
SendStatusRequestOnce ==
  IF recent \/ m_iStatusRequestState # "IDLE"
  THEN UNCHANGED <<m_iStatusRequestState, recent, asked>>
  ELSE /\ m_iStatusRequestState' = "SENT" /\ recent' = TRUE
       /\ asked' = asked + 1

(* SendStatusRequest: not within a second of the last request.  What it    *)
(* then puts off, m_fStatusRequestNextTime, nobody ever looks at:          *)
(* CheckForcedSendStatusRequest is not called.                             *)
SendStatusRequest ==
  IF recent
  THEN UNCHANGED <<m_iStatusRequestState, recent, asked>>
  ELSE /\ m_iStatusRequestState' = "SENT" /\ recent' = TRUE
       /\ asked' = asked + 1

IdMissing(list) == \E s \in list : names[s] # NoPlayer /\ g_PlayerSteamId[s] = NoPlayer

(* ScorePanel::Update fetches the players, then asks for the ids it lacks: *)
(* at every ScoreInfo message, every half second while the VGUI1 board is  *)
(* shown, and every half second while the HUD lists the scores, if it does *)
(* (CHudScores::Draw).                                                     *)
Update ==
  /\ listed' = Occupied(names)
  /\ IF IdMissing(listed')
     THEN SendStatusRequest
     ELSE UNCHANGED <<m_iStatusRequestState, recent, asked>>
  /\ UNCHANGED <<processingUserRow, g_PlayerSteamId, names, server, wire, bounds, missed>>

(* CScorePanel::FullUpdate, when the VGUI2 board is opened, asks about the *)
(* players as they were last fetched, then fetches them (RecalcItems).     *)
FullUpdate ==
  /\ IF IdMissing(listed)
     THEN SendStatusRequest
     ELSE UNCHANGED <<m_iStatusRequestState, recent, asked>>
  /\ listed' = Occupied(names)
  /\ UNCHANGED <<processingUserRow, g_PlayerSteamId, names, server, wire, bounds, missed>>

(* Many others fetch a player, or one after the other all of them, without *)
(* asking: the shown board, the chat, the death notices, the models.       *)
GetPlayerInfo(s) ==
  /\ listed' = IF names[s] = NoPlayer THEN listed \ {s} ELSE listed \cup {s}
  /\ UNCHANGED <<client, names, server, wire, asked, bounds, missed>>

Answering == asked > 0 \/ \E i \in DOMAIN wire : wire[i].kind = "end"

(* A second goes by.                                                       *)
Second ==
  /\ recent
  /\ slow' = IF Answering THEN slow + 1 ELSE slow
  /\ slow' <= MaxSlow
  /\ recent' = FALSE
  /\ UNCHANGED <<m_iStatusRequestState, processingUserRow, g_PlayerSteamId, table, server,
                 wire, asked, joins, levels, prints, missed>>

-----------------------------------------------------------------------------
(* The client reads a text, in each of the four states.  What it keeps to  *)
(* itself, in the last two, the console does not show.                     *)

str == Head(wire)

Reads(state) ==
  /\ wire # <<>> /\ str.kind # "info"
  /\ m_iStatusRequestState = state
  /\ wire' = Tail(wire)

(* A departure is noticed only while there is no request.                  *)
Overlooks ==
  missed' = IF str.kind = "dropped"
            THEN missed \cup {<<s, str.who>> : s \in {t \in Slots : g_PlayerSteamId[t] = str.who}}
            ELSE missed

(* Looks like a row of the table: "#", two characters, a space.            *)
LooksLikeRow == str.kind \in {"header", "row"}

(* Mutant: the first column of the row taken for the slot.                 *)
SlotOfIndex(row) == row.idx

(* The slot of the player a row names, 0 if g_PlayerInfoList has none.     *)
SlotOf(row) ==
  LET named == {s \in listed : names[s] = row.who}
  IN  IF named = {} THEN 0 ELSE CHOOSE s \in named : \A t \in named : s <= t

(* Mutant: another column taken for the id.                                *)
IdInIndex(row) == row.idx

IdIn(row) == row.who

ReadIdle ==
  /\ Reads("IDLE")
  /\ IF str.kind = "dropped"
     THEN /\ listed' = Occupied(names)
          /\ g_PlayerSteamId' =
               [s \in Slots |-> IF names[s] = str.who THEN NoPlayer ELSE g_PlayerSteamId[s]]
     ELSE UNCHANGED <<listed, g_PlayerSteamId>>
  /\ UNCHANGED <<m_iStatusRequestState, processingUserRow, recent, names, server, asked,
                 bounds, missed>>

(* The answer begins with the host's name.  Any other text ends the        *)
(* request, but only in its first second.                                  *)
ReadSent ==
  /\ Reads("SENT")
  /\ m_iStatusRequestState' = CASE str.kind = "hostname" -> "ANSWER_RECEIVED"
                                [] str.kind # "hostname" /\ recent -> "IDLE"
                                [] OTHER -> "SENT"
  /\ Overlooks
  /\ UNCHANGED <<processingUserRow, recent, g_PlayerSteamId, table, server, asked, bounds>>

(* Up to the table's header.                                               *)
ReadAnswer ==
  /\ Reads("ANSWER_RECEIVED")
  /\ m_iStatusRequestState' = IF LooksLikeRow THEN "PROCESSING" ELSE "ANSWER_RECEIVED"
  /\ processingUserRow' = (processingUserRow \/ ~str.nl)
  /\ Overlooks
  /\ UNCHANGED <<recent, g_PlayerSteamId, table, server, asked, bounds>>

(* Mutant: the end of the line does not end the row.                       *)
RowPendingOn == processingUserRow \/ (LooksLikeRow /\ ~str.nl)

(* Whether the rest of a row is still to come.                             *)
RowPending == IF LooksLikeRow
              THEN processingUserRow \/ ~str.nl
              ELSE processingUserRow /\ ~str.nl

(* The table: rows, the rest of a row, and the text that ends it.          *)
ReadTable ==
  /\ Reads("PROCESSING")
  /\ g_PlayerSteamId' =
       IF str.kind = "row"
       THEN [s \in Slots |-> IF s = SlotOf(str) THEN IdIn(str) ELSE g_PlayerSteamId[s]]
       ELSE g_PlayerSteamId
  /\ processingUserRow' = RowPending
  /\ m_iStatusRequestState' =
       IF LooksLikeRow \/ processingUserRow THEN "PROCESSING" ELSE "IDLE"
  /\ Overlooks
  /\ UNCHANGED <<recent, table, server, asked, bounds>>

(* The engine's table follows the broadcast.                               *)
ReadInfo ==
  /\ wire # <<>> /\ str.kind = "info"
  /\ wire' = Tail(wire)
  /\ names' = [names EXCEPT ![str.slot] = str.who]
  /\ UNCHANGED <<client, listed, server, asked, bounds, missed>>

-----------------------------------------------------------------------------
(* The server.                                                             *)

Present == Cardinality(Occupied(roster))

(* The i-th slot that has an occupant.                                     *)
Nth(i) == CHOOSE s \in Occupied(roster) : Cardinality({t \in Occupied(roster) : t <= s}) = i

(* The rows, which may be printed in two pieces.                           *)
Rows(split) ==
  LET RowOf(i) == Row(roster[Nth(i)], i, ~split)
  IN  IF split
      THEN [k \in 1..(2 * Present) |-> IF k % 2 = 1 THEN RowOf((k + 1) \div 2) ELSE Rest]
      ELSE [k \in 1..Present |-> RowOf(k)]

(* The answer to "status".                                                 *)
Answer(split) ==
  <<Other("hostname"), Other("map"), Header(TRUE)>> \o Rows(split) \o <<Other("end")>>

HostStatus ==
  /\ asked > 0
  /\ \E split \in BOOLEAN : wire' = wire \o Answer(split)
  /\ asked' = asked - 1
  /\ UNCHANGED <<client, table, server, bounds, missed>>

(* At most one player comes or goes in a frame of the server.              *)
Join ==
  /\ lag = <<>> /\ joins < MaxJoins
  /\ \E s \in Slots, p \in Players :
       /\ roster[s] = NoPlayer /\ \A t \in Slots : roster[t] # p
       /\ roster' = [roster EXCEPT ![s] = p]
       /\ lag' = Append(lag, Info(s, p))
  /\ joins' = joins + 1
  /\ UNCHANGED <<client, table, wire, asked, slow, levels, prints, missed>>

Leave ==
  /\ lag = <<>>
  /\ \E s \in Occupied(roster) :
       /\ roster' = [roster EXCEPT ![s] = NoPlayer]
       /\ wire' = Append(wire, Dropped(roster[s]))
       /\ lag' = Append(lag, Info(s, NoPlayer))
  /\ UNCHANGED <<client, table, asked, bounds, missed>>

EndFrame ==
  /\ lag # <<>>
  /\ wire' = wire \o lag /\ lag' = <<>>
  /\ UNCHANGED <<client, table, roster, asked, bounds, missed>>

PrintOther ==
  /\ prints < MaxPrints /\ prints' = prints + 1
  /\ wire' = Append(wire, Unrelated)
  /\ UNCHANGED <<client, table, server, asked, slow, joins, levels, missed>>

(* ScorePanel::Initialize, when a level starts: what the server was        *)
(* sending is gone, and the engine's table is sent anew.                   *)
Initialize ==
  /\ levels < MaxLevels /\ levels' = levels + 1
  /\ m_iStatusRequestState' = "IDLE" /\ recent' = FALSE
  /\ g_PlayerSteamId' = [s \in Slots |-> NoPlayer] /\ missed' = {}
  /\ names' = [s \in Slots |-> NoPlayer]
  /\ asked' = 0 /\ lag' = <<>>
  /\ wire' = [i \in 1..Present |-> Info(Nth(i), roster[Nth(i)])]
  /\ UNCHANGED <<processingUserRow, listed, roster, slow, joins, prints>>

Client == Update \/ FullUpdate \/ (\E s \in Slots : GetPlayerInfo(s))
          \/ ReadIdle \/ ReadSent \/ ReadAnswer \/ ReadTable \/ ReadInfo
          \/ Initialize \/ Second
Server == HostStatus \/ Join \/ Leave \/ EndFrame \/ PrintOther
Next   == Client \/ Server

Spec == Init /\ [][Next]_vars

(* Only the HUD that lists the scores is sure to ask again and again: the  *)
(* server owes nobody a ScoreInfo message, nor has the board to be opened. *)
(* The connection delivers; the server prints answers and ends its frames; *)
(* time passes.                                                            *)
FairSpec ==
  /\ Spec
  /\ WF_vars(hud_scores /\ Update) /\ WF_vars(Second)
  /\ WF_vars(ReadIdle) /\ WF_vars(ReadSent) /\ WF_vars(ReadAnswer) /\ WF_vars(ReadTable)
  /\ WF_vars(ReadInfo)
  /\ WF_vars(HostStatus) /\ WF_vars(EndFrame)

-----------------------------------------------------------------------------
(* The state of the request, the cached ids, the engine's table, the wire. *)
TypeOK ==
  /\ m_iStatusRequestState \in States
  /\ processingUserRow \in BOOLEAN /\ recent \in BOOLEAN
  /\ g_PlayerSteamId \in [Slots -> Players \cup {NoPlayer}]
  /\ names \in [Slots -> Players \cup {NoPlayer}] /\ listed \subseteq Slots
  /\ roster \in [Slots -> Players \cup {NoPlayer}]
  /\ lag \in Seq(Broadcast) /\ wire \in Seq(Text \cup Broadcast)
  /\ asked \in 0..(MaxSlow + 1)
  /\ slow \in 0..MaxSlow /\ joins \in 0..MaxJoins /\ levels \in 0..MaxLevels
  /\ prints \in 0..MaxPrints
  /\ missed \subseteq (Slots \X Players)

(* The id the scoreboard shows for a slot is its player's.  One exception: *)
(* when the departure of a player was printed during a request, SvcPrint   *)
(* overlooked it, and the slot keeps the id.                               *)
IdsOfOccupants ==
  \A s \in Slots :
    g_PlayerSteamId[s] # NoPlayer =>
      g_PlayerSteamId[s] = names[s] \/ <<s, g_PlayerSteamId[s]>> \in missed

(* As long as answers come in time and the level goes on, SvcPrint        *)
(* keeps nothing but answers from the console.  A repeated request or a    *)
(* change of level amid a row leaves processingUserRow set: the end of the *)
(* next table is then taken for the rest of a row.                         *)
OnlyAnswersHidden ==
  wire # <<>> /\ str.kind \in {"print", "dropped"} /\ slow = 0 /\ levels = 0
    => m_iStatusRequestState \notin {"ANSWER_RECEIVED", "PROCESSING"}

(* While the HUD lists the scores, every player on the scoreboard has an   *)
(* id in the end, whatever was printed amid the requests and however many  *)
(* answers came late or leaked.  With hud_scores at its default a request  *)
(* put off to m_fStatusRequestNextTime waits for whatever calls Update.    *)
EveryIdArrives ==
  hud_scores => <>[](\A s \in Occupied(names) : g_PlayerSteamId[s] # NoPlayer)
===============================================================================
