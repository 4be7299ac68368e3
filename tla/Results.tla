--------------------------------- MODULE Results --------------------------------
(***************************************************************************)
(* Automatic demos (cl_dll/results.cpp, Windows): the demo that the client *)
(* records of each game by itself, told from the user's own only by a      *)
(* mark, and the list of these demos in a file, from which old ones are    *)
(* purged in place when the client starts.  Commands given to the engine   *)
(* are queued and executed once a frame; then, in an order that the engine *)
(* decides, the client is called.  It may crash at any time.               *)
(***************************************************************************)
EXTENDS Integers, Sequences, FiniteSets

CONSTANTS
  RowLength,      \* by demo: the length of its row of the list; as many as may be made
  KeepDays,       \* results_demo_keepdays
  Grace,          \* frames that the watchdog waits for a demo to start; 10
  LastDay,        \* bound: days
  MaxTyped        \* bound: commands of the user waiting in the queue

Demos == DOMAIN RowLength
None  == 0
User  == -1

ASSUME ResultsConstantsOK ==
  /\ RowLength \in Seq(Nat \ {0}) /\ KeepDays \in Nat /\ Grace \in Nat \ {0}
  /\ LastDay \in Nat /\ MaxTyped \in Nat

VARIABLES
  phase,                      \* "off", "purge", or in a frame: "commands", "calls"
  called,                     \* the calls made in this frame
  active, maxClients,         \* engine: whether it is in a game, and of how many
  recording,                  \* engine: the demo it records
  queue,                      \* engine: commands
  exists,                     \* disk: the demos
  list,                       \* disk: the list, as the pieces <<demo, k>> of its rows
  born,                       \* by demo made: the day that its row tells
  day,
  readPos, writePos,          \* of the purge
  stuck,                      \* history: demos that could not be removed
  g_iLastMaxClients,
  g_bDemoRecording, g_bDemoRecordingFrame, g_bDemoRecordingStartIssued,
  g_bResultsStarted,
  log,                        \* whether g_pLogFile is open
  m_iIntermission

engine == <<active, maxClients, recording, queue>>
disk   == <<exists, list, born, day, stuck>>
purge  == <<readPos, writePos>>
mark   == <<g_bDemoRecording, g_bDemoRecordingFrame, g_bDemoRecordingStartIssued>>
game   == <<g_iLastMaxClients, g_bResultsStarted, log, m_iIntermission>>
vars   == <<phase, called, engine, disk, purge, mark, game>>

Init ==
  /\ phase = "off" /\ called = {}
  /\ active = FALSE /\ maxClients = 1 /\ recording = None /\ queue = <<>>
  /\ exists = {} /\ list = <<>> /\ born = <<>> /\ day = 0 /\ stuck = {}
  /\ readPos = 0 /\ writePos = 0
  /\ g_bDemoRecording = FALSE /\ g_bDemoRecordingFrame = 0
  /\ g_bDemoRecordingStartIssued = FALSE
  /\ g_iLastMaxClients = 0 /\ g_bResultsStarted = FALSE /\ log = FALSE
  /\ m_iIntermission = FALSE

-----------------------------------------------------------------------------
(* The list.                                                               *)

Row(d) == [k \in 1..RowLength[d] |-> <<d, k>>]

(* The last piece of a row has the end of the line.                        *)
LineEnd(piece) == piece[2] = RowLength[piece[1]]

Old(d) == day - born[d] > KeepDays

(* The line at readPos.                                                    *)
Line ==
  LET ends == {p \in (readPos + 1)..Len(list) : LineEnd(list[p])}
  IN  SubSeq(list, readPos + 1, CHOOSE p \in ends : \A q \in ends : p <= q)

(* A write of s after the first pos pieces.                                *)
Overwrite(pos, s) ==
  [p \in DOMAIN list |-> IF p \in (pos + 1)..(pos + Len(s)) THEN s[p - pos] ELSE list[p]]

(* Mutant: the place to write to is not moved.                             *)
PlaceBackAtOnePlace(line) ==
  /\ list' = IF readPos # writePos THEN Overwrite(writePos, line) ELSE list
  /\ readPos' = readPos + Len(line)
  /\ writePos' = IF readPos # writePos THEN writePos ELSE readPos + Len(line)

(* A row that is kept moves to the place after the last one.               *)
PlaceBack(line) ==
  /\ list' = IF readPos # writePos THEN Overwrite(writePos, line) ELSE list
  /\ readPos' = readPos + Len(line)
  /\ writePos' = writePos + Len(line)

(* A turn of the loop.  The removal may fail; so may a line be what is     *)
(* left of a row, when the client crashed in an earlier purge.             *)
PurgeRow(removed) ==
  /\ phase = "purge" /\ readPos < Len(list)
  /\ LET d     == list[readPos + 1][1]
         valid == Line = Row(d)
     IN  IF valid /\ ~Old(d)
         THEN PlaceBack(Line) /\ UNCHANGED <<exists, stuck>>
         ELSE /\ readPos' = readPos + Len(Line)
              /\ exists' = IF valid /\ removed THEN exists \ {d} ELSE exists
              /\ stuck' = IF valid /\ d \in exists
                          THEN IF removed THEN stuck \ {d} ELSE stuck \cup {d} ELSE stuck
              /\ UNCHANGED <<list, writePos>>
  /\ UNCHANGED <<phase, called, engine, born, day, mark, game>>

(* The list is cut after its last row; then the client runs.               *)
PurgeEnd ==
  /\ phase = "purge" /\ readPos = Len(list)
  /\ list' = SubSeq(list, 1, writePos)
  /\ phase' = "commands" /\ readPos' = 0 /\ writePos' = 0
  /\ UNCHANGED <<called, engine, exists, born, day, stuck, mark, game>>

-----------------------------------------------------------------------------
(* Recording.                                                              *)

(* Mutant: no row is written.                                              *)
NewDemoUnlisted(d) == born' = Append(born, day) /\ list' = list

NewDemo(d) == born' = Append(born, day) /\ list' = list \o Row(d)

(* Bound: as many demos as there are rows to give them.                    *)
MayRecord == g_bDemoRecording \/ Len(born) < Len(RowLength)

ResultsStartDemoRecord(q) ==
  IF g_bDemoRecording
  THEN /\ queue' = q
       /\ UNCHANGED <<g_bDemoRecording, g_bDemoRecordingFrame, born, list>>
  ELSE LET d == Len(born) + 1
       IN  /\ queue' = Append(q, <<"record", d>>)
           /\ g_bDemoRecording' = TRUE /\ g_bDemoRecordingFrame' = 0
           /\ NewDemo(d)

ResultsStop ==
  /\ log' = FALSE
  /\ queue' = IF g_bDemoRecording /\ recording # None THEN Append(queue, <<"stop">>) ELSE queue
  /\ g_bDemoRecording' = FALSE /\ g_bDemoRecordingStartIssued' = FALSE

-----------------------------------------------------------------------------
(* A frame of the engine: the commands, then the calls.                    *)

(* A demo is recorded in a game only, if the engine can and none is.       *)
Execute ==
  /\ phase = "commands" /\ queue # <<>>
  /\ LET c == Head(queue)
     IN  CASE c[1] = "record" ->
                /\ queue' = Tail(queue)
                /\ \/ /\ active /\ recording = None
                      /\ recording' = c[2]
                      /\ exists' = IF c[2] = User THEN exists ELSE exists \cup {c[2]}
                   \/ UNCHANGED <<recording, exists>>
                /\ UNCHANGED <<born, list, g_bDemoRecording, g_bDemoRecordingFrame>>
           [] c[1] = "stop" ->
                /\ queue' = Tail(queue) /\ recording' = None
                /\ UNCHANGED <<exists, born, list, g_bDemoRecording, g_bDemoRecordingFrame>>
           [] c[1] = "agrecord" ->
                /\ MayRecord /\ ResultsStartDemoRecord(Tail(queue))
                /\ UNCHANGED <<recording, exists>>
  /\ UNCHANGED <<phase, called, active, maxClients, day, stuck, purge,
                 g_bDemoRecordingStartIssued, game>>

Executed ==
  /\ phase = "commands" /\ queue = <<>>
  /\ phase' = "calls"
  /\ UNCHANGED <<called, engine, disk, purge, mark, game>>

Call(c) ==
  /\ phase = "calls" /\ c \notin called
  /\ called' = called \cup {c}
  /\ UNCHANGED <<phase, exists, day, stuck, purge>>

(* With results_demo_autorecord on or off.                                 *)
ResultsThink(autorecord) ==
  /\ Call("think") /\ active
  /\ IF g_iLastMaxClients > 1 /\ ~g_bDemoRecordingStartIssued /\ ~m_iIntermission
     THEN /\ g_bDemoRecordingStartIssued' = TRUE
          /\ IF autorecord /\ recording = None
             THEN MayRecord /\ ResultsStartDemoRecord(queue)
             ELSE UNCHANGED <<queue, g_bDemoRecording, g_bDemoRecordingFrame, born, list>>
     ELSE UNCHANGED <<queue, mark, born, list>>
  /\ UNCHANGED <<active, maxClients, recording, game>>

(* Mutant: the watchdog does not wait for the demo to start.               *)
WatchdogAtOnce ==
  /\ UNCHANGED g_bDemoRecordingFrame
  /\ g_bDemoRecording' = (g_bDemoRecording /\ recording # None)

(* Mutant: the frames are counted for ever.                                *)
WatchdogCounting ==
  /\ g_bDemoRecordingFrame' = IF g_bDemoRecording THEN g_bDemoRecordingFrame + 1
                              ELSE g_bDemoRecordingFrame
  /\ g_bDemoRecording' =
       (g_bDemoRecording /\ (g_bDemoRecordingFrame < Grace \/ recording # None))

Watchdog ==
  /\ g_bDemoRecordingFrame' = IF g_bDemoRecording /\ g_bDemoRecordingFrame < Grace
                              THEN g_bDemoRecordingFrame + 1 ELSE g_bDemoRecordingFrame
  /\ g_bDemoRecording' =
       (g_bDemoRecording /\ (g_bDemoRecordingFrame < Grace \/ recording # None))

ResultsFrame ==
  /\ Call("frame")
  /\ IF maxClients # g_iLastMaxClients
     THEN /\ g_iLastMaxClients' = maxClients
          /\ ResultsStop /\ g_bResultsStarted' = (maxClients > 1)
          /\ UNCHANGED g_bDemoRecordingFrame
     ELSE /\ Watchdog
          /\ UNCHANGED <<queue, g_iLastMaxClients, g_bResultsStarted, log,
                         g_bDemoRecordingStartIssued>>
  /\ UNCHANGED <<active, maxClients, recording, born, list, m_iIntermission>>

(* CHud::Redraw, which notices the beginning and the end of an             *)
(* intermission.                                                           *)
Redraw(intermission) ==
  /\ Call("redraw") /\ active
  /\ m_iIntermission' = intermission
  /\ IF m_iIntermission /\ ~intermission
     THEN ResultsStop /\ g_bResultsStarted' = FALSE
     ELSE UNCHANGED <<queue, g_bDemoRecording, g_bDemoRecordingStartIssued, g_bResultsStarted, log>>
  /\ UNCHANGED <<active, maxClients, recording, born, list, g_bDemoRecordingFrame,
                 g_iLastMaxClients>>

(* HUD_VidInit: the engine loads a level, of this server or another, alone *)
(* (n = 1) or not; a demo that it records goes on, or not.                 *)
VidInit(n, goesOn) ==
  /\ Call("packets")
  /\ active' = FALSE /\ maxClients' = n
  /\ ResultsStop /\ g_bResultsStarted' = FALSE
  /\ recording' = IF goesOn THEN recording ELSE None
  /\ UNCHANGED <<born, list, g_bDemoRecordingFrame, g_iLastMaxClients, m_iIntermission>>

(* ResultsAddLog, of a chat line that arrives.                             *)
ResultsAddLog ==
  /\ Call("packets") /\ active
  /\ log' = (log \/ g_bResultsStarted)
  /\ UNCHANGED <<engine, born, list, mark, g_iLastMaxClients, g_bResultsStarted, m_iIntermission>>

(* The engine has loaded the level, which takes a frame at least, so that  *)
(* ResultsFrame has been called; or it leaves the game and its demo.       *)
Activate ==
  /\ Call("packets") /\ ~active /\ queue = <<>> /\ maxClients = g_iLastMaxClients
  /\ active' = TRUE
  /\ UNCHANGED <<maxClients, recording, queue, born, list, mark, game>>

Disconnect ==
  /\ Call("packets") /\ active
  /\ active' = FALSE /\ maxClients' = 1 /\ recording' = None
  /\ UNCHANGED <<queue, born, list, mark, game>>

EndFrame ==
  /\ phase = "calls" /\ phase' = "commands" /\ called' = {}
  /\ UNCHANGED <<engine, disk, purge, mark, game>>

(* The user records demos of his own, or asks for one by agrecord.         *)
Type(c) ==
  /\ phase = "calls" /\ Len(queue) < MaxTyped
  /\ queue' = Append(queue, c)
  /\ UNCHANGED <<phase, called, active, maxClients, recording, disk, purge, mark, game>>

-----------------------------------------------------------------------------
(* The client starts, and ends or crashes.                                 *)

StartClient ==
  /\ phase = "off" /\ phase' = "purge"
  /\ UNCHANGED <<called, engine, disk, purge, mark, game>>

Quit ==
  /\ phase # "off" /\ phase' = "off" /\ called' = {}
  /\ active' = FALSE /\ maxClients' = 1 /\ recording' = None /\ queue' = <<>>
  /\ readPos' = 0 /\ writePos' = 0
  /\ g_bDemoRecording' = FALSE /\ g_bDemoRecordingFrame' = 0
  /\ g_bDemoRecordingStartIssued' = FALSE
  /\ g_iLastMaxClients' = 0 /\ g_bResultsStarted' = FALSE /\ log' = FALSE
  /\ m_iIntermission' = FALSE
  /\ UNCHANGED disk

(* The purge reads the time once: for it no day begins.                    *)
NewDay ==
  /\ phase # "purge" /\ day < LastDay /\ day' = day + 1
  /\ UNCHANGED <<phase, called, engine, exists, list, born, stuck, purge, mark, game>>

Next ==
  \/ \E removed \in BOOLEAN : PurgeRow(removed)
  \/ PurgeEnd
  \/ Execute \/ Executed \/ EndFrame
  \/ \E b \in BOOLEAN : ResultsThink(b) \/ Redraw(b)
  \/ ResultsFrame
  \/ \E n \in 1..2, goesOn \in BOOLEAN : VidInit(n, goesOn)
  \/ ResultsAddLog \/ Activate \/ Disconnect
  \/ \E c \in {<<"stop">>, <<"record", User>>, <<"agrecord">>} : Type(c)
  \/ StartClient \/ Quit \/ NewDay

Spec == Init /\ [][Next]_vars

-----------------------------------------------------------------------------
(* Phases, demos and positions; the watchdog's count stops.                *)
TypeOK ==
  /\ phase \in {"off", "purge", "commands", "calls"}
  /\ called \subseteq {"think", "frame", "redraw", "packets"}
  /\ active \in BOOLEAN /\ maxClients \in 1..2 /\ g_iLastMaxClients \in 0..2
  /\ recording \in {None, User} \cup DOMAIN born
  /\ exists \subseteq DOMAIN born /\ stuck \subseteq exists
  /\ born \in Seq(0..day) /\ Len(born) <= Len(RowLength) /\ day \in 0..LastDay
  /\ \A p \in DOMAIN list : list[p][1] \in DOMAIN born /\ list[p][2] \in 1..RowLength[list[p][1]]
  /\ 0 <= writePos /\ writePos <= readPos
  /\ g_bDemoRecording \in BOOLEAN /\ g_bDemoRecordingFrame \in 0..Grace
  /\ g_bDemoRecordingStartIssued \in BOOLEAN /\ m_iIntermission \in BOOLEAN
  /\ g_bResultsStarted \in BOOLEAN /\ log \in BOOLEAN

(* The row of d can be read: it follows the end of a line.                 *)
Listed(d) ==
  \E p \in 0..(Len(list) - RowLength[d]) :
    /\ SubSeq(list, p + 1, p + RowLength[d]) = Row(d)
    /\ p = 0 \/ LineEnd(list[p])

(* Every demo made automatically that is on the disk has its row, also     *)
(* when a crash ends a purge between any two of its steps: unless it was   *)
(* old and could not be removed, which the code forgets.                   *)
DemosListed == \A d \in exists \ stuck : Listed(d)

(* So that a purge that comes to its end leaves none of them too old.      *)
OldDemosPurged ==
  [][phase = "purge" /\ phase' = "commands" =>
       \A d \in exists' \ stuck' : day' - born'[d] <= KeepDays]_vars

(* While the engine records such a demo the client knows it for its own,   *)
(* or has asked for it to be stopped: so it will be, at the end of the     *)
(* game, whatever the order of the calls.                                  *)
AutoDemoMarked ==
  recording \in Demos => g_bDemoRecording \/ \E k \in DOMAIN queue : queue[k] = <<"stop">>
================================================================================
