----------------------------- MODULE ResultsProofs ------------------------------
(***************************************************************************)
(* Automatic demos, for any number of demos, any lengths of their rows,    *)
(* any grace of the watchdog and any order of the calls within a frame.    *)
(*                                                                         *)
(* The mark (IInv).  AutoDemoMarked is not inductive: whether a demo that  *)
(* starts is marked depends on what happened to the mark between the       *)
(* frame's call that queued the command and its execution.  The invariant  *)
(* adds that nothing takes the mark away meanwhile: the watchdog has not   *)
(* come to the end of its grace, no intermission ends after the command    *)
(* was given, and all else that stops a demo leaves the game, where no     *)
(* demo starts.                                                            *)
(*                                                                         *)
(* The list (DInv).  DemosListed is not inductive: the purge writes over   *)
(* rows, so a row must be known to be there twice, or to be read already,  *)
(* or still to come.  The invariant says where each row needed is: at the  *)
(* beginning of a line, in the part written or in the part to be read; and *)
(* that the list, what is read of it and what is written of it all end     *)
(* with the end of a line, so that a line read is either this row or ends  *)
(* before it begins.                                                       *)
(***************************************************************************)
EXTENDS Results, WellFoundedInduction, TLAPS

Command == {<<"stop">>, <<"agrecord">>} \cup {<<"record", d>> : d \in {User} \cup Demos}

Stops(q)   == \E k \in DOMAIN q : q[k] = <<"stop">>
Records(q) == \E k \in DOMAIN q : q[k][1] = "record" /\ q[k][2] \in Demos

(* A command that waits in a game finds the mark when it is executed.      *)
MarkWaits ==
  active /\ Records(queue) =>
    /\ g_bDemoRecording
    /\ phase = "calls" =>
         /\ "think" \in called
         /\ "redraw" \in called \/ ~m_iIntermission
         /\ "frame" \in called \/ g_bDemoRecordingFrame < Grace

Marked == recording \in Demos => g_bDemoRecording \/ Stops(queue)

IInv ==
  /\ queue \in Seq(Command) /\ Len(born) \in Nat
  /\ active => maxClients = g_iLastMaxClients
  /\ Marked
  /\ MarkWaits

(* The purge finds lines by their ends, so the list, what is read of it    *)
(* and what is written must end with the end of a line, also when a crash  *)
(* left the list half purged.                                              *)
Piece == Demos \X Nat

Ends(l, p) == p = 0 \/ LineEnd(l[p])

Lines(l, r, w) ==
  /\ l \in Seq(Piece)
  /\ r \in 0..Len(l) /\ w \in 0..r
  /\ Ends(l, Len(l)) /\ Ends(l, r) /\ Ends(l, w)

(* The row of d can be read after the first p pieces.                      *)
RowAt(l, d, p) ==
  /\ p + RowLength[d] <= Len(l) /\ Ends(l, p)
  /\ \A k \in 1..RowLength[d] : l[p + k] = <<d, k>>

(* Of a row needed, what was read of it has been written.                  *)
KeptRow(l, r, w, d) ==
  \E p \in 0..Len(l) : RowAt(l, d, p) /\ (p + RowLength[d] <= w \/ p >= r)

Asked(q) == {d \in Demos : \E k \in DOMAIN q : q[k] = <<"record", d>>}

RowsKept ==
  \A d \in (exists \ stuck) \cup Asked(queue) : KeptRow(list, readPos, writePos, d)

(* What a purge has written is not old.                                    *)
PurgedPart == \A p \in 1..writePos : ~Old(list[p][1])

Idle ==
  /\ phase \in {"off", "purge"} => queue = <<>>
  /\ phase # "purge" => readPos = 0 /\ writePos = 0

DInv ==
  /\ TypeOK /\ Asked(queue) \subseteq DOMAIN born
  /\ Idle
  /\ Lines(list, readPos, writePos)
  /\ RowsKept
  /\ PurgedPart

-----------------------------------------------------------------------------
(* Commands and queues.                                                    *)

LEMMA DemosAreNumbers == Demos = 1..Len(RowLength) /\ Len(RowLength) \in Nat
  BY ResultsConstantsOK DEF Demos

LEMMA AppendCommand ==
  ASSUME NEW q \in Seq(Command), NEW c \in Command
  PROVE  /\ Append(q, c) \in Seq(Command)
         /\ Stops(Append(q, c)) <=> Stops(q) \/ c = <<"stop">>
         /\ Records(Append(q, c)) <=> Records(q) \/ (c[1] = "record" /\ c[2] \in Demos)
<1> DEFINE r == Append(q, c)
<1>1. /\ r \in Seq(Command) /\ Len(q) \in Nat
      /\ DOMAIN q = 1..Len(q) /\ DOMAIN r = 1..(Len(q) + 1)
      /\ \A k \in DOMAIN q : r[k] = q[k]
      /\ r[Len(q) + 1] = c
  OBVIOUS
<1> HIDE DEF r
<1>2. Stops(r) <=> Stops(q) \/ c = <<"stop">>
  <2> DEFINE stop == <<"stop">>
  <2>1. /\ Stops(r) <=> \E k \in DOMAIN r : r[k] = stop
        /\ Stops(q) <=> \E k \in DOMAIN q : q[k] = stop
    BY DEF Stops
  <2> HIDE DEF stop
  <2>2. (\E k \in DOMAIN r : r[k] = stop) <=> (\E k \in DOMAIN q : q[k] = stop) \/ c = stop
    BY <1>1
  <2> QED BY <2>1, <2>2 DEF stop
<1>3. Records(r) <=> Records(q) \/ (c[1] = "record" /\ c[2] \in Demos)
  BY <1>1 DEF Records
<1> QED BY <1>1, <1>2, <1>3 DEF r

LEMMA TakeCommand ==
  ASSUME NEW q \in Seq(Command), q # <<>>
  PROVE  /\ Head(q) \in Command /\ Tail(q) \in Seq(Command)
         /\ Stops(q) => Head(q) = <<"stop">> \/ Stops(Tail(q))
         /\ Records(Tail(q)) => Records(q)
         /\ Head(q)[1] = "record" /\ Head(q)[2] \in Demos => Records(q)
<1> DEFINE t == Tail(q)
           h == Head(q)
<1>1. /\ t \in Seq(Command) /\ Len(q) \in Nat \ {0}
      /\ DOMAIN q = 1..Len(q) /\ DOMAIN t = 1..(Len(q) - 1)
      /\ \A k \in DOMAIN t : k + 1 \in DOMAIN q /\ t[k] = q[k + 1]
      /\ h = q[1] /\ h \in Command
  OBVIOUS
<1> HIDE DEF t, h
<1>2. Stops(q) => h = <<"stop">> \/ Stops(t)
  <2> SUFFICES ASSUME NEW k \in DOMAIN q, q[k] = <<"stop">>, k # 1 PROVE Stops(t)
    BY <1>1 DEF Stops
  <2>1. k - 1 \in DOMAIN t /\ t[k - 1] = q[k]
    BY <1>1
  <2> QED BY <2>1 DEF Stops
<1>3. Records(t) => Records(q)
  BY <1>1 DEF Records
<1>4. h[1] = "record" /\ h[2] \in Demos => Records(q)
  BY <1>1 DEF Records
<1> QED BY <1>1, <1>2, <1>3, <1>4 DEF t, h

(* A demo that the client starts is a command of the model.                *)
LEMMA NewRecord ==
  ASSUME Len(born) \in Nat, Len(born) < Len(RowLength)
  PROVE  Len(born) + 1 \in Demos /\ <<"record", Len(born) + 1>> \in Command
<1>1. Len(born) + 1 \in Demos
  BY DemosAreNumbers
<1> QED BY <1>1 DEF Command

(* Starting a demo: the mark is set, or was; else nothing is lost.         *)
LEMMA StartDemo ==
  ASSUME NEW q \in Seq(Command), Len(born) \in Nat, MayRecord, ResultsStartDemoRecord(q)
  PROVE  /\ queue' \in Seq(Command) /\ Len(born') \in Nat
         /\ g_bDemoRecording'
         /\ Stops(q) => Stops(queue')
         /\ IF g_bDemoRecording THEN queue' = q /\ UNCHANGED g_bDemoRecordingFrame
            ELSE g_bDemoRecordingFrame' = 0
<1>1. CASE g_bDemoRecording
  BY <1>1 DEF ResultsStartDemoRecord
<1>2. CASE ~g_bDemoRecording
  <2>1. /\ queue' = Append(q, <<"record", Len(born) + 1>>)
        /\ g_bDemoRecording' = TRUE /\ g_bDemoRecordingFrame' = 0
        /\ born' = Append(born, day)
    BY <1>2 DEF ResultsStartDemoRecord, NewDemo
  <2>2. <<"record", Len(born) + 1>> \in Command
    BY <1>2, NewRecord DEF MayRecord
  <2>3. Len(born') \in Nat
    BY <2>1
  <2> QED BY <1>2, <2>1, <2>2, <2>3, AppendCommand
<1> QED BY <1>1, <1>2

(* Stopping: a demo of ours that is recorded has its command to stop.      *)
LEMMA StopDemo ==
  ASSUME IInv, ResultsStop
  PROVE  /\ queue' \in Seq(Command)
         /\ recording \in Demos => Stops(queue')
         /\ Records(queue') => Records(queue)
<1>1. <<"stop">> \in Command /\ <<"stop">>[1] # "record"
  BY DEF Command
<1>2. 0 \notin Demos
  BY DemosAreNumbers
<1>3. CASE g_bDemoRecording /\ recording # None
  <2>1. queue' = Append(queue, <<"stop">>)
    BY <1>3 DEF ResultsStop
  <2> QED BY <1>1, <2>1, AppendCommand DEF IInv
<1>4. CASE ~(g_bDemoRecording /\ recording # None)
  <2>1. queue' = queue
    BY <1>4 DEF ResultsStop
  <2> QED BY <1>2, <1>4, <2>1 DEF IInv, Marked, None
<1> QED BY <1>3, <1>4

-----------------------------------------------------------------------------
(* The steps of the mark.                                                  *)

LEMMA InitIInv == Init => IInv
<1> SUFFICES ASSUME Init PROVE IInv
  OBVIOUS
<1>1. queue = <<>> /\ born = <<>> /\ ~active /\ recording = None
  BY DEF Init
<1>2. recording \notin Demos
  BY <1>1, DemosAreNumbers DEF None
<1>3. queue \in Seq(Command) /\ Len(born) \in Nat
  BY <1>1
<1> QED BY <1>1, <1>2, <1>3 DEF IInv, Marked, MarkWaits

(* The engine executes a command: no call has been made since it was given *)
(* but those of the frame before.                                          *)
LEMMA ExecuteStep == ASSUME IInv, Execute PROVE IInv'
<1> DEFINE c == Head(queue)
<1>1. /\ phase = "commands" /\ queue # <<>>
      /\ UNCHANGED <<phase, called, active, maxClients, g_iLastMaxClients, m_iIntermission>>
  BY DEF Execute, game
<1>2. /\ queue \in Seq(Command) /\ Tail(queue) \in Seq(Command)
      /\ Stops(queue) => c = <<"stop">> \/ Stops(Tail(queue))
      /\ Records(Tail(queue)) => Records(queue)
      /\ c[1] = "record" /\ c[2] \in Demos => Records(queue)
  BY <1>1, TakeCommand DEF IInv
<1>3. c[1] \in {"record", "stop", "agrecord"}
  <2>1. c \in Command
    BY <1>1, TakeCommand DEF IInv
  <2> QED BY <2>1 DEF Command
<1>4. CASE c[1] = "record"
  <2>1. /\ queue' = Tail(queue)
        /\ (active /\ recording' = c[2]) \/ recording' = recording
        /\ UNCHANGED <<born, g_bDemoRecording, g_bDemoRecordingFrame>>
    BY <1>4 DEF Execute
  <2>2. c # <<"stop">>
    BY <1>4
  <2>3. Marked'
    BY <1>2, <1>4, <2>1, <2>2 DEF IInv, Marked, MarkWaits
  <2>4. MarkWaits'
    BY <1>1, <1>2, <2>1 DEF IInv, MarkWaits
  <2> QED BY <1>1, <1>2, <2>1, <2>3, <2>4 DEF IInv
<1>5. CASE c[1] = "stop"
  <2>1. /\ queue' = Tail(queue) /\ recording' = None
        /\ UNCHANGED <<born, g_bDemoRecording, g_bDemoRecordingFrame>>
    BY <1>5 DEF Execute
  <2>2. Marked'
    BY <2>1, DemosAreNumbers DEF Marked, None
  <2>3. MarkWaits'
    BY <1>1, <1>2, <2>1 DEF IInv, MarkWaits
  <2> QED BY <1>1, <1>2, <2>1, <2>2, <2>3 DEF IInv
<1>6. CASE c[1] = "agrecord"
  <2>1. MayRecord /\ ResultsStartDemoRecord(Tail(queue)) /\ recording' = recording
    BY <1>6 DEF Execute
  <2>2. queue' \in Seq(Command) /\ Len(born') \in Nat /\ g_bDemoRecording'
    BY <1>2, <2>1, StartDemo DEF IInv
  <2>3. Marked' /\ MarkWaits'
    BY <1>1, <2>2 DEF Marked, MarkWaits
  <2> QED BY <1>1, <2>2, <2>3 DEF IInv
<1> QED BY <1>3, <1>4, <1>5, <1>6

(* The calls of a frame.                                                   *)
LEMMA ThinkStep == ASSUME IInv, NEW b \in BOOLEAN, ResultsThink(b) PROVE IInv'
<1>1. /\ phase = "calls" /\ phase' = "calls" /\ "think" \notin called /\ active
      /\ called' = called \cup {"think"}
      /\ UNCHANGED <<active, maxClients, recording, g_iLastMaxClients, m_iIntermission>>
  BY DEF ResultsThink, Call, game
<1>2. ~Records(queue)
  BY <1>1 DEF IInv, MarkWaits
<1>3. CASE /\ MayRecord /\ ResultsStartDemoRecord(queue)
           /\ ~m_iIntermission
  <2>1. /\ queue' \in Seq(Command) /\ Len(born') \in Nat /\ g_bDemoRecording'
        /\ IF g_bDemoRecording THEN queue' = queue /\ UNCHANGED g_bDemoRecordingFrame
           ELSE g_bDemoRecordingFrame' = 0
    BY <1>3, StartDemo DEF IInv
  <2>2. Marked'
    BY <2>1 DEF Marked
  <2>3. MarkWaits'
    BY <1>1, <1>2, <1>3, <2>1, ResultsConstantsOK DEF MarkWaits
  <2> QED BY <1>1, <2>1, <2>2, <2>3 DEF IInv
<1>4. CASE UNCHANGED <<queue, g_bDemoRecording, g_bDemoRecordingFrame, born>>
  <2>1. Marked' /\ MarkWaits'
    BY <1>1, <1>2, <1>4 DEF IInv, Marked, MarkWaits
  <2> QED BY <1>1, <1>4, <2>1 DEF IInv
<1> QED BY <1>3, <1>4 DEF ResultsThink, mark

LEMMA FrameStep == ASSUME IInv, ResultsFrame PROVE IInv'
<1>1. /\ phase = "calls" /\ phase' = "calls" /\ "frame" \notin called
      /\ called' = called \cup {"frame"}
      /\ UNCHANGED <<active, maxClients, recording, born, m_iIntermission>>
  BY DEF ResultsFrame, Call
<1>2. CASE maxClients # g_iLastMaxClients
  <2>1. ResultsStop /\ g_iLastMaxClients' = maxClients
    BY <1>2 DEF ResultsFrame
  <2>2. ~active
    BY <1>2 DEF IInv
  <2>3. Marked' /\ MarkWaits'
    BY <1>1, <2>1, <2>2, StopDemo DEF Marked, MarkWaits
  <2> QED BY <1>1, <2>1, <2>2, <2>3, StopDemo DEF IInv
<1>3. CASE maxClients = g_iLastMaxClients
  <2>1. Watchdog /\ UNCHANGED <<queue, g_iLastMaxClients>>
    BY <1>3 DEF ResultsFrame
  <2>2. g_bDemoRecording' <=> g_bDemoRecording /\ (g_bDemoRecordingFrame < Grace \/ recording # None)
    BY <2>1 DEF Watchdog
  <2>3. None \notin Demos
    BY DemosAreNumbers DEF None
  <2>4. Marked'
    BY <1>1, <2>1, <2>2, <2>3 DEF IInv, Marked
  <2>5. MarkWaits'
    BY <1>1, <2>1, <2>2 DEF IInv, MarkWaits
  <2> QED BY <1>1, <2>1, <2>4, <2>5 DEF IInv
<1> QED BY <1>2, <1>3

LEMMA RedrawStep == ASSUME IInv, NEW b \in BOOLEAN, Redraw(b) PROVE IInv'
<1>1. /\ phase = "calls" /\ phase' = "calls" /\ "redraw" \notin called /\ active
      /\ called' = called \cup {"redraw"}
      /\ UNCHANGED <<active, maxClients, recording, born, g_bDemoRecordingFrame,
                     g_iLastMaxClients>>
  BY DEF Redraw, Call
<1>2. CASE m_iIntermission /\ ~b
  <2>1. ResultsStop
    BY <1>2 DEF Redraw
  <2>2. ~Records(queue)
    BY <1>1, <1>2 DEF IInv, MarkWaits
  <2>3. Marked' /\ MarkWaits'
    BY <1>1, <2>1, <2>2, StopDemo DEF Marked, MarkWaits
  <2> QED BY <1>1, <2>1, <2>3, StopDemo DEF IInv
<1>3. CASE ~(m_iIntermission /\ ~b)
  <2>1. UNCHANGED <<queue, g_bDemoRecording>>
    BY <1>3 DEF Redraw
  <2>2. Marked' /\ MarkWaits'
    BY <1>1, <2>1 DEF IInv, Marked, MarkWaits
  <2> QED BY <1>1, <2>1, <2>2 DEF IInv
<1> QED BY <1>2, <1>3

LEMMA VidInitStep ==
  ASSUME IInv, NEW n \in 1..2, NEW b \in BOOLEAN, VidInit(n, b) PROVE IInv'
<1>1. /\ ResultsStop /\ ~active' /\ born' = born
      /\ recording' = recording \/ recording' = None
  BY DEF VidInit
<1>2. None \notin Demos
  BY DemosAreNumbers DEF None
<1>3. Marked' /\ MarkWaits'
  BY <1>1, <1>2, StopDemo DEF Marked, MarkWaits
<1> QED BY <1>1, <1>3, StopDemo DEF IInv

LEMMA StepIInv == IInv /\ [Next]_vars => IInv'
<1> SUFFICES ASSUME IInv, [Next]_vars PROVE IInv'
  OBVIOUS
<1> USE DEF IInv
<1>1. ASSUME NEW r \in BOOLEAN, PurgeRow(r) PROVE IInv'
  BY <1>1 DEF PurgeRow, engine, mark, game, Marked, MarkWaits
<1>2. CASE PurgeEnd
  BY <1>2 DEF PurgeEnd, engine, mark, game, Marked, MarkWaits
<1>3. CASE Execute
  BY <1>3, ExecuteStep
<1>4. CASE Executed
  <2>1. ~Records(queue)
    BY <1>4 DEF Executed, Records
  <2> QED BY <1>4, <2>1 DEF Executed, engine, disk, mark, game, Marked, MarkWaits
<1>5. CASE EndFrame
  BY <1>5 DEF EndFrame, engine, disk, mark, game, Marked, MarkWaits
<1>6. ASSUME NEW b \in BOOLEAN, ResultsThink(b) \/ Redraw(b) PROVE IInv'
  BY <1>6, ThinkStep, RedrawStep
<1>7. CASE ResultsFrame
  BY <1>7, FrameStep
<1>8. ASSUME NEW n \in 1..2, NEW b \in BOOLEAN, VidInit(n, b) PROVE IInv'
  BY <1>8, VidInitStep
<1>9. CASE ResultsAddLog
  BY <1>9 DEF ResultsAddLog, Call, engine, mark, Marked, MarkWaits
<1>10. CASE Activate
  <2>1. ~Records(queue)
    BY <1>10 DEF Activate, Records
  <2> QED BY <1>10, <2>1 DEF Activate, Call, mark, game, Marked, MarkWaits
<1>11. CASE Disconnect
  <2>1. recording' = None /\ None \notin Demos
    BY <1>11, DemosAreNumbers DEF Disconnect, None
  <2> QED BY <1>11, <2>1 DEF Disconnect, Call, mark, game, Marked, MarkWaits
<1>12. ASSUME NEW c \in {<<"stop">>, <<"record", User>>, <<"agrecord">>}, Type(c) PROVE IInv'
  <2>1. c \in Command /\ ~(c[1] = "record" /\ c[2] \in Demos)
    BY DemosAreNumbers DEF Command, User
  <2>2. /\ queue' \in Seq(Command)
        /\ Stops(queue) => Stops(queue')
        /\ Records(queue') => Records(queue)
    BY <1>12, <2>1, AppendCommand DEF Type
  <2>3. UNCHANGED <<phase, called, active, maxClients, recording, disk, mark, game>>
    BY <1>12 DEF Type
  <2>4. Marked'
    BY <2>2, <2>3 DEF mark, Marked
  <2>5. MarkWaits'
    BY <2>2, <2>3 DEF mark, game, MarkWaits
  <2> QED BY <2>2, <2>3, <2>4, <2>5 DEF disk, game
<1>13. CASE StartClient
  BY <1>13 DEF StartClient, engine, disk, mark, game, Marked, MarkWaits
<1>14. CASE Quit
  <2>1. recording' = None /\ None \notin Demos
    BY <1>14, DemosAreNumbers DEF Quit, None
  <2>2. queue' = <<>> /\ ~active' /\ born' = born
    BY <1>14 DEF Quit, disk
  <2> QED BY <2>1, <2>2 DEF Marked, MarkWaits
<1>15. CASE NewDay
  BY <1>15 DEF NewDay, engine, mark, game, Marked, MarkWaits
<1>16. CASE UNCHANGED vars
  BY <1>16 DEF vars, engine, disk, mark, game, Marked, MarkWaits
<1> QED BY <1>1, <1>2, <1>3, <1>4, <1>5, <1>6, <1>7, <1>8, <1>9, <1>10, <1>11, <1>12,
           <1>13, <1>14, <1>15, <1>16 DEF Next

(* A demo that the client records by itself is known as its own, or about  *)
(* to be stopped: whatever the user types, whichever order the calls of a  *)
(* frame come in, and whenever the game is left.                           *)
THEOREM AutoDemosAreMarked == Spec => []AutoDemoMarked
<1>1. IInv => AutoDemoMarked
  BY DEF IInv, Marked, AutoDemoMarked, Stops
<1> QED BY <1>1, InitIInv, StepIInv, PTL DEF Spec

-----------------------------------------------------------------------------
(* Lines and rows.                                                         *)

(* A set of natural numbers that is not empty has a least member.          *)
LEMMA Least ==
  ASSUME NEW S, S \subseteq Nat, S # {}
  PROVE  \E x \in S : \A y \in S : x <= y
<1> DEFINE R == {ss \in Nat \X Nat : ss[1] < ss[2]}
<1>1. IsWellFoundedOn(R, Nat)
  BY NatLessThanWellFounded, Zenon DEF OpToRel
<1>2. \A x, y \in Nat : y < x => <<y, x>> \in R
  BY SMT
<1> HIDE DEF R
<1>3. PICK x \in S : \A y \in S : ~(<<y, x>> \in R)
  BY <1>1, WFMin, Zenon
<1>4. \A y \in S : ~(y < x)
  BY <1>2, <1>3, Zenon
<1>5. \A y \in S : x <= y
  BY <1>4
<1> QED BY <1>5

LEMMA RowFacts ==
  ASSUME NEW d \in Demos
  PROVE  /\ RowLength[d] \in Nat \ {0}
         /\ Row(d) \in Seq(Piece) /\ Len(Row(d)) = RowLength[d]
         /\ \A k \in 1..RowLength[d] : Row(d)[k] = <<d, k>>
<1>1. RowLength[d] \in Nat \ {0}
  BY ResultsConstantsOK DEF Demos
<1>2. \A k \in 1..RowLength[d] : <<d, k>> \in Piece
  BY <1>1 DEF Piece
<1>3. Row(d) \in Seq(Piece) /\ Len(Row(d)) = RowLength[d]
  <2> DEFINE n == RowLength[d]
             r == [k \in 1..n |-> <<d, k>>]
  <2>1. n \in Nat /\ r \in [1..n -> Piece]
    BY <1>1, <1>2
  <2> HIDE DEF n, r
  <2>2. r \in Seq(Piece) /\ Len(r) = n
    BY <2>1
  <2> QED BY <2>2 DEF n, r, Row
<1> QED BY <1>1, <1>3 DEF Row

(* What is read is a line: it ends at the first end after readPos.         *)
LEMMA LineFacts ==
  ASSUME Lines(list, readPos, writePos), readPos < Len(list)
  PROVE  /\ Line \in Seq(Piece)
         /\ Len(Line) \in 1..(Len(list) - readPos)
         /\ LineEnd(list[readPos + Len(Line)])
         /\ \A p \in (readPos + 1)..(readPos + Len(Line) - 1) : ~LineEnd(list[p])
         /\ \A k \in 1..Len(Line) : Line[k] = list[readPos + k]
<1> DEFINE ends == {p \in (readPos + 1)..Len(list) : LineEnd(list[p])}
           e    == CHOOSE p \in ends : \A q \in ends : p <= q
<1>1. list \in Seq(Piece) /\ readPos \in Nat /\ Len(list) \in Nat
  BY DEF Lines
<1>2. Len(list) \in ends
  BY <1>1 DEF Lines, Ends
<1>3. e \in ends /\ \A q \in ends : e <= q
  <2>1. ends \subseteq Nat /\ ends # {}
    BY <1>1, <1>2
  <2> HIDE DEF ends
  <2> QED BY <2>1, Least
<1>4. Line = SubSeq(list, readPos + 1, e)
  BY DEF Line
<1>5. /\ e \in (readPos + 1)..Len(list) /\ LineEnd(list[e])
      /\ \A p \in (readPos + 1)..(e - 1) : ~LineEnd(list[p])
  BY <1>1, <1>3, SMTT(60)
<1> HIDE DEF e
<1>6. /\ Line \in Seq(Piece) /\ Len(Line) = e - readPos
      /\ \A k \in 1..Len(Line) : Line[k] = list[readPos + k]
  BY <1>1, <1>4, <1>5
<1> QED BY <1>1, <1>5, <1>6

(* A row at readPos is the line, so another row still to be read is after  *)
(* it.                                                                     *)
LEMMA RowIsLine ==
  ASSUME Lines(list, readPos, writePos), readPos < Len(list),
         NEW d \in Demos, RowAt(list, d, readPos)
  PROVE  Line = Row(d)
<1>1. /\ list \in Seq(Piece) /\ readPos \in Nat /\ Len(list) \in Nat
      /\ RowLength[d] \in Nat \ {0}
  BY RowFacts DEF Lines
<1>2. \A k \in 1..RowLength[d] : LineEnd(list[readPos + k]) <=> k = RowLength[d]
  BY DEF RowAt, LineEnd
<1>3. Len(Line) = RowLength[d]
  <2>1. Len(Line) \in Nat \ {0} /\ LineEnd(list[readPos + Len(Line)])
    BY <1>1, LineFacts
  <2>2. ~(Len(Line) < RowLength[d])
    BY <1>1, <1>2, <2>1
  <2>3. ~(RowLength[d] < Len(Line))
    <3>1. LineEnd(list[readPos + RowLength[d]])
      BY <1>1, <1>2
    <3>2. readPos + RowLength[d] \notin (readPos + 1)..(readPos + Len(Line) - 1)
      BY <3>1, LineFacts
    <3> QED BY <1>1, <2>1, <3>2
  <2> QED BY <1>1, <2>1, <2>2, <2>3
<1>4. \A k \in 1..RowLength[d] : Line[k] = Row(d)[k]
  BY <1>3, LineFacts, RowFacts DEF RowAt
<1>5. Line \in Seq(Piece) /\ Row(d) \in Seq(Piece) /\ Len(Row(d)) = RowLength[d]
  BY LineFacts, RowFacts
<1> QED BY <1>3, <1>4, <1>5

LEMMA RowAfterLine ==
  ASSUME Lines(list, readPos, writePos), readPos < Len(list),
         NEW d \in Demos, NEW p \in Nat, RowAt(list, d, p), p >= readPos, Line # Row(d)
  PROVE  p >= readPos + Len(Line)
<1>1. readPos \in Nat /\ Len(Line) \in Nat \ {0}
  BY LineFacts DEF Lines
<1>2. p # readPos
  BY RowIsLine
<1>3. LineEnd(list[p])
  BY <1>1, <1>2 DEF RowAt, Ends
<1>4. p \notin (readPos + 1)..(readPos + Len(Line) - 1)
  BY <1>3, LineFacts
<1> QED BY <1>1, <1>2, <1>4

(* Rows differ.                                                            *)
LEMMA RowsDiffer ==
  ASSUME NEW d \in Demos, NEW c \in Demos, Row(d) = Row(c) PROVE d = c
<1>1. Row(d)[1] = <<d, 1>> /\ Row(c)[1] = <<c, 1>>
  BY RowFacts
<1> QED BY <1>1

(* A line put back does not touch what is still to be read.                *)
LEMMA PlacedBack ==
  ASSUME Lines(list, readPos, writePos), readPos < Len(list), PlaceBack(Line)
  PROVE  /\ Lines(list', readPos', writePos')
         /\ readPos' = readPos + Len(Line) /\ writePos' = writePos + Len(Line)
         /\ Len(list') = Len(list)
         /\ \A p \in 1..writePos : list'[p] = list[p]
         /\ \A k \in 1..Len(Line) : list'[writePos + k] = Line[k]
         /\ \A p \in readPos'..Len(list) : p # 0 => list'[p] = list[p]
<1> DEFINE n == Len(Line)
<1>1. /\ list \in Seq(Piece) /\ Len(list) \in Nat /\ DOMAIN list = 1..Len(list)
      /\ readPos \in 0..Len(list) /\ writePos \in 0..readPos
  BY DEF Lines
<1>2. /\ Line \in Seq(Piece) /\ n \in 1..(Len(list) - readPos)
      /\ LineEnd(list[readPos + n])
      /\ \A k \in 1..n : Line[k] = list[readPos + k]
  BY LineFacts
<1>3. readPos' = readPos + n /\ writePos' = writePos + n
  BY DEF PlaceBack
<1> HIDE DEF n
<1>4. /\ list' \in Seq(Piece) /\ Len(list') = Len(list)
      /\ \A p \in 1..writePos : list'[p] = list[p]
      /\ \A k \in 1..n : list'[writePos + k] = Line[k]
      /\ \A p \in readPos'..Len(list) : p # 0 => list'[p] = list[p]
  <2>1. CASE readPos = writePos
    <3>1. list' = list
      BY <2>1 DEF PlaceBack
    <3> QED BY <1>1, <1>2, <2>1, <3>1
  <2>2. CASE readPos # writePos
    <3>1. list' = [p \in 1..Len(list) |-> IF p \in (writePos + 1)..(writePos + n)
                                          THEN Line[p - writePos] ELSE list[p]]
      BY <1>1, <2>2 DEF PlaceBack, Overwrite, n
    <3>2. \A p \in 1..Len(list) : list'[p] \in Piece
      <4> TAKE p \in 1..Len(list)
      <4>1. CASE p \in (writePos + 1)..(writePos + n)
        <5>1. p - writePos \in 1..n /\ DOMAIN Line = 1..n
          BY <1>1, <1>2, <4>1 DEF n
        <5>2. Line[p - writePos] \in Piece
          BY <1>2, <5>1
        <5> QED BY <3>1, <4>1, <5>2
      <4>2. CASE p \notin (writePos + 1)..(writePos + n)
        BY <1>1, <3>1, <4>2
      <4> QED BY <4>1, <4>2
    <3>3. list' \in [1..Len(list) -> Piece]
      BY <3>1, <3>2
    <3>4. list' \in Seq(Piece) /\ Len(list') = Len(list)
      BY <1>1, <3>3
    <3>5. \A p \in 1..writePos : list'[p] = list[p]
      BY <1>1, <3>1
    <3>6. \A k \in 1..n : list'[writePos + k] = Line[k]
      <4> TAKE k \in 1..n
      <4>1. /\ writePos + k \in 1..Len(list) /\ writePos + k \in (writePos + 1)..(writePos + n)
            /\ (writePos + k) - writePos = k
        BY <1>1, <1>2
      <4> QED BY <3>1, <4>1
    <3>7. \A p \in readPos'..Len(list) : p # 0 => list'[p] = list[p]
      BY <1>1, <1>2, <1>3, <2>2, <3>1
    <3> QED BY <3>4, <3>5, <3>6, <3>7
  <2> QED BY <2>1, <2>2
<1>5. LineEnd(list'[writePos + n])
  <2>1. Line[n] = list[readPos + n] /\ list'[writePos + n] = Line[n]
    BY <1>2, <1>4
  <2> QED BY <1>2, <2>1
<1>6. LineEnd(list'[readPos + n]) /\ LineEnd(list'[Len(list)])
  <2>1. list'[readPos + n] = list[readPos + n] /\ list'[Len(list)] = list[Len(list)]
    BY <1>1, <1>2, <1>3, <1>4
  <2>2. LineEnd(list[Len(list)])
    BY <1>1, <1>2 DEF Lines, Ends
  <2> QED BY <1>2, <2>1, <2>2
<1>7. Lines(list', readPos', writePos')
  BY <1>1, <1>2, <1>3, <1>4, <1>5, <1>6 DEF Lines, Ends
<1> QED BY <1>3, <1>4, <1>7 DEF n

-----------------------------------------------------------------------------
(* The steps of the list.                                                  *)

LEMMA BornFacts ==
  ASSUME TypeOK
  PROVE  /\ born \in Seq(0..day) /\ Len(born) \in 0..Len(RowLength)
         /\ DOMAIN born = 1..Len(born) /\ DOMAIN born \subseteq Demos
<1>1. born \in Seq(0..day) /\ Len(born) <= Len(RowLength)
  BY DEF TypeOK
<1>2. Len(born) \in Nat /\ DOMAIN born = 1..Len(born)
  BY <1>1
<1> QED BY <1>1, <1>2, DemosAreNumbers

(* A row stays where the list does not change.                             *)
LEMMA RowStays ==
  ASSUME NEW c \in Demos, NEW p \in Nat, NEW l, NEW m, RowAt(l, c, p),
         Len(m) \in Nat, p + RowLength[c] <= Len(m),
         \A i \in p..(p + RowLength[c]) : i # 0 => m[i] = l[i]
  PROVE  RowAt(m, c, p)
<1>1. RowLength[c] \in Nat \ {0}
  BY RowFacts
<1>2. Ends(m, p)
  <2>1. p \in p..(p + RowLength[c])
    BY <1>1
  <2>2. p # 0 => m[p] = l[p]
    BY <2>1
  <2> QED BY <2>2 DEF RowAt, Ends
<1>3. ASSUME NEW k \in 1..RowLength[c] PROVE m[p + k] = <<c, k>>
  <2>1. p + k \in p..(p + RowLength[c]) /\ p + k # 0
    BY <1>1
  <2>2. l[p + k] = <<c, k>>
    BY DEF RowAt
  <2> QED BY <2>1, <2>2
<1> QED BY <1>2, <1>3 DEF RowAt

(* A turn of the purge keeps the rows needed, and writes what is not old.  *)
LEMMA PurgeRowList ==
  ASSUME DInv, NEW b \in BOOLEAN, PurgeRow(b)
  PROVE  /\ Lines(list', readPos', writePos')
         /\ \A d \in exists' \ stuck' : KeptRow(list', readPos', writePos', d)
         /\ \A p \in 1..writePos' : ~Old(list'[p][1])
         /\ \A p \in DOMAIN list' : \E q \in DOMAIN list : list'[p] = list[q]
         /\ stuck' \subseteq exists' /\ exists' \subseteq exists
<1> DEFINE d == list[readPos + 1][1]
           n == Len(Line)
           valid == Line = Row(d)
<1>1. /\ readPos < Len(list) /\ Lines(list, readPos, writePos)
      /\ list \in Seq(Piece) /\ Len(list) \in Nat /\ DOMAIN list = 1..Len(list)
      /\ readPos \in 0..Len(list) /\ writePos \in 0..readPos
  BY DEF PurgeRow, DInv, Lines
<1>2. /\ Line \in Seq(Piece) /\ n \in 1..(Len(list) - readPos)
      /\ LineEnd(list[readPos + n])
      /\ \A k \in 1..n : Line[k] = list[readPos + k]
  BY <1>1, LineFacts
<1>3. d \in DOMAIN born /\ d \in Demos
  <2>1. readPos + 1 \in DOMAIN list
    BY <1>1
  <2>2. TypeOK
    BY DEF DInv
  <2>3. d \in DOMAIN born
    BY <2>1, <2>2 DEF TypeOK
  <2> QED BY <2>2, <2>3, BornFacts
<1>4. \A c \in exists : c \in Demos
  BY BornFacts DEF DInv, TypeOK
<1>5. \A c \in exists \ stuck : KeptRow(list, readPos, writePos, c)
  BY DEF DInv, RowsKept
<1>6. CASE valid /\ ~Old(d)
  <2>1. PlaceBack(Line) /\ UNCHANGED <<exists, stuck>>
    BY <1>6 DEF PurgeRow
  <2>2. /\ Lines(list', readPos', writePos')
        /\ readPos' = readPos + n /\ writePos' = writePos + n
        /\ Len(list') = Len(list)
        /\ \A p \in 1..writePos : list'[p] = list[p]
        /\ \A k \in 1..n : list'[writePos + k] = Line[k]
        /\ \A p \in readPos'..Len(list) : p # 0 => list'[p] = list[p]
    BY <1>1, <2>1, PlacedBack
  <2>3. n = RowLength[d] /\ \A k \in 1..n : Line[k] = <<d, k>>
    BY <1>3, <1>6, RowFacts
  <2> HIDE DEF n, d
  <2>4. ASSUME NEW c \in exists \ stuck PROVE KeptRow(list', readPos', writePos', c)
    <3>1. c \in Demos /\ RowLength[c] \in Nat \ {0}
      BY <1>4, RowFacts
    <3>2. PICK p \in 0..Len(list) :
            RowAt(list, c, p) /\ (p + RowLength[c] <= writePos \/ p >= readPos)
      BY <1>5 DEF KeptRow
    <3>3. CASE p + RowLength[c] <= writePos
      <4>1. \A i \in p..(p + RowLength[c]) : i # 0 => list'[i] = list[i]
        BY <1>1, <2>2, <3>1, <3>3
      <4>2. RowAt(list', c, p)
        BY <1>1, <2>2, <3>1, <3>2, <3>3, <4>1, RowStays
      <4> QED BY <1>1, <1>2, <2>2, <3>1, <3>3, <4>2 DEF KeptRow
    <3>4. CASE p >= readPos /\ Line # Row(c)
      <4>1. p >= readPos + n
        BY <1>1, <3>1, <3>2, <3>4, RowAfterLine DEF n
      <4>2. p + RowLength[c] <= Len(list)
        BY <3>2 DEF RowAt
      <4>3. \A i \in p..(p + RowLength[c]) : i \in readPos'..Len(list)
        BY <1>1, <1>2, <2>2, <3>1, <4>1, <4>2, SMTT(60)
      <4>4. RowAt(list', c, p)
        BY <1>1, <2>2, <3>1, <3>2, <4>2, <4>3, RowStays
      <4> QED BY <2>2, <4>1, <4>4 DEF KeptRow
    <3>5. CASE Line = Row(c)
      <4>1. c = d
        BY <1>3, <1>6, <3>1, <3>5, RowsDiffer
      <4>2. Ends(list', writePos)
        BY <1>1, <2>2 DEF Lines, Ends
      <4>3. writePos + n <= Len(list)
        BY <1>1, <1>2
      <4>4. RowAt(list', c, writePos)
        BY <2>2, <2>3, <4>1, <4>2, <4>3 DEF RowAt
      <4>5. writePos \in 0..Len(list)
        BY <1>1
      <4>6. writePos + RowLength[c] <= writePos'
        BY <1>1, <1>2, <2>2, <2>3, <4>1
      <4> QED BY <2>2, <4>4, <4>5, <4>6 DEF KeptRow
    <3> QED BY <3>2, <3>3, <3>4, <3>5
  <2>5. ASSUME NEW p \in 1..writePos' PROVE ~Old(list'[p][1])
    <3>1. CASE p \in 1..writePos
      BY <2>2, <3>1 DEF DInv, PurgedPart
    <3>2. CASE p \notin 1..writePos
      <4>1. p - writePos \in 1..n
        BY <1>1, <1>2, <2>2, <3>2
      <4>2. list'[writePos + (p - writePos)] = <<d, p - writePos>>
        BY <2>2, <2>3, <4>1
      <4>3. list'[p][1] = d
        BY <1>1, <4>2
      <4> QED BY <1>6, <4>3
    <3> QED BY <3>1, <3>2
  <2>6. ASSUME NEW p \in DOMAIN list' PROVE \E q \in DOMAIN list : list'[p] = list[q]
    <3>1. p \in 1..Len(list)
      BY <2>2 DEF Lines
    <3>2. CASE p \in (writePos + 1)..(writePos + n)
      <4>1. p - writePos \in 1..n /\ writePos + (p - writePos) = p
        BY <1>1, <1>2, <3>1, <3>2
      <4>2. list'[p] = list[readPos + (p - writePos)]
        BY <1>2, <2>2, <4>1
      <4>3. readPos + (p - writePos) \in DOMAIN list
        BY <1>1, <1>2, <4>1
      <4> QED BY <4>2, <4>3
    <3>3. CASE p \in 1..writePos \/ p >= readPos'
      BY <1>1, <1>2, <2>2, <3>1, <3>3
    <3>4. CASE p > writePos + n /\ p < readPos'
      <4>1. readPos # writePos
        BY <1>1, <1>2, <2>2, <3>4
      <4>2. list' = Overwrite(writePos, Line)
        BY <2>1, <4>1 DEF PlaceBack
      <4>3. list'[p] = list[p]
        BY <1>1, <1>2, <3>1, <3>4, <4>2 DEF Overwrite, n
      <4> QED BY <1>1, <3>1, <4>3
    <3> QED BY <1>1, <1>2, <2>2, <3>1, <3>2, <3>3, <3>4
  <2>7. stuck \subseteq exists
    BY DEF DInv, TypeOK
  <2> QED BY <2>1, <2>2, <2>4, <2>5, <2>6, <2>7
<1>7. CASE ~(valid /\ ~Old(d))
  <2>1. /\ readPos' = readPos + n /\ UNCHANGED <<list, writePos, day, born>>
        /\ exists' = IF valid /\ b THEN exists \ {d} ELSE exists
        /\ stuck' = IF valid /\ d \in exists
                    THEN IF b THEN stuck \ {d} ELSE stuck \cup {d} ELSE stuck
    BY <1>7 DEF PurgeRow
  <2> HIDE DEF n, d
  <2>2. Lines(list', readPos', writePos')
    BY <1>1, <1>2, <2>1 DEF Lines, Ends
  <2>3. ASSUME NEW c \in exists' \ stuck' PROVE KeptRow(list', readPos', writePos', c)
    <3>1. c \in exists \ stuck /\ (valid => c # d)
      BY <2>1
    <3>2. c \in Demos /\ RowLength[c] \in Nat \ {0}
      BY <1>4, <3>1, RowFacts
    <3>3. Line # Row(c)
      <4> SUFFICES ASSUME Line = Row(c) PROVE FALSE
        OBVIOUS
      <4>1. Line[1] = <<c, 1>>
        BY <3>2, RowFacts
      <4>2. Line[1] = list[readPos + 1]
        BY <1>2
      <4>3. c = d
        BY <4>1, <4>2 DEF d
      <4> QED BY <3>1, <4>3
    <3>4. PICK p \in 0..Len(list) :
            RowAt(list, c, p) /\ (p + RowLength[c] <= writePos \/ p >= readPos)
      BY <1>5, <3>1 DEF KeptRow
    <3>5. CASE p + RowLength[c] <= writePos
      BY <2>1, <3>4, <3>5 DEF KeptRow
    <3>6. CASE p >= readPos
      <4>1. p >= readPos + n
        BY <1>1, <3>2, <3>3, <3>4, <3>6, RowAfterLine DEF n
      <4> QED BY <2>1, <3>4, <4>1 DEF KeptRow
    <3> QED BY <3>4, <3>5, <3>6
  <2>4. stuck' \subseteq exists' /\ exists' \subseteq exists
    BY <2>1 DEF DInv, TypeOK
  <2>5. \A p \in 1..writePos' : ~Old(list'[p][1])
    BY <2>1 DEF DInv, PurgedPart
  <2> QED BY <2>1, <2>2, <2>3, <2>4, <2>5
<1> QED BY <1>6, <1>7

(* The demos that the queue asks the engine for.                           *)
LEMMA AskedFacts ==
  ASSUME NEW q \in Seq(Command)
  PROVE  /\ Asked(q) \subseteq Demos
         /\ q = <<>> => Asked(q) = {}
         /\ \A c \in Command : \A d \in Asked(Append(q, c)) : d \in Asked(q) \/ c = <<"record", d>>
         /\ q # <<>> => /\ Asked(Tail(q)) \subseteq Asked(q)
                        /\ \A d \in Demos : Head(q) = <<"record", d>> => d \in Asked(q)
<1>1. Len(q) \in Nat /\ DOMAIN q = 1..Len(q)
  OBVIOUS
<1>2. ASSUME NEW c \in Command, NEW d \in Asked(Append(q, c))
      PROVE  d \in Asked(q) \/ c = <<"record", d>>
  <2> DEFINE r == Append(q, c)
  <2>1. /\ DOMAIN r = 1..(Len(q) + 1) /\ r[Len(q) + 1] = c
        /\ \A k \in DOMAIN q : r[k] = q[k]
    BY <1>1
  <2> HIDE DEF r
  <2>2. PICK k \in DOMAIN r : r[k] = <<"record", d>>
    BY <1>2 DEF Asked, r
  <2>3. d \in Demos
    BY <1>2 DEF Asked
  <2>4. CASE k = Len(q) + 1
    BY <2>1, <2>2, <2>4
  <2>5. CASE k # Len(q) + 1
    <3>1. k \in DOMAIN q
      BY <1>1, <2>1, <2>5
    <3> QED BY <2>1, <2>2, <2>3, <3>1 DEF Asked
  <2> QED BY <2>4, <2>5
<1>3. ASSUME q # <<>> PROVE Asked(Tail(q)) \subseteq Asked(q)
  <2> DEFINE t == Tail(q)
  <2>1. \A k \in DOMAIN t : k + 1 \in DOMAIN q /\ t[k] = q[k + 1]
    BY <1>3
  <2> HIDE DEF t
  <2>2. Asked(t) \subseteq Asked(q)
    BY <2>1 DEF Asked
  <2> QED BY <2>2 DEF t
<1>4. ASSUME q # <<>>, NEW d \in Demos, Head(q) = <<"record", d>> PROVE d \in Asked(q)
  <2>1. 1 \in DOMAIN q /\ Head(q) = q[1]
    BY <1>1, <1>4
  <2> QED BY <1>4, <2>1 DEF Asked
<1>5. q = <<>> => Asked(q) = {}
  BY <1>1 DEF Asked
<1> QED BY <1>2, <1>3, <1>4, <1>5 DEF Asked

(* Most steps leave the disk as it is, and need no more of it.             *)
LEMMA SameDisk ==
  ASSUME DInv, UNCHANGED <<list, readPos, writePos, born, day>>,
         (exists' \ stuck') \cup Asked(queue') \subseteq (exists \ stuck) \cup Asked(queue)
  PROVE  Lines(list', readPos', writePos') /\ RowsKept' /\ PurgedPart'
<1>1. RowsKept'
  BY DEF DInv, RowsKept
<1>2. PurgedPart'
  BY DEF DInv, PurgedPart, Old
<1> QED BY <1>1, <1>2 DEF DInv

(* A new demo has the next number, and its row follows the last.           *)
LEMMA NewDemoList ==
  ASSUME DInv, Len(born) < Len(RowLength), NewDemo(Len(born) + 1), phase # "purge",
         UNCHANGED <<day, readPos, writePos>>
  PROVE  /\ Lines(list', readPos', writePos') /\ PurgedPart'
         /\ born' \in Seq(0..day) /\ Len(born') <= Len(RowLength)
         /\ DOMAIN born' = DOMAIN born \cup {Len(born) + 1}
         /\ \A p \in DOMAIN list' : /\ list'[p][1] \in DOMAIN born'
                                    /\ list'[p][2] \in 1..RowLength[list'[p][1]]
         /\ \A c \in Demos : KeptRow(list, readPos, writePos, c) \/ c = Len(born) + 1
                               => KeptRow(list', readPos', writePos', c)
<1> DEFINE d == Len(born) + 1
           n == RowLength[d]
<1>1. /\ born \in Seq(0..day) /\ Len(born) \in Nat /\ DOMAIN born = 1..Len(born) /\ day \in Nat
  BY BornFacts DEF DInv, TypeOK
<1>2. d \in Demos /\ n \in Nat \ {0}
  BY <1>1, NewRecord, RowFacts
<1>3. /\ born' \in Seq(0..day) /\ Len(born') <= Len(RowLength)
      /\ DOMAIN born' = DOMAIN born \cup {d}
  <2>1. born' = Append(born, day)
    BY DEF NewDemo
  <2>2. born' \in Seq(0..day) /\ Len(born') = d /\ DOMAIN born' = 1..d
    BY <1>1, <2>1
  <2> QED BY <1>1, <2>2, DemosAreNumbers
<1>4. readPos = 0 /\ writePos = 0 /\ readPos' = 0 /\ writePos' = 0
  BY DEF DInv, Idle
<1>5. list \in Seq(Piece) /\ Len(list) \in Nat /\ DOMAIN list = 1..Len(list)
  BY DEF DInv, Lines
<1>6. /\ list' \in Seq(Piece) /\ Len(list') = Len(list) + n
      /\ \A p \in 1..Len(list) : list'[p] = list[p]
      /\ \A k \in 1..n : list'[Len(list) + k] = <<d, k>>
  <2> DEFINE r == Row(d)
  <2>1. r \in Seq(Piece) /\ Len(r) = n /\ \A k \in 1..n : r[k] = <<d, k>>
    BY <1>2, RowFacts
  <2>2. list' = list \o r
    BY DEF NewDemo
  <2> HIDE DEF r, n, d
  <2>3. list' \in Seq(Piece) /\ Len(list') = Len(list) + n
    <3>1. list' \in Seq(Piece)
      BY <1>5, <2>1, <2>2
    <3>2. \A a, b \in Seq(Piece) : Len(a \o b) = Len(a) + Len(b)
      OBVIOUS
    <3>3. Len(list') = Len(list) + Len(r)
      BY <1>5, <2>1, <2>2, <3>2
    <3> QED BY <2>1, <3>1, <3>3
  <2>4. \A p \in 1..Len(list) : list'[p] = list[p]
    BY <1>5, <2>1, <2>2
  <2>5. ASSUME NEW k \in 1..n PROVE list'[Len(list) + k] = r[k]
    BY <1>2, <1>5, <2>1, <2>2
  <2> QED BY <2>1, <2>3, <2>4, <2>5
<1> HIDE DEF n
<1>7. Ends(list', Len(list))
  <2>1. Ends(list, Len(list))
    BY DEF DInv, Lines
  <2>2. Len(list) # 0 => list'[Len(list)] = list[Len(list)]
    BY <1>5, <1>6
  <2> QED BY <2>1, <2>2 DEF Ends
<1>8. Lines(list', readPos', writePos')
  <2>1. list'[Len(list')] = <<d, n>>
    <3>1. n \in 1..n /\ Len(list') = Len(list) + n
      BY <1>2, <1>6
    <3> QED BY <1>6, <3>1
  <2>2. LineEnd(list'[Len(list')])
    BY <2>1 DEF LineEnd, n
  <2> QED BY <1>2, <1>4, <1>5, <1>6, <2>2 DEF Lines, Ends
<1>9. ASSUME NEW p \in DOMAIN list'
      PROVE  list'[p][1] \in DOMAIN born' /\ list'[p][2] \in 1..RowLength[list'[p][1]]
  <2>1. p \in 1..(Len(list) + n)
    BY <1>6, <1>5, <1>2
  <2>2. CASE p \in 1..Len(list)
    <3>1. list[p][1] \in DOMAIN born /\ list[p][2] \in 1..RowLength[list[p][1]]
      BY <1>5, <2>2 DEF DInv, TypeOK
    <3> QED BY <1>3, <1>6, <2>2, <3>1
  <2>3. CASE p \notin 1..Len(list)
    <3>1. p - Len(list) \in 1..n /\ Len(list) + (p - Len(list)) = p
      BY <1>2, <1>5, <2>1, <2>3
    <3>2. list'[p] = <<d, p - Len(list)>>
      BY <1>6, <3>1
    <3> QED BY <1>3, <3>1, <3>2 DEF n
  <2> QED BY <2>2, <2>3
<1>10. PurgedPart'
  BY <1>4 DEF PurgedPart
<1>11. ASSUME NEW c \in Demos, KeptRow(list, readPos, writePos, c)
       PROVE  KeptRow(list', readPos', writePos', c)
  <2>1. PICK p \in 0..Len(list) : RowAt(list, c, p)
    BY <1>11 DEF KeptRow
  <2>2. p + RowLength[c] <= Len(list) /\ RowLength[c] \in Nat \ {0}
    BY <2>1, RowFacts DEF RowAt
  <2>3. p + RowLength[c] <= Len(list') /\ p \in Nat /\ Len(list') \in Nat
    BY <1>2, <1>5, <1>6, <2>2
  <2>4. \A i \in p..(p + RowLength[c]) : i # 0 => list'[i] = list[i]
    BY <1>5, <1>6, <2>2
  <2>5. RowAt(list', c, p)
    BY <2>1, <2>3, <2>4, RowStays
  <2> QED BY <1>2, <1>4, <1>5, <1>6, <2>5 DEF KeptRow
<1>12. KeptRow(list', readPos', writePos', d)
  <2>1. RowAt(list', d, Len(list))
    BY <1>2, <1>5, <1>6, <1>7 DEF RowAt, n
  <2>2. Len(list) \in 0..Len(list') /\ Len(list) >= readPos'
    BY <1>2, <1>4, <1>5, <1>6
  <2> QED BY <2>1, <2>2 DEF KeptRow
<1> QED BY <1>3, <1>8, <1>9, <1>10, <1>11, <1>12

(* Starting a demo, if one may be made.                                    *)
LEMMA StartDemoList ==
  ASSUME DInv, IInv, NEW q \in Seq(Command), Asked(q) \subseteq Asked(queue),
         MayRecord, ResultsStartDemoRecord(q), phase \notin {"off", "purge"},
         UNCHANGED <<phase, active, maxClients, g_iLastMaxClients, exists, day, stuck, purge,
                     m_iIntermission, g_bResultsStarted, log>>,
         called' \subseteq {"think", "frame", "redraw", "packets"},
         g_bDemoRecordingStartIssued' \in BOOLEAN,
         recording' = recording
  PROVE  DInv'
<1>1. TypeOK /\ Asked(queue) \subseteq DOMAIN born
  BY DEF DInv
<1>2. CASE g_bDemoRecording
  <2>1. queue' = q /\ UNCHANGED <<g_bDemoRecording, g_bDemoRecordingFrame, born, list>>
    BY <1>2 DEF ResultsStartDemoRecord
  <2>2. Lines(list', readPos', writePos') /\ RowsKept' /\ PurgedPart'
    BY <2>1, SameDisk DEF purge
  <2>3. TypeOK' /\ Asked(queue') \subseteq DOMAIN born'
    BY <1>1, <2>1 DEF TypeOK, purge
  <2> QED BY <2>2, <2>3 DEF DInv, Idle, purge
<1>3. CASE ~g_bDemoRecording
  <2> DEFINE d == Len(born) + 1
  <2>1. /\ queue' = Append(q, <<"record", d>>)
        /\ g_bDemoRecording' = TRUE /\ g_bDemoRecordingFrame' = 0
        /\ NewDemo(d)
    BY <1>3 DEF ResultsStartDemoRecord
  <2>2. Len(born) < Len(RowLength)
    BY <1>3 DEF MayRecord
  <2>3. d \in Demos /\ <<"record", d>> \in Command
    BY <2>2, NewRecord DEF IInv
  <2>4. /\ Lines(list', readPos', writePos') /\ PurgedPart'
        /\ born' \in Seq(0..day) /\ Len(born') <= Len(RowLength)
        /\ DOMAIN born' = DOMAIN born \cup {d}
        /\ \A p \in DOMAIN list' : /\ list'[p][1] \in DOMAIN born'
                                   /\ list'[p][2] \in 1..RowLength[list'[p][1]]
        /\ \A c \in Demos : KeptRow(list, readPos, writePos, c) \/ c = d
                              => KeptRow(list', readPos', writePos', c)
    BY <2>1, <2>2, NewDemoList DEF purge
  <2> HIDE DEF d
  <2>5. Asked(queue') \subseteq Asked(queue) \cup {d}
    <3>1. ASSUME NEW c \in Asked(queue') PROVE c \in Asked(queue) \cup {d}
      <4>1. c \in Asked(q) \/ <<"record", d>> = <<"record", c>>
        BY <2>1, <2>3, AskedFacts
      <4> QED BY <4>1
    <3> QED BY <3>1
  <2>6. RowsKept'
    <3>1. \A c \in exists : c \in Demos
      BY <1>1, BornFacts DEF TypeOK
    <3>2. Asked(queue) \subseteq Demos
      BY DEF Asked
    <3> QED BY <2>3, <2>4, <2>5, <3>1, <3>2 DEF DInv, RowsKept
  <2>7. TypeOK'
    <3>1. /\ exists' \subseteq DOMAIN born' /\ stuck' \subseteq exists'
          /\ recording' \in {None, User} \cup DOMAIN born'
      BY <1>1, <2>4 DEF TypeOK
    <3>2. /\ g_bDemoRecording' \in BOOLEAN /\ g_bDemoRecordingStartIssued' \in BOOLEAN
          /\ g_bDemoRecordingFrame' \in 0..Grace
      BY <2>1, ResultsConstantsOK
    <3> QED BY <1>1, <2>4, <3>1, <3>2 DEF TypeOK, purge
  <2>8. Asked(queue') \subseteq DOMAIN born'
    BY <1>1, <2>4, <2>5
  <2> QED BY <2>4, <2>6, <2>7, <2>8 DEF DInv, Idle, purge
<1> QED BY <1>2, <1>3

(* Stopping asks for no demo.                                              *)
LEMMA StopAsksNone ==
  ASSUME IInv, ResultsStop PROVE Asked(queue') \subseteq Asked(queue)
<1>1. <<"stop">> \in Command /\ \A d : <<"stop">> # <<"record", d>>
  BY DEF Command
<1>2. queue' = queue \/ queue' = Append(queue, <<"stop">>)
  BY DEF ResultsStop
<1> QED BY <1>1, <1>2, AskedFacts DEF IInv

LEMMA PurgeStepsD ==
  ASSUME DInv, IInv, (\E b \in BOOLEAN : PurgeRow(b)) \/ PurgeEnd PROVE DInv'
<1>1. TypeOK /\ Asked(queue) \subseteq DOMAIN born /\ phase = "purge" /\ queue = <<>>
  BY DEF DInv, Idle, PurgeRow, PurgeEnd
<1>2. Asked(queue) = {}
  BY <1>1, AskedFacts DEF IInv
<1>3. ASSUME NEW b \in BOOLEAN, PurgeRow(b) PROVE DInv'
  <2>1. /\ Lines(list', readPos', writePos')
        /\ \A d \in exists' \ stuck' : KeptRow(list', readPos', writePos', d)
        /\ \A p \in 1..writePos' : ~Old(list'[p][1])
        /\ \A p \in DOMAIN list' : \E q \in DOMAIN list : list'[p] = list[q]
        /\ stuck' \subseteq exists' /\ exists' \subseteq exists
    BY <1>3, PurgeRowList
  <2>2. UNCHANGED <<phase, called, engine, born, day, mark, game>>
    BY <1>3 DEF PurgeRow
  <2>3. RowsKept' /\ PurgedPart'
    BY <1>2, <2>1, <2>2 DEF RowsKept, PurgedPart, Old, engine
  <2>4. 0 <= writePos' /\ writePos' <= readPos'
    BY <2>1 DEF Lines
  <2>5. \A p \in DOMAIN list' : /\ list'[p][1] \in DOMAIN born
                                /\ list'[p][2] \in 1..RowLength[list'[p][1]]
    BY <1>1, <2>1 DEF TypeOK
  <2>6. TypeOK'
    BY <1>1, <2>1, <2>2, <2>4, <2>5 DEF TypeOK, engine, mark, game
  <2> QED BY <1>1, <2>1, <2>2, <2>3, <2>6 DEF DInv, Idle, engine
<1>4. CASE PurgeEnd
  <2>1. /\ readPos = Len(list) /\ list' = SubSeq(list, 1, writePos)
        /\ phase' = "commands" /\ readPos' = 0 /\ writePos' = 0
        /\ UNCHANGED <<called, engine, exists, born, day, stuck, mark, game>>
    BY <1>4 DEF PurgeEnd
  <2>2. /\ list \in Seq(Piece) /\ Len(list) \in Nat /\ writePos \in 0..Len(list)
        /\ Ends(list, writePos)
    BY <2>1 DEF DInv, Lines
  <2>3. /\ list' \in Seq(Piece) /\ Len(list') = writePos
        /\ \A p \in 1..writePos : list'[p] = list[p]
    BY <2>1, <2>2
  <2>4. Lines(list', readPos', writePos')
    BY <2>1, <2>2, <2>3 DEF Lines, Ends
  <2>5. ASSUME NEW d \in exists \ stuck PROVE KeptRow(list', readPos', writePos', d)
    <3>1. d \in Demos /\ RowLength[d] \in Nat \ {0}
      BY <1>1, BornFacts, RowFacts DEF TypeOK
    <3>2. PICK p \in 0..Len(list) :
            RowAt(list, d, p) /\ (p + RowLength[d] <= writePos \/ p >= readPos)
      BY DEF DInv, RowsKept, KeptRow
    <3>3. p + RowLength[d] <= writePos
      BY <2>1, <2>2, <3>1, <3>2 DEF RowAt
    <3>4. \A i \in p..(p + RowLength[d]) : i # 0 => list'[i] = list[i]
      BY <2>2, <2>3, <3>1, <3>3
    <3>5. RowAt(list', d, p)
      BY <2>2, <2>3, <3>1, <3>2, <3>3, <3>4, RowStays
    <3> QED BY <2>1, <2>2, <2>3, <3>1, <3>3, <3>5 DEF KeptRow
  <2>6. RowsKept' /\ PurgedPart'
    BY <1>2, <2>1, <2>5 DEF RowsKept, PurgedPart, engine
  <2>7. \A p \in DOMAIN list' : p \in DOMAIN list /\ list'[p] = list[p]
    BY <2>2, <2>3
  <2>8. \A p \in DOMAIN list' : /\ list'[p][1] \in DOMAIN born
                                /\ list'[p][2] \in 1..RowLength[list'[p][1]]
    BY <1>1, <2>7 DEF TypeOK
  <2>9. TypeOK'
    <3>1. /\ phase' \in {"off", "purge", "commands", "calls"}
          /\ 0 <= writePos' /\ writePos' <= readPos'
      BY <2>1
    <3> QED BY <1>1, <2>1, <2>8, <3>1 DEF TypeOK, engine, mark, game
  <2> QED BY <1>1, <2>1, <2>4, <2>6, <2>9 DEF DInv, Idle, engine
<1> QED BY <1>3, <1>4

LEMMA ExecuteD == ASSUME DInv, IInv, Execute PROVE DInv'
<1> DEFINE c == Head(queue)
<1>1. /\ phase = "commands" /\ queue # <<>>
      /\ UNCHANGED <<phase, called, active, maxClients, day, stuck, purge,
                     g_bDemoRecordingStartIssued, game>>
  BY DEF Execute
<1>2. TypeOK /\ Asked(queue) \subseteq DOMAIN born
  BY DEF DInv
<1>3. /\ c \in Command /\ Tail(queue) \in Seq(Command)
      /\ Asked(Tail(queue)) \subseteq Asked(queue)
      /\ \A d \in Demos : c = <<"record", d>> => d \in Asked(queue)
  BY <1>1, TakeCommand, AskedFacts DEF IInv
<1>4. c[1] \in {"record", "stop", "agrecord"}
  BY <1>3 DEF Command
<1>5. CASE c[1] = "record"
  <2>1. /\ queue' = Tail(queue)
        /\ \/ /\ recording' = c[2]
              /\ exists' = IF c[2] = User THEN exists ELSE exists \cup {c[2]}
           \/ UNCHANGED <<recording, exists>>
        /\ UNCHANGED <<born, list, g_bDemoRecording, g_bDemoRecordingFrame>>
    BY <1>5 DEF Execute
  <2>2. c[2] = User \/ c[2] \in Asked(queue)
    BY <1>3, <1>5 DEF Command
  <2>3. exists' \subseteq exists \cup Asked(queue) /\ stuck' \subseteq exists'
    BY <1>1, <1>2, <2>1, <2>2 DEF TypeOK
  <2>4. Lines(list', readPos', writePos') /\ RowsKept' /\ PurgedPart'
    BY <1>1, <1>3, <2>1, <2>3, SameDisk DEF purge
  <2>5. exists' \subseteq DOMAIN born' /\ recording' \in {None, User} \cup DOMAIN born'
    BY <1>2, <2>1, <2>2, <2>3 DEF TypeOK
  <2>6. TypeOK'
    BY <1>1, <1>2, <2>1, <2>3, <2>5 DEF TypeOK, purge, game
  <2> QED BY <1>1, <1>2, <1>3, <2>1, <2>4, <2>6 DEF DInv, Idle, purge
<1>6. CASE c[1] = "stop"
  <2>1. /\ queue' = Tail(queue) /\ recording' = None
        /\ UNCHANGED <<exists, born, list, g_bDemoRecording, g_bDemoRecordingFrame>>
    BY <1>6 DEF Execute
  <2>2. Lines(list', readPos', writePos') /\ RowsKept' /\ PurgedPart'
    BY <1>1, <1>3, <2>1, SameDisk DEF purge
  <2>3. TypeOK'
    BY <1>1, <1>2, <2>1 DEF TypeOK, purge, game
  <2> QED BY <1>1, <1>2, <1>3, <2>1, <2>2, <2>3 DEF DInv, Idle, purge
<1>7. CASE c[1] = "agrecord"
  <2>1. /\ MayRecord /\ ResultsStartDemoRecord(Tail(queue))
        /\ UNCHANGED <<recording, exists>>
    BY <1>7 DEF Execute
  <2>2. /\ g_bDemoRecordingStartIssued' \in BOOLEAN
        /\ called' \subseteq {"think", "frame", "redraw", "packets"}
    BY <1>1, <1>2 DEF TypeOK
  <2> QED BY <1>1, <1>3, <2>1, <2>2, StartDemoList DEF game
<1> QED BY <1>4, <1>5, <1>6, <1>7

(* The calls of a frame; what they may do to the disk is start a demo.     *)
LEMMA CallsD ==
  ASSUME DInv, IInv,
         \/ \E b \in BOOLEAN : ResultsThink(b) \/ Redraw(b)
         \/ ResultsFrame \/ ResultsAddLog \/ Activate \/ Disconnect
         \/ \E n \in 1..2, b \in BOOLEAN : VidInit(n, b)
  PROVE  DInv'
<1>1. TypeOK /\ Asked(queue) \subseteq DOMAIN born /\ queue \in Seq(Command)
  BY DEF DInv, IInv
<1>2. /\ phase = "calls" /\ UNCHANGED <<phase, exists, day, stuck, purge>>
      /\ called' \subseteq {"think", "frame", "redraw", "packets"}
  BY <1>1 DEF TypeOK, Call, ResultsThink, Redraw, ResultsFrame, ResultsAddLog, Activate,
              Disconnect, VidInit
<1>3. ASSUME UNCHANGED <<born, list>>, Asked(queue') \subseteq Asked(queue),
             TypeOK'
      PROVE  DInv'
  <2>1. Lines(list', readPos', writePos') /\ RowsKept' /\ PurgedPart'
    BY <1>2, <1>3, SameDisk DEF purge
  <2> QED BY <1>1, <1>2, <1>3, <2>1 DEF DInv, Idle, purge
<1>4. ASSUME NEW b \in BOOLEAN, ResultsThink(b) PROVE DInv'
  <2>1. UNCHANGED <<active, maxClients, recording, game>>
    BY <1>4 DEF ResultsThink
  <2>2. CASE /\ MayRecord /\ ResultsStartDemoRecord(queue)
             /\ g_bDemoRecordingStartIssued' = TRUE
    BY <1>1, <1>2, <2>1, <2>2, StartDemoList DEF game
  <2>3. CASE /\ UNCHANGED <<queue, g_bDemoRecording, g_bDemoRecordingFrame, born, list>>
             /\ g_bDemoRecordingStartIssued' \in BOOLEAN
    <3>1. TypeOK'
      BY <1>1, <1>2, <2>1, <2>3 DEF TypeOK, purge, game
    <3> QED BY <1>3, <2>3, <3>1
  <2>4. g_bDemoRecordingStartIssued \in BOOLEAN
    BY <1>1 DEF TypeOK
  <2> QED BY <1>4, <2>2, <2>3, <2>4 DEF ResultsThink, mark
<1>5. ASSUME NEW b \in BOOLEAN, Redraw(b) PROVE DInv'
  <2>1. /\ m_iIntermission' = b
        /\ UNCHANGED <<active, maxClients, recording, born, list, g_bDemoRecordingFrame,
                       g_iLastMaxClients>>
    BY <1>5 DEF Redraw
  <2>2. CASE ResultsStop /\ g_bResultsStarted' = FALSE
    <3>1. TypeOK'
      BY <1>1, <1>2, <2>1, <2>2 DEF TypeOK, ResultsStop, purge
    <3> QED BY <1>3, <2>1, <2>2, <3>1, StopAsksNone
  <2>3. CASE UNCHANGED <<queue, g_bDemoRecording, g_bDemoRecordingStartIssued,
                         g_bResultsStarted, log>>
    <3>1. TypeOK'
      BY <1>1, <1>2, <2>1, <2>3 DEF TypeOK, purge
    <3> QED BY <1>3, <2>1, <2>3, <3>1
  <2> QED BY <1>5, <2>2, <2>3 DEF Redraw
<1>6. CASE ResultsFrame
  <2>1. UNCHANGED <<active, maxClients, recording, born, list, m_iIntermission>>
    BY <1>6 DEF ResultsFrame
  <2>2. CASE /\ g_iLastMaxClients' = maxClients
             /\ ResultsStop /\ g_bResultsStarted' = (maxClients > 1)
             /\ UNCHANGED g_bDemoRecordingFrame
    <3>1. g_iLastMaxClients' \in 0..2 /\ g_bResultsStarted' \in BOOLEAN
      BY <1>1, <2>2 DEF TypeOK
    <3>2. TypeOK'
      BY <1>1, <1>2, <2>1, <2>2, <3>1 DEF TypeOK, ResultsStop, purge
    <3> QED BY <1>3, <2>1, <2>2, <3>2, StopAsksNone
  <2>3. CASE /\ Watchdog
             /\ UNCHANGED <<queue, g_iLastMaxClients, g_bResultsStarted, log,
                            g_bDemoRecordingStartIssued>>
    <3>1. g_bDemoRecordingFrame' \in 0..Grace
      BY <1>1, <2>3, ResultsConstantsOK DEF TypeOK, Watchdog
    <3>2. g_bDemoRecording' \in BOOLEAN
      BY <2>3 DEF Watchdog
    <3>3. TypeOK'
      BY <1>1, <1>2, <2>1, <2>3, <3>1, <3>2 DEF TypeOK, purge
    <3> QED BY <1>3, <2>1, <2>3, <3>3
  <2> QED BY <1>6, <2>2, <2>3 DEF ResultsFrame
<1>7. CASE ResultsAddLog
  <2>1. UNCHANGED <<engine, born, list, mark, g_iLastMaxClients, g_bResultsStarted,
                    m_iIntermission>> /\ log' \in BOOLEAN
    BY <1>7 DEF ResultsAddLog
  <2>2. TypeOK'
    BY <1>1, <1>2, <2>1 DEF TypeOK, engine, mark, purge
  <2> QED BY <1>3, <2>1, <2>2 DEF engine
<1>8. CASE Activate
  <2>1. active' = TRUE /\ UNCHANGED <<maxClients, recording, queue, born, list, mark, game>>
    BY <1>8 DEF Activate
  <2>2. TypeOK'
    BY <1>1, <1>2, <2>1 DEF TypeOK, mark, game, purge
  <2> QED BY <1>3, <2>1, <2>2
<1>9. CASE Disconnect
  <2>1. /\ active' = FALSE /\ maxClients' = 1 /\ recording' = None
        /\ UNCHANGED <<queue, born, list, mark, game>>
    BY <1>9 DEF Disconnect
  <2>2. recording' \in {None, User} \cup DOMAIN born' /\ maxClients' \in 1..2
    BY <2>1
  <2>3. TypeOK'
    BY <1>1, <1>2, <2>1, <2>2 DEF TypeOK, mark, game, purge
  <2> QED BY <1>3, <2>1, <2>3
<1>10. ASSUME NEW n \in 1..2, NEW b \in BOOLEAN, VidInit(n, b) PROVE DInv'
  <2>1. /\ active' = FALSE /\ maxClients' = n
        /\ ResultsStop /\ g_bResultsStarted' = FALSE
        /\ recording' = recording \/ recording' = None
        /\ UNCHANGED <<born, list, g_bDemoRecordingFrame, g_iLastMaxClients, m_iIntermission>>
    BY <1>10 DEF VidInit
  <2>2. TypeOK'
    BY <1>1, <1>2, <2>1 DEF TypeOK, ResultsStop, purge
  <2> QED BY <1>3, <2>1, <2>2, StopAsksNone
<1> QED BY <1>4, <1>5, <1>6, <1>7, <1>8, <1>9, <1>10

-----------------------------------------------------------------------------
LEMMA InitDInv == Init => DInv
<1> SUFFICES ASSUME Init PROVE DInv
  OBVIOUS
<1>1. /\ queue = <<>> /\ born = <<>> /\ list = <<>> /\ day = 0 /\ readPos = 0 /\ writePos = 0
      /\ exists = {} /\ stuck = {} /\ phase = "off"
  BY DEF Init
<1>2. /\ born \in Seq(0..day) /\ Len(born) = 0 /\ DOMAIN born = {}
      /\ list \in Seq(Piece) /\ Len(list) = 0 /\ DOMAIN list = {}
  BY <1>1
<1>3. Asked(queue) = {}
  BY <1>1 DEF Asked
<1>4. TypeOK
  <2>1. Len(RowLength) \in Nat /\ LastDay \in Nat /\ Grace \in Nat
    BY ResultsConstantsOK
  <2>2. g_bDemoRecordingFrame \in 0..Grace /\ day \in 0..LastDay /\ Len(born) <= Len(RowLength)
    BY <1>1, <1>2, <2>1 DEF Init
  <2>3. maxClients \in 1..2 /\ g_iLastMaxClients \in 0..2 /\ 0 <= writePos /\ writePos <= readPos
    BY <1>1 DEF Init
  <2>4. recording \in {None, User} \cup DOMAIN born
    BY DEF Init
  <2> QED BY <1>1, <1>2, <2>2, <2>3, <2>4 DEF Init, TypeOK
<1>5. Lines(list, readPos, writePos)
  BY <1>1, <1>2 DEF Lines, Ends
<1> QED BY <1>1, <1>3, <1>4, <1>5 DEF DInv, Idle, RowsKept, PurgedPart

LEMMA StepDInv == IInv /\ DInv /\ [Next]_vars => DInv'
<1> SUFFICES ASSUME IInv, DInv, [Next]_vars PROVE DInv'
  OBVIOUS
<1>1. TypeOK /\ Asked(queue) \subseteq DOMAIN born /\ queue \in Seq(Command)
  BY DEF DInv, IInv
<1>2. CASE (\E b \in BOOLEAN : PurgeRow(b)) \/ PurgeEnd
  BY <1>2, PurgeStepsD
<1>3. CASE Execute
  BY <1>3, ExecuteD
<1>4. CASE \/ \E b \in BOOLEAN : ResultsThink(b) \/ Redraw(b)
           \/ ResultsFrame \/ ResultsAddLog \/ Activate \/ Disconnect
           \/ \E n \in 1..2, b \in BOOLEAN : VidInit(n, b)
  BY <1>4, CallsD
<1>5. ASSUME NEW c \in {<<"stop">>, <<"record", User>>, <<"agrecord">>}, Type(c) PROVE DInv'
  <2>1. c \in Command /\ \A d \in Demos : c # <<"record", d>>
    BY DemosAreNumbers DEF Command, User
  <2>2. /\ phase = "calls" /\ queue' = Append(queue, c)
        /\ UNCHANGED <<phase, called, active, maxClients, recording, disk, purge, mark, game>>
    BY <1>5 DEF Type
  <2>3. Asked(queue') \subseteq Asked(queue)
    <3>1. \A d \in Asked(Append(queue, c)) : d \in Asked(queue) \/ c = <<"record", d>>
      BY <1>1, <2>1, AskedFacts
    <3>2. Asked(queue') \subseteq Demos
      BY DEF Asked
    <3> QED BY <2>1, <2>2, <3>1, <3>2
  <2>4. Lines(list', readPos', writePos') /\ RowsKept' /\ PurgedPart'
    BY <2>2, <2>3, SameDisk DEF disk, purge
  <2>5. TypeOK'
    BY <1>1, <2>2 DEF TypeOK, disk, purge, mark, game
  <2> QED BY <1>1, <2>2, <2>3, <2>4, <2>5 DEF DInv, Idle, disk, purge
<1>6. CASE Executed \/ EndFrame \/ StartClient
  <2>1. /\ UNCHANGED <<engine, disk, purge, mark, game>>
        /\ phase' \in {"purge", "calls", "commands"}
        /\ called' \subseteq {"think", "frame", "redraw", "packets"}
    BY <1>1, <1>6 DEF TypeOK, Executed, EndFrame, StartClient
  <2>2. Lines(list', readPos', writePos') /\ RowsKept' /\ PurgedPart'
    BY <2>1, SameDisk DEF engine, disk, purge
  <2>3. TypeOK'
    BY <1>1, <2>1 DEF TypeOK, engine, disk, purge, mark, game
  <2>4. Idle'
    BY <1>6, <2>1 DEF DInv, Idle, Executed, EndFrame, StartClient, engine, purge
  <2> QED BY <1>1, <2>1, <2>2, <2>3, <2>4 DEF DInv, engine, disk
<1>7. CASE Quit
  <2>1. /\ phase' = "off" /\ called' = {} /\ queue' = <<>> /\ recording' = None
        /\ readPos' = 0 /\ writePos' = 0 /\ UNCHANGED disk
    BY <1>7 DEF Quit
  <2>2. Lines(list', readPos', writePos') /\ PurgedPart'
    <3>1. list \in Seq(Piece) /\ Len(list) \in Nat /\ Ends(list, Len(list))
      BY DEF DInv, Lines
    <3> QED BY <2>1, <3>1 DEF Lines, Ends, PurgedPart, disk
  <2>3. RowsKept'
    <3>1. Asked(queue') = {}
      BY <2>1 DEF Asked
    <3>2. ASSUME NEW d \in exists \ stuck PROVE KeptRow(list, 0, 0, d)
      BY DEF DInv, RowsKept, KeptRow
    <3> QED BY <2>1, <3>1, <3>2 DEF RowsKept, disk
  <2>4. TypeOK'
    <3>1. Grace \in Nat
      BY ResultsConstantsOK
    <3>2. g_bDemoRecordingFrame' \in 0..Grace /\ maxClients' \in 1..2 /\ g_iLastMaxClients' \in 0..2
          /\ 0 <= writePos' /\ writePos' <= readPos'
      BY <1>7, <3>1 DEF Quit
    <3>3. /\ active' \in BOOLEAN /\ g_bDemoRecording' \in BOOLEAN
          /\ g_bDemoRecordingStartIssued' \in BOOLEAN
          /\ m_iIntermission' \in BOOLEAN /\ g_bResultsStarted' \in BOOLEAN /\ log' \in BOOLEAN
      BY <1>7 DEF Quit
    <3> QED BY <1>1, <2>1, <3>2, <3>3 DEF TypeOK, disk
  <2>5. Asked(queue') = {}
    BY <2>1 DEF Asked
  <2> QED BY <2>1, <2>2, <2>3, <2>4, <2>5 DEF DInv, Idle
<1>8. CASE NewDay
  <2>1. /\ phase # "purge" /\ day < LastDay /\ day' = day + 1
        /\ UNCHANGED <<phase, called, engine, exists, list, born, stuck, purge, mark, game>>
    BY <1>8 DEF NewDay
  <2>2. writePos' = 0
    BY <2>1 DEF DInv, Idle, purge
  <2>3. Lines(list', readPos', writePos') /\ RowsKept' /\ PurgedPart'
    BY <2>1, <2>2 DEF DInv, RowsKept, PurgedPart, engine, purge
  <2>4. TypeOK'
    <3>1. day \in 0..LastDay /\ LastDay \in Nat
      BY <1>1, ResultsConstantsOK DEF TypeOK
    <3>2. day' \in 0..LastDay
      BY <2>1, <3>1
    <3>3. born' \in Seq(0..day')
      <4>1. born \in Seq(0..day) /\ 0..day \subseteq 0..day'
        BY <1>1, <2>1, <3>1 DEF TypeOK
      <4>2. \A S, T : S \subseteq T => \A s \in Seq(S) : s \in Seq(T)
        OBVIOUS
      <4>3. born \in Seq(0..day')
        BY <4>1, <4>2
      <4> QED BY <2>1, <4>3
    <3> QED BY <1>1, <2>1, <3>2, <3>3 DEF TypeOK, engine, purge, mark, game
  <2> QED BY <1>1, <2>1, <2>3, <2>4 DEF DInv, Idle, engine, purge
<1>9. CASE UNCHANGED vars
  <2>1. UNCHANGED <<phase, called, engine, disk, purge, mark, game>>
    BY <1>9 DEF vars
  <2>2. Lines(list', readPos', writePos') /\ RowsKept' /\ PurgedPart'
    BY <2>1, SameDisk DEF engine, disk, purge
  <2>3. TypeOK'
    BY <1>1, <2>1 DEF TypeOK, engine, disk, purge, mark, game
  <2> QED BY <1>1, <2>1, <2>2, <2>3 DEF DInv, Idle, engine, disk, purge
<1> QED BY <1>2, <1>3, <1>4, <1>5, <1>6, <1>7, <1>8, <1>9 DEF Next

LEMMA SpecDInv == Spec => [](IInv /\ DInv)
BY InitIInv, StepIInv, InitDInv, StepDInv, PTL DEF Spec

(* What the typing of the state says holds: no demo is recorded, on the    *)
(* disk or listed that was not made by the client, a purge never writes    *)
(* ahead of what it reads, and the watchdog's count stops.                 *)
THEOREM TypeCorrect == Spec => []TypeOK
<1>1. DInv => TypeOK
  BY DEF DInv
<1> QED BY <1>1, SpecDInv, PTL

(* The rows of the demos on the disk survive the purge that rewrites the   *)
(* list in place, whatever the lengths of the rows, and a crash between    *)
(* any two of its steps, however often; and rows are found again in what   *)
(* such a crash leaves.                                                    *)
THEOREM DemosStayListed == Spec => []DemosListed
<1>1. ASSUME DInv PROVE DemosListed
  <2> SUFFICES ASSUME NEW d \in exists \ stuck PROVE Listed(d)
    BY DEF DemosListed
  <2>1. d \in Demos
    BY <1>1, BornFacts DEF DInv, TypeOK
  <2>2. /\ RowLength[d] \in Nat \ {0} /\ Row(d) \in Seq(Piece)
        /\ Len(Row(d)) = RowLength[d]
        /\ \A k \in 1..RowLength[d] : Row(d)[k] = <<d, k>>
    BY <2>1, RowFacts
  <2>3. list \in Seq(Piece) /\ Len(list) \in Nat
    BY <1>1 DEF DInv, Lines
  <2>4. PICK p \in 0..Len(list) : RowAt(list, d, p)
    BY <1>1 DEF DInv, RowsKept, KeptRow
  <2>5. p \in 0..(Len(list) - RowLength[d])
    BY <2>2, <2>3, <2>4 DEF RowAt
  <2>6. SubSeq(list, p + 1, p + RowLength[d]) = Row(d)
    <3> DEFINE s == SubSeq(list, p + 1, p + RowLength[d])
    <3>1. /\ s \in Seq(Piece) /\ Len(s) = RowLength[d]
          /\ \A k \in 1..RowLength[d] : s[k] = list[p + k]
      BY <2>2, <2>3, <2>5, SMTT(60)
    <3>2. \A k \in 1..RowLength[d] : s[k] = Row(d)[k]
      BY <2>2, <2>4, <3>1 DEF RowAt
    <3> HIDE DEF s
    <3>3. s = Row(d)
      BY <2>2, <3>1, <3>2
    <3> QED BY <3>3 DEF s
  <2> QED BY <2>4, <2>5, <2>6 DEF Listed, RowAt, Ends
<1> QED BY <1>1, SpecDInv, PTL

(* A purge that comes to its end has removed every demo that was too old   *)
(* and could be removed.                                                   *)
THEOREM OldDemosArePurged == Spec => OldDemosPurged
<1>1. ASSUME DInv, [Next]_vars, phase = "purge", phase' = "commands", NEW d \in exists' \ stuck'
      PROVE  day' - born'[d] <= KeepDays
  <2>1. PurgeEnd
    BY <1>1 DEF Next, vars, PurgeRow, PurgeEnd, Execute, Executed, EndFrame, ResultsThink,
                Redraw, ResultsFrame, VidInit, ResultsAddLog, Activate, Disconnect, Call,
                Type, StartClient, Quit, NewDay
  <2>2. readPos = Len(list) /\ UNCHANGED <<exists, born, day, stuck>>
    BY <2>1 DEF PurgeEnd
  <2>3. TypeOK
    BY <1>1 DEF DInv
  <2>4. d \in DOMAIN born /\ d \in Demos /\ RowLength[d] \in Nat \ {0}
    BY <1>1, <2>2, <2>3, BornFacts, RowFacts DEF TypeOK
  <2>5. Len(list) \in Nat /\ writePos \in 0..Len(list)
    BY <1>1, <2>2 DEF DInv, Lines
  <2>6. PICK p \in 0..Len(list) :
          RowAt(list, d, p) /\ (p + RowLength[d] <= writePos \/ p >= readPos)
    BY <1>1, <2>2 DEF DInv, RowsKept, KeptRow
  <2>7. p + RowLength[d] <= writePos
    BY <2>2, <2>4, <2>5, <2>6 DEF RowAt
  <2>8. p + 1 \in 1..writePos /\ list[p + 1] = <<d, 1>>
    BY <2>4, <2>5, <2>6, <2>7 DEF RowAt
  <2>9. ~Old(d)
    BY <1>1, <2>8 DEF DInv, PurgedPart
  <2>10. day \in Int /\ born[d] \in Int /\ KeepDays \in Int
    <3>1. born \in Seq(0..day) /\ day \in 0..LastDay
      BY <2>3 DEF TypeOK
    <3>2. born[d] \in 0..day
      BY <2>4, <3>1
    <3> QED BY <3>1, <3>2, ResultsConstantsOK
  <2> QED BY <2>2, <2>9, <2>10 DEF Old
<1>2. DInv /\ [Next]_vars =>
        [phase = "purge" /\ phase' = "commands" =>
           \A d \in exists' \ stuck' : day' - born'[d] <= KeepDays]_vars
  BY <1>1
<1> QED BY <1>2, SpecDInv, PTL DEF Spec, OldDemosPurged
=============================================================================
