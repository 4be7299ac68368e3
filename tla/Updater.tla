------------------------------- MODULE Updater -------------------------------
(***************************************************************************)
(* CGameUpdater and CUpdateWorker (game_shared/updater/CGameUpdater.cpp)   *)
(* with the listener CUpdateNotification (cl_dll/CUpdateNotification.cpp). *)
(*                                                                         *)
(* Two threads: the game's main thread, which runs Frame, CheckForUpdates, *)
(* the callbacks and the destructors; and the worker thread, which asks    *)
(* GitHub for the release list and talks back through a command queue, a   *)
(* changelog string and the atomic status.  One action is one access to a  *)
(* shared object (a critical section of a mutex, an atomic store, a call   *)
(* of cURL); a log line that goes with a store is part of the same action. *)
(***************************************************************************)
EXTENDS Versions

CONSTANTS
  GameVersion,     \* m_GameVersion
  ReleaseLists,    \* replies GitHub may give: sequences of releases, newest
                   \* first
  ChangeLogLimit,  \* releases a changelog shows at most (20 in the code)
  Pages,           \* option pages that listen while they exist
  MaxSlots         \* bound: callback slots ever handed out

(* CGameVersion(), which prints as 0.0.0; a tag that does not parse.       *)
NoVersion == [major |-> 0, minor |-> 0, patch |-> 0, tag |-> NULL]
BadTag    == [NoVersion EXCEPT !.major = -1]
Release   == Version \cup {BadTag}

Notif     == "notif"
NoOne     == "nullptr"
Listeners == Pages \cup {Notif}

ASSUME ConstantsOK ==
  /\ GameVersion \in Version
  /\ ReleaseLists \subseteq Seq(Release)
  /\ ChangeLogLimit \in Nat \ {0}
  /\ MaxSlots \in Nat \ {0}
  /\ Notif \notin Pages /\ NoOne \notin Listeners

VARIABLES
  m_iUpdateStatus,  \* atomic, written by both threads
  m_LatestVersion,  \* plain memory, written by both threads
  m_ChangeLog,      \* CGameUpdater's copy, main thread only
  deleting,         \* why the main thread is inside ~CUpdateWorker
  mpc,              \* where the main thread is
  wpc,              \* where the worker is; "none" when m_pWorker is null
  m_CmdQueue,       \* commands from the worker, under m_CmdQueueMutex
  m_bStopThread,    \* atomic
  workerChangeLog,  \* CUpdateWorker::m_ChangeLog, under m_ChangelogMutex
  m_jReleases,      \* the parsed reply
  m_cbCheckFinished,\* callback slots
  callbackId,       \* each listener's m_iCallbackId
  m_bUpdatesChecked,\* CHud: the automatic check was decided
  m_bIsActive, m_bIsNotified,  \* CUpdateNotification
  printed,          \* version in the notification's "New version" line
  told              \* history: callbacks run since the check began

updater  == <<m_iUpdateStatus, m_LatestVersion, m_ChangeLog, deleting>>
worker   == <<wpc, m_CmdQueue, m_bStopThread, workerChangeLog, m_jReleases>>
slots    == <<m_cbCheckFinished, callbackId>>
notif    == <<m_bUpdatesChecked, m_bIsActive, m_bIsNotified, printed>>
vars     == <<updater, worker, slots, notif, mpc, told>>

Callbacks == {"upToDate", "updateFound", "error"}
Commands  == Callbacks \cup {"log"}
Settled   == {"ERROR_EXCEPTION", "UP_TO_DATE", "UPDATE_FOUND"}
Statuses  == {"NONE", "LOADING_RELEASES"} \cup Settled

Init ==
  /\ m_iUpdateStatus = "NONE" /\ m_LatestVersion = NoVersion /\ m_ChangeLog = {}
  /\ deleting = "no" /\ mpc = "idle"
  /\ wpc = "none" /\ m_CmdQueue = <<>> /\ m_bStopThread = FALSE
  /\ workerChangeLog = {} /\ m_jReleases = <<>>
  /\ m_cbCheckFinished = <<Notif>>
  /\ callbackId = [l \in Listeners |-> IF l = Notif THEN 0 ELSE -1]
  /\ m_bUpdatesChecked = FALSE /\ m_bIsActive = FALSE /\ m_bIsNotified = FALSE
  /\ printed = <<>> /\ told = <<>>

-----------------------------------------------------------------------------
(* The worker thread.                                                      *)

At(from, to) == wpc = from /\ wpc' = to
Push(cmds)   == m_CmdQueue' = m_CmdQueue \o cmds

WorkerUnchanged == UNCHANGED <<m_ChangeLog, deleting, slots, notif, mpc, told>>

(* operator(): "Worker thread started.", LOADING_RELEASES, then            *)
(* LoadReleases logs its own first line.                                   *)
WorkerStart ==
  /\ At("start", "perform")
  /\ m_iUpdateStatus' = "LOADING_RELEASES"
  /\ Push(<<"log", "log">>)
  /\ UNCHANGED <<m_LatestVersion, m_bStopThread, workerChangeLog, m_jReleases>>
  /\ WorkerUnchanged

(* The reply throws before anything is published: an empty list (at(0)) or *)
(* a latest tag that does not parse.                                       *)
Unusable(list) == list = <<>> \/ list[1] = BadTag

(* curl_easy_perform.  WriteData refuses data once a stop was asked for,   *)
(* which cURL reports as an error, like a broken connection or a reply     *)
(* that is not JSON.                                                       *)
Perform ==
  /\ wpc = "perform"
  /\ \/ /\ wpc' = "catch"
        /\ UNCHANGED m_jReleases
     \/ /\ ~m_bStopThread
        /\ m_jReleases' \in ReleaseLists
        /\ wpc' = IF Unusable(m_jReleases') THEN "catch" ELSE "publish"
  /\ UNCHANGED <<m_iUpdateStatus, m_LatestVersion, m_CmdQueue, m_bStopThread,
                 workerChangeLog>>
  /\ WorkerUnchanged

(* Both versions are logged and m_LatestVersion is stored.                 *)
PublishLatest ==
  /\ wpc = "publish"
  /\ m_LatestVersion' = m_jReleases[1]
  /\ Push(<<"log", "log">>)
  /\ wpc' = IF Geq(GameVersion, m_jReleases[1]) THEN "upToDate" ELSE "announce"
  /\ UNCHANGED <<m_iUpdateStatus, m_bStopThread, workerChangeLog, m_jReleases>>
  /\ WorkerUnchanged

SetUpToDate ==
  /\ At("upToDate", "tellUpToDate")
  /\ m_iUpdateStatus' = "UP_TO_DATE"
  /\ Push(<<"log">>)
  /\ UNCHANGED <<m_LatestVersion, m_bStopThread, workerChangeLog, m_jReleases>>
  /\ WorkerUnchanged

(* CallCheckFinished(false), and LoadReleases returns false.               *)
TellUpToDate ==
  /\ At("tellUpToDate", "cleanup")
  /\ Push(<<"upToDate">>)
  /\ UNCHANGED <<m_iUpdateStatus, m_LatestVersion, m_bStopThread, workerChangeLog,
                 m_jReleases>>
  /\ WorkerUnchanged

(* CallCheckFinished(true), and LoadReleases returns true.                 *)
Announce ==
  /\ At("announce", "stopCheck")
  /\ Push(<<"updateFound">>)
  /\ UNCHANGED <<m_iUpdateStatus, m_LatestVersion, m_bStopThread, workerChangeLog,
                 m_jReleases>>
  /\ WorkerUnchanged

(* "if (m_bStopThread) throw false", then GenerateChangeLog's log line.    *)
StopCheck ==
  /\ wpc = "stopCheck"
  /\ IF m_bStopThread
       THEN wpc' = "cleanup" /\ UNCHANGED m_CmdQueue
       ELSE wpc' = "changelog" /\ Push(<<"log">>)
  /\ UNCHANGED <<m_iUpdateStatus, m_LatestVersion, m_bStopThread, workerChangeLog,
                 m_jReleases>>
  /\ WorkerUnchanged

(* GenerateChangeLog walks the list from the newest release until it meets *)
(* one that the game has or ChangeLogLimit; a bad tag on the way throws.   *)
(* The text itself is abstracted to the set of the releases it describes.  *)
Newer(v) == v # BadTag /\ ~Leq(v, GameVersion)

Reached(list, i) ==
  /\ i \in DOMAIN list /\ i <= ChangeLogLimit
  /\ \A j \in 1..(i - 1) : Newer(list[j])

(* Mutant of Shown: the release at which it stops is described as well.    *)
ShownOwn(list) ==
  {list[i] : i \in {k \in DOMAIN list : Reached(list, k) /\ list[k] # BadTag}}

Shown(list)  == {list[i] : i \in {k \in DOMAIN list : Reached(list, k) /\ Newer(list[k])}}
Throws(list) == \E i \in DOMAIN list : Reached(list, i) /\ list[i] = BadTag

(* Mutant of GenerateChangeLog: the text built so far survives an error.   *)
GenerateChangeLogEagerly ==
  /\ wpc = "changelog"
  /\ wpc' = IF Throws(m_jReleases) THEN "catch" ELSE "cleanup"
  /\ workerChangeLog' = Shown(m_jReleases)
  /\ UNCHANGED <<m_iUpdateStatus, m_LatestVersion, m_CmdQueue, m_bStopThread,
                 m_jReleases>>
  /\ WorkerUnchanged

GenerateChangeLog ==
  /\ wpc = "changelog"
  /\ IF Throws(m_jReleases)
       THEN wpc' = "catch" /\ UNCHANGED workerChangeLog
       ELSE /\ wpc' = "cleanup"
            /\ workerChangeLog' = Shown(m_jReleases)
  /\ UNCHANGED <<m_iUpdateStatus, m_LatestVersion, m_CmdQueue, m_bStopThread,
                 m_jReleases>>
  /\ WorkerUnchanged

(* Mutant of SetError: ErrorOccured is not called.                         *)
SetErrorQuietly ==
  /\ At("catch", "cleanup")
  /\ m_iUpdateStatus' = "ERROR_EXCEPTION"
  /\ Push(<<"log">>)
  /\ UNCHANGED <<m_LatestVersion, m_bStopThread, workerChangeLog, m_jReleases>>
  /\ WorkerUnchanged

(* catch (const std::exception &): log, status, and only then the command. *)
SetError ==
  /\ At("catch", "tellError")
  /\ m_iUpdateStatus' = "ERROR_EXCEPTION"
  /\ Push(<<"log">>)
  /\ UNCHANGED <<m_LatestVersion, m_bStopThread, workerChangeLog, m_jReleases>>
  /\ WorkerUnchanged

TellError ==
  /\ At("tellError", "cleanup")
  /\ Push(<<"error">>)
  /\ UNCHANGED <<m_iUpdateStatus, m_LatestVersion, m_bStopThread, workerChangeLog,
                 m_jReleases>>
  /\ WorkerUnchanged

WorkerFinish ==
  /\ At("cleanup", "done")
  /\ Push(<<"log">>)
  /\ m_bStopThread' = FALSE
  /\ UNCHANGED <<m_iUpdateStatus, m_LatestVersion, workerChangeLog, m_jReleases>>
  /\ WorkerUnchanged

Worker ==
  \/ WorkerStart \/ Perform \/ PublishLatest \/ SetUpToDate \/ TellUpToDate
  \/ Announce \/ StopCheck \/ GenerateChangeLog \/ SetError \/ TellError
  \/ WorkerFinish

-----------------------------------------------------------------------------
(* The main thread.                                                        *)

GetLatestVersion ==
  IF m_iUpdateStatus \in {"UP_TO_DATE", "UPDATE_FOUND"} THEN m_LatestVersion
                                                         ELSE NoVersion

(* CUpdateNotification::CheckFinishedCallback, if its slot is still set.   *)
Notify(found) ==
  IF /\ callbackId[Notif] # -1
     /\ m_cbCheckFinished[callbackId[Notif] + 1] = Notif
     /\ m_bIsActive /\ ~m_bIsNotified
    THEN /\ m_bIsNotified' = TRUE
         /\ printed' = IF found THEN Append(printed, GetLatestVersion) ELSE printed
    ELSE UNCHANGED <<m_bIsNotified, printed>>

(* GameFrame, first half: at most one command per frame; its callbacks run *)
(* outside the mutex.                                                      *)
ProcessCommand ==
  IF m_CmdQueue = <<>>
    THEN UNCHANGED <<m_CmdQueue, told, m_bIsNotified, printed>>
    ELSE LET cmd == Head(m_CmdQueue) IN
         /\ m_CmdQueue' = Tail(m_CmdQueue)
         /\ told' = IF cmd \in Callbacks THEN Append(told, cmd) ELSE told
         /\ IF cmd \in {"upToDate", "updateFound"}
              THEN Notify(cmd = "updateFound")
              ELSE UNCHANGED <<m_bIsNotified, printed>>

Frame ==
  /\ mpc = "idle" /\ wpc # "none"
  /\ ProcessCommand
  /\ mpc' = "frame"
  /\ UNCHANGED <<updater, wpc, m_bStopThread, workerChangeLog, m_jReleases, slots,
                 m_bUpdatesChecked, m_bIsActive>>

(* Mutant of TakeChangeLog: the status of the unfinished downloader.       *)
TakeChangeLogAndDownload ==
  /\ mpc = "frame"
  /\ IF m_ChangeLog = {} /\ workerChangeLog # {}
       THEN m_ChangeLog' = workerChangeLog /\ m_iUpdateStatus' = "DOWNLOADING"
       ELSE UNCHANGED <<m_ChangeLog, m_iUpdateStatus>>
  /\ mpc' = IF deleting = "no" THEN "idle" ELSE "free"
  /\ UNCHANGED <<m_LatestVersion, deleting, worker, slots, notif, told>>

(* GameFrame, second half: take the worker's changelog over, once.         *)
TakeChangeLog ==
  /\ mpc = "frame"
  /\ IF m_ChangeLog = {} /\ workerChangeLog # {}
       THEN m_ChangeLog' = workerChangeLog /\ m_iUpdateStatus' = "UPDATE_FOUND"
       ELSE UNCHANGED <<m_ChangeLog, m_iUpdateStatus>>
  /\ mpc' = IF deleting = "no" THEN "idle" ELSE "free"
  /\ UNCHANGED <<m_LatestVersion, deleting, worker, slots, notif, told>>

(* Mutant of StartCheck: the last check's status stays.                    *)
StartCheckKeepStatus ==
  /\ m_iUpdateStatus' = m_iUpdateStatus /\ m_ChangeLog' = {} /\ m_LatestVersion' = NoVersion
  /\ wpc' = "start" /\ m_CmdQueue' = <<>> /\ m_bStopThread' = FALSE
  /\ workerChangeLog' = {} /\ m_jReleases' = <<>>
  /\ told' = <<>>
  /\ deleting' = "no" /\ mpc' = "idle"

(* CheckForUpdates after "delete m_pWorker": reset, new worker, new thread *)
StartCheck ==
  /\ m_iUpdateStatus' = "NONE" /\ m_ChangeLog' = {} /\ m_LatestVersion' = NoVersion
  /\ wpc' = "start" /\ m_CmdQueue' = <<>> /\ m_bStopThread' = FALSE
  /\ workerChangeLog' = {} /\ m_jReleases' = <<>>
  /\ told' = <<>>
  /\ deleting' = "no" /\ mpc' = "idle"

(* ~CUpdateWorker asks the thread to stop and blocks in join().            *)
StopWorker(why) ==
  /\ m_bStopThread' = TRUE
  /\ deleting' = why /\ mpc' = "join"
  /\ UNCHANGED <<m_iUpdateStatus, m_LatestVersion, m_ChangeLog, wpc, m_CmdQueue,
                 workerChangeLog, m_jReleases, told>>

CheckForUpdates ==
  IF wpc = "none" THEN StartCheck ELSE StopWorker("restart")

(* The update_check command and the pages' buttons.                        *)
CheckCommand ==
  /\ mpc = "idle"
  /\ CheckForUpdates
  /\ UNCHANGED <<slots, notif>>

(* CHud::Frame decides once whether to check on its own.                   *)
AutoCheck ==
  /\ mpc = "idle" /\ ~m_bUpdatesChecked
  /\ m_bUpdatesChecked' = TRUE
  /\ m_bIsActive' \in BOOLEAN
  /\ IF m_bIsActive' THEN CheckForUpdates
                     ELSE UNCHANGED <<updater, worker, mpc, told>>
  /\ UNCHANGED <<slots, m_bIsNotified, printed>>

(* Mutant of Join: it waits for the stop flag to be cleared, instead of    *)
(* joining the thread.                                                     *)
JoinByFlag ==
  /\ mpc = "join" /\ ~m_bStopThread
  /\ ProcessCommand
  /\ mpc' = "frame"
  /\ UNCHANGED <<updater, wpc, m_bStopThread, workerChangeLog, m_jReleases, slots,
                 m_bUpdatesChecked, m_bIsActive>>

(* join() returns; ~CUpdateWorker calls GameFrame() once more.             *)
Join ==
  /\ mpc = "join" /\ wpc = "done"
  /\ ProcessCommand
  /\ mpc' = "frame"
  /\ UNCHANGED <<updater, wpc, m_bStopThread, workerChangeLog, m_jReleases, slots,
                 m_bUpdatesChecked, m_bIsActive>>

(* The worker object is freed with whatever its queue still holds.         *)
Free ==
  /\ mpc = "free"
  /\ IF deleting = "restart"
       THEN StartCheck
       ELSE /\ wpc' = "none" /\ m_CmdQueue' = <<>> /\ m_bStopThread' = FALSE
            /\ workerChangeLog' = {} /\ m_jReleases' = <<>>
            /\ mpc' = "off" /\ deleting' = "no"
            /\ UNCHANGED <<m_iUpdateStatus, m_LatestVersion, m_ChangeLog, told>>
  /\ UNCHANGED <<slots, notif>>

(* AddCheckFinishedCallback: a page appears.  RemoveCheckFinishedCallback: *)
(* the slot is emptied and never handed out again.                         *)
AddCallback(l) ==
  /\ m_cbCheckFinished' = Append(m_cbCheckFinished, l)
  /\ callbackId' = [callbackId EXCEPT ![l] = Len(m_cbCheckFinished)]

(* Mutant of RemoveCallback: the vector's element is erased.               *)
RemoveCallbackErase(l) ==
  /\ m_cbCheckFinished' =
       [i \in 1..(Len(m_cbCheckFinished) - 1) |->
          m_cbCheckFinished[IF i <= callbackId[l] THEN i ELSE i + 1]]
  /\ callbackId' = [callbackId EXCEPT ![l] = -1]

RemoveCallback(l) ==
  /\ m_cbCheckFinished' = [m_cbCheckFinished EXCEPT ![callbackId[l] + 1] = NoOne]
  /\ callbackId' = [callbackId EXCEPT ![l] = -1]

OpenPage(p) ==
  /\ mpc = "idle" /\ callbackId[p] = -1 /\ Len(m_cbCheckFinished) < MaxSlots
  /\ AddCallback(p)
  /\ UNCHANGED <<updater, worker, notif, mpc, told>>

ClosePage(p) ==
  /\ mpc = "idle" /\ callbackId[p] # -1
  /\ RemoveCallback(p)
  /\ UNCHANGED <<updater, worker, notif, mpc, told>>

(* CHud::Shutdown: the notification goes first, then the updater.          *)
Shutdown ==
  /\ mpc = "idle" /\ callbackId[Notif] # -1
  /\ RemoveCallback(Notif)
  /\ IF wpc = "none"
       THEN mpc' = "off" /\ UNCHANGED <<updater, worker, told>>
       ELSE StopWorker("quit")
  /\ UNCHANGED notif

Main ==
  \/ Frame \/ TakeChangeLog \/ CheckCommand \/ AutoCheck \/ Join \/ Free \/ Shutdown
  \/ \E p \in Pages : OpenPage(p) \/ ClosePage(p)

(* After HUD_Shutdown nothing of this component runs any more.             *)
Off == mpc = "off" /\ UNCHANGED vars

Next == Worker \/ Main \/ Off

Spec == Init /\ [][Next]_vars

(* The scheduler runs the worker, cURL's call returns, and the engine      *)
(* calls HUD_Frame as long as the game runs; nobody has to press a button. *)
FairSpec == Spec /\ WF_vars(Worker) /\ WF_vars(Frame \/ TakeChangeLog \/ Join \/ Free)

-----------------------------------------------------------------------------
TypeOK ==
  /\ m_iUpdateStatus \in Statuses
  /\ m_LatestVersion \in Version
  /\ m_ChangeLog \in SUBSET Version /\ workerChangeLog \in SUBSET Version
  /\ m_jReleases \in ReleaseLists \cup {<<>>}
  /\ deleting \in {"no", "restart", "quit"}
  /\ mpc \in {"idle", "frame", "join", "free", "off"}
  /\ wpc \in {"none", "start", "perform", "publish", "upToDate", "tellUpToDate",
              "announce", "stopCheck", "changelog", "catch", "tellError",
              "cleanup", "done"}
  /\ m_CmdQueue \in Seq(Commands)
  /\ m_bStopThread \in BOOLEAN
  /\ m_cbCheckFinished \in Seq(Listeners \cup {NoOne})
  /\ callbackId \in [Listeners -> Int]
  /\ m_bUpdatesChecked \in BOOLEAN /\ m_bIsActive \in BOOLEAN /\ m_bIsNotified \in BOOLEAN
  /\ printed \in Seq(Version)
  /\ told \in Seq(Callbacks)

(* m_LatestVersion is plain memory that both threads write.  Whenever the  *)
(* status test of GetLatestVersion lets the main thread read it, the       *)
(* worker is past its only write and what is read is the newest release.   *)
LatestVersionReadSafe ==
  m_iUpdateStatus \in {"UP_TO_DATE", "UPDATE_FOUND"} =>
    /\ wpc \notin {"start", "perform", "publish"}
    /\ wpc # "none" => m_LatestVersion = m_jReleases[1]

(* A status of UPDATE_FOUND always comes with a changelog that describes   *)
(* the newest release and nothing the player already has, and the          *)
(* announcement was told, or still waits in the queue, or was deleted with *)
(* the worker at shutdown.                                                 *)
FoundIsComplete ==
  m_iUpdateStatus = "UPDATE_FOUND" =>
    /\ m_LatestVersion \in m_ChangeLog
    /\ \A v \in m_ChangeLog : Newer(v)
    /\ \/ told = <<"updateFound">>
       \/ told = <<>> /\ \E i \in 1..Len(m_CmdQueue) : m_CmdQueue[i] = "updateFound"
       \/ mpc = "off"

(* RemoveCheckFinishedCallback(id) always empties the caller's own slot:   *)
(* ids stay valid while other listeners come and go.                       *)
IdsNameTheirSlots ==
  \A l \in Listeners :
    \A i \in 1..Len(m_cbCheckFinished) :
      m_cbCheckFinished[i] = l <=> callbackId[l] = i - 1

(* The updater implements its promise (UpdateCheck): one settled status    *)
(* per check, callbacks at most once and only those the status allows.     *)
UC == INSTANCE UpdateCheck WITH status <- m_iUpdateStatus, told <- told
ImplementsUpdateCheck == UC!Spec

(* Every check answers its listeners, unless it is abandoned first.        *)
CheckAnswers == (wpc = "start") ~> (told # <<>> \/ deleting # "no")

(* The main thread never hangs in ~CUpdateWorker's join().                 *)
DeleteReturns == (deleting # "no") ~> (deleting = "no")

(* "New version:  %s" (CUpdateNotification.cpp:58): the line names the     *)
(* version that was found.                                                 *)
PrintsTheNewVersion == \A i \in 1..Len(printed) : Newer(printed[i])
=============================================================================
