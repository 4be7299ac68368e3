----------------------------- MODULE UpdateCheck -----------------------------
(***************************************************************************)
(* What the updater promises to the code that uses it (CGameUpdater.h),    *)
(* without threads, queues or frames: a check starts, moves through the    *)
(* public status enum in one direction, and answers its listeners with     *)
(* callbacks that agree with that status.  Updater.tla implements it.      *)
(***************************************************************************)
EXTENDS Sequences

VARIABLES
  status,   \* m_iUpdateStatus, as every reader sees it
  told      \* callbacks run since the current check began, in order

vars == <<status, told>>

(* E_UpdateStatus; the four states of the unfinished downloader are not    *)
(* compiled in (UPDATER_WIP_DL).                                           *)
Settled   == {"ERROR_EXCEPTION", "UP_TO_DATE", "UPDATE_FOUND"}
Statuses  == {"NONE", "LOADING_RELEASES"} \cup Settled

(* The callbacks: CheckFinished(false), CheckFinished(true), ErrorOccured. *)
Callbacks == {"upToDate", "updateFound", "error"}

Init == status = "NONE" /\ told = <<>>

(* A check begins, or replaces the one that is running.                    *)
Restart == status' = "NONE" /\ told' = <<>>

Load ==
  /\ status = "NONE"
  /\ status' = "LOADING_RELEASES"
  /\ UNCHANGED told

(* A check settles once, in exactly one way.                               *)
Settle ==
  /\ status = "LOADING_RELEASES"
  /\ status' \in Settled
  /\ UNCHANGED told

(* CheckFinished is the first callback of a check and comes at most once;  *)
(* an error may still follow the announcement of an update (a later        *)
(* release with a bad tag), and nothing follows an error.                  *)
MayTell(c) ==
  \/ c = "upToDate" /\ status = "UP_TO_DATE" /\ told = <<>>
  \/ c = "updateFound" /\ status \notin {"NONE", "UP_TO_DATE"} /\ told = <<>>
  \/ c = "error" /\ status = "ERROR_EXCEPTION" /\ told \in {<<>>, <<"updateFound">>}

Tell(c) ==
  /\ MayTell(c)
  /\ told' = Append(told, c)
  /\ UNCHANGED status

Next == Restart \/ Load \/ Settle \/ \E c \in Callbacks : Tell(c)

Spec == Init /\ [][Next]_vars
=============================================================================
