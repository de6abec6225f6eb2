------------------------------ MODULE NasSync -------------------------------
(***************************************************************************)
(* Copying the recordings to a network disk (network.c).  Nas_Manage_pth   *)
(* mounts and unmounts /mnt/nas and says by g_nassync_flag whether         *)
(* Nas_Sync_pth may copy; that one goes through the days and the day's     *)
(* recordings that the index lists, copies what is not there yet, and      *)
(* marks a day, once it is over, as done: it is not looked at again.       *)
(*                                                                         *)
(* Recordings of a day are numbered in the order they were entered.  None  *)
(* is deleted, and the clock is not set back.                              *)
(***************************************************************************)
EXTENDS Naturals

CONSTANTS LastDay,     \* bound: days are 0 .. LastDay, the last without recordings
          MaxOfDay    \* bound: recordings of a day

ASSUME NasAssumption == LastDay \in Nat /\ MaxOfDay \in Nat \ {0}

VARIABLES ctrl, nas_change,    \* g_nas_config.ctrl, g_nas_change
          net_check,           \* g_nas_net_check, kept by module NetLink
          sync_flag,           \* g_nassync_flag
          manager, mountflag,  \* Nas_Manage_pth
          mounts,              \* times the disk is mounted on /mnt/nas
          erased,              \* history: /mnt/nas was removed while mounted
          sync,                \* Nas_Sync_pth: place, flag, timeflag, days in
                               \* datelist, datenum, totol of filelist, filenum
          copy,                \* on the disk: no, yes; no for a known reason
          marked,              \* the days whose mark on the disk is 1
          listed, today        \* the card's index, the clock

nasVars == <<ctrl, nas_change, net_check, sync_flag, manager, mountflag, mounts,
             erased, sync, copy, marked, listed, today>>

NasDays == 0 .. LastDay
Numbers == 1 .. MaxOfDay

NasType ==
  /\ ctrl \in BOOLEAN /\ nas_change \in BOOLEAN /\ net_check \in BOOLEAN
  /\ sync_flag \in BOOLEAN /\ manager \in {"turn", "off", "change", "check", "mount"}
  /\ mountflag \in BOOLEAN /\ mounts \in 0 .. 2 /\ erased \in BOOLEAN
  /\ sync \in [at : {"loop", "days", "files", "copy", "listed"},
               flag : BOOLEAN, time : BOOLEAN, days : 0 .. LastDay + 1,
               day : 0 .. LastDay + 1, total : 0 .. MaxOfDay,
               n : 0 .. MaxOfDay]
  /\ copy \in [NasDays -> [Numbers -> {"no", "yes", "missed"}]]
  /\ marked \subseteq NasDays
  /\ listed \in [NasDays -> 0 .. MaxOfDay] /\ today \in NasDays

NoSync == [at |-> "loop", flag |-> FALSE, time |-> FALSE, days |-> 0, day |-> 0,
           total |-> 0, n |-> 0]

NasInit ==
  /\ ctrl \in BOOLEAN /\ nas_change = FALSE /\ net_check = FALSE
  /\ sync_flag = FALSE /\ manager = "turn" /\ mountflag = FALSE /\ mounts = 0
  /\ erased = FALSE /\ sync = NoSync
  /\ copy = [d \in NasDays |-> [f \in Numbers |-> "no"]] /\ marked = {}
  /\ listed = [d \in NasDays |-> 0] /\ today = 0

disk == <<copy, marked>>
card == <<listed, today>>
settings == <<ctrl, nas_change, net_check>>
mounting == <<manager, mountflag, mounts, erased>>
-----------------------------------------------------------------------------
(* The app, the network, the recorders, the clock, the power. *)

\* VAVAHAL_ParamParse_NasServer
SetNas(on) ==
  /\ ctrl' = on /\ nas_change' = on
  /\ UNCHANGED <<net_check, sync_flag, mounting, sync, disk, card>>

\* Nas_stop: before a format, an update, a reset.
NasStop ==
  /\ ctrl' = FALSE /\ sync_flag' = FALSE
  /\ UNCHANGED <<nas_change, net_check, mounting, sync, disk, card>>

NetMoves ==
  /\ net_check' = ~net_check
  /\ UNCHANGED <<ctrl, nas_change, sync_flag, mounting, sync, disk, card>>

Recorded ==
  /\ today < LastDay /\ listed[today] < MaxOfDay
  /\ listed' = [listed EXCEPT ![today] = @ + 1]
  /\ UNCHANGED <<today, settings, sync_flag, mounting, sync, disk>>

DayPasses ==
  /\ today < LastDay /\ today' = today + 1
  /\ UNCHANGED <<listed, settings, sync_flag, mounting, sync, disk>>

\* Part of a recording on the disk passes for the whole.
Partly == IF sync.at = "copy" /\ mounts > 0
            THEN [copy EXCEPT ![sync.day][sync.n] = "yes"] ELSE copy

\* The configuration file has ctrl, as set by the app.
Reboots ==
  /\ ctrl' \in BOOLEAN /\ nas_change' = FALSE /\ net_check' = FALSE
  /\ sync_flag' = FALSE /\ manager' = "turn" /\ mountflag' = FALSE /\ mounts' = 0
  /\ sync' = NoSync /\ copy' = Partly
  /\ UNCHANGED <<erased, marked, card>>
-----------------------------------------------------------------------------
(* Nas_Manage_pth *)

\* umount -l takes the last mount away.
Fewer(m) == IF m = 0 THEN 0 ELSE m - 1

\* umount -l /mnt/nas; rm -rf /mnt/nas
Unmount ==
  /\ mounts' = Fewer(mounts) /\ erased' = (erased \/ mounts' > 0)
  /\ mountflag' = FALSE

ManagerOff ==
  /\ manager = "turn" /\ ~(ctrl /\ net_check)
  /\ sync_flag' = FALSE /\ manager' = IF mountflag THEN "off" ELSE "turn"
  /\ UNCHANGED <<settings, mountflag, mounts, erased, sync, disk, card>>

ManagerOn ==
  /\ manager = "turn" /\ ctrl /\ net_check
  /\ nas_change' = FALSE /\ sync_flag' = (sync_flag /\ ~nas_change)
  /\ manager' = IF nas_change /\ mountflag THEN "change" ELSE "check"
  /\ UNCHANGED <<ctrl, net_check, mountflag, mounts, erased, sync, disk, card>>

\* A second after the flag went down.
ManagerUnmounts ==
  /\ manager \in {"off", "change"} /\ Unmount
  /\ manager' = IF manager = "off" THEN "turn" ELSE "check"
  /\ UNCHANGED <<settings, sync_flag, sync, disk, card>>

\* Bad parameters, no answer from the disk's address, no card.
ManagerRefuses ==
  /\ manager = "check" /\ manager' = "turn" /\ sync_flag' = FALSE
  /\ IF mountflag THEN Unmount ELSE UNCHANGED <<mountflag, mounts, erased>>
  /\ UNCHANGED <<settings, sync, disk, card>>

\* Mounted already; its space is looked at every half hour.
ManagerLooks ==
  /\ manager = "check" /\ mountflag /\ manager' = "turn"
  /\ sync_flag' \in BOOLEAN
  /\ UNCHANGED <<settings, mountflag, mounts, erased, sync, disk, card>>

ManagerChecked ==
  /\ manager = "check" /\ ~mountflag /\ manager' = "mount"
  /\ UNCHANGED <<settings, sync_flag, mountflag, mounts, erased, sync, disk, card>>

Before_slip(m) == m

\* What is mounted when the mount command runs.
Before(m) == Fewer(m)

Mount(how) ==
  /\ manager = "mount" /\ manager' = "turn"
  /\ mounts' = IF how \in {"fails", "nowrite"} THEN Before(mounts)
                                             ELSE Before(mounts) + 1
  /\ sync_flag' = (how = "good" \/ (sync_flag /\ how # "full"))
  /\ mountflag' = (how = "good")
  /\ UNCHANGED <<settings, erased, sync, disk, card>>

NasManager ==
  \/ ManagerOff \/ ManagerOn \/ ManagerUnmounts \/ ManagerRefuses \/ ManagerLooks
  \/ ManagerChecked
  \/ \E how \in {"fails", "nowrite", "full", "good"} : Mount(how)
-----------------------------------------------------------------------------
(* Nas_Sync_pth *)

SyncOn == sync_flag /\ net_check

\* The lists are freed; flag keeps saying that there is one.
SyncOff ==
  /\ sync.at = "loop" /\ ~SyncOn
  /\ sync' = [sync EXCEPT !.days = 0]
  /\ UNCHANGED <<settings, sync_flag, mounting, disk, card>>

\* Four hours have passed.
SyncWaited ==
  /\ sync.at = "loop" /\ SyncOn /\ sync.time
  /\ sync' = [sync EXCEPT !.time = FALSE]
  /\ UNCHANGED <<settings, sync_flag, mounting, disk, card>>

\* Rec_ImportDateIdx
SyncImports ==
  /\ sync.at = "loop" /\ SyncOn /\ ~sync.time /\ ~sync.flag
  /\ sync' = [sync EXCEPT !.flag = TRUE, !.days = today + 1]
  /\ UNCHANGED <<settings, sync_flag, mounting, disk, card>>

SyncBegins ==
  /\ sync.at = "loop" /\ SyncOn /\ ~sync.time /\ sync.flag /\ sync.days > 0
  /\ sync' = [sync EXCEPT !.at = "days", !.day = 0]
  /\ UNCHANGED <<settings, sync_flag, mounting, disk, card>>

\* A null list is looked into: the process is at its end.
SyncCrashes ==
  /\ sync.at = "loop" /\ SyncOn /\ ~sync.time /\ sync.flag /\ sync.days = 0
  /\ Reboots

\* The list of days has ended, or the copying was stopped.
SyncPassEnds ==
  /\ sync.at = "days" /\ (sync.day = sync.days \/ ~SyncOn)
  /\ sync' = [NoSync EXCEPT !.time = sync.day = sync.days]
  /\ UNCHANGED <<settings, sync_flag, mounting, disk, card>>

\* Marked already, no directory on the disk, no list.
SyncSkipsDay ==
  /\ sync.at = "days" /\ sync.day < sync.days /\ SyncOn
  /\ sync' = [sync EXCEPT !.day = @ + 1]
  /\ UNCHANGED <<settings, sync_flag, mounting, disk, card>>

\* VAVAHAL_CheckNasDir, Rec_ImportFileIdx
SyncDay ==
  /\ sync.at = "days" /\ sync.day < sync.days /\ SyncOn
  /\ sync.day \notin marked \/ mounts = 0
  /\ sync' = [sync EXCEPT !.at = "files", !.total = listed[sync.day], !.n = 0]
  /\ copy' = [copy EXCEPT ![sync.day] =
                [f \in Numbers |-> IF @[f] = "missed" THEN "no" ELSE @[f]]]
  /\ UNCHANGED <<settings, sync_flag, mounting, marked, card>>

\* The next recording: there already, its camera no longer paired (the name on
\* the disk has the camera's), or to be copied.
SyncFile ==
  /\ sync.at = "files" /\ sync.n < sync.total /\ SyncOn
  /\ LET f == sync.n + 1
         there == mounts > 0 /\ copy[sync.day][f] = "yes"
     IN \/ there /\ sync' = [sync EXCEPT !.n = f] /\ UNCHANGED copy
        \/ /\ ~there /\ sync' = [sync EXCEPT !.n = f, !.at = "copy"]
           /\ UNCHANGED copy
        \/ /\ sync' = [sync EXCEPT !.n = f]
           /\ copy' = IF there THEN copy ELSE [copy EXCEPT ![sync.day][f] = "missed"]
  /\ UNCHANGED <<settings, sync_flag, mounting, marked, card>>

Copied(as) ==
  /\ sync' = [sync EXCEPT !.at = "files"]
  /\ copy' = [copy EXCEPT ![sync.day][sync.n] =
                IF @ = "yes" THEN @ ELSE as]

\* Nas_SyncFile: all of it, or up to a failed write.
SyncCopies ==
  /\ sync.at = "copy" /\ Copied(IF mounts > 0 THEN "yes" ELSE "missed")
  /\ UNCHANGED <<settings, sync_flag, mounting, marked, card>>

\* It cannot be read, or nothing can be created.
SyncCannot ==
  /\ sync.at = "copy" /\ Copied("missed")
  /\ UNCHANGED <<settings, sync_flag, mounting, marked, card>>

\* Stopped within a copy: what there is of it is removed, unless the disk has been
\* unmounted by then: it stays on the disk, if that was written to, and passes for
\* the whole.  The loop goes on to the next recording if the flags are back by
\* then, or past the last one.
SyncStops ==
  /\ sync.at = "copy" /\ ~SyncOn
  /\ \E as \in {"missed", "yes"} : (as = "yes" => mounts = 0) /\ Copied(as)
  /\ UNCHANGED <<settings, sync_flag, mounting, marked, card>>

SyncListed ==
  /\ sync.at = "files" /\ (sync.n = sync.total \/ ~SyncOn)
  /\ sync' = [sync EXCEPT !.at = "listed"]
  /\ UNCHANGED <<settings, sync_flag, mounting, disk, card>>

Through_slip(n, total) == n + 1 >= total

\* filenum == filehead->totol
Through(n, total) == n = total

\* VAVAHAL_UpdateNasDir, which leaves today alone.
SyncMarks ==
  /\ sync.at = "listed"
  /\ sync' = [sync EXCEPT !.at = "days", !.day = @ + 1, !.total = 0, !.n = 0]
  /\ marked' = IF Through(sync.n, sync.total) /\ sync.day # today /\ mounts > 0
                 THEN marked \cup {sync.day} ELSE marked
  /\ UNCHANGED <<settings, sync_flag, mounting, copy, card>>

NasSyncer ==
  \/ SyncOff \/ SyncWaited \/ SyncImports \/ SyncBegins \/ SyncCrashes
  \/ SyncPassEnds \/ SyncSkipsDay \/ SyncDay \/ SyncFile \/ SyncCopies
  \/ SyncCannot \/ SyncStops \/ SyncListed \/ SyncMarks

NasNext ==
  \/ \E on \in BOOLEAN : SetNas(on)
  \/ NasStop \/ NetMoves \/ Recorded \/ DayPasses \/ Reboots
  \/ NasManager \/ NasSyncer

NasSpec == NasInit /\ [][NasNext]_nasVars
-----------------------------------------------------------------------------
(* Properties. *)

(* "rm -rf /mnt/nas" never runs with the disk mounted, which would erase    *)
(* what was copied: whatever ways through the manager's turns are taken,    *)
(* one of which leaves the disk mounted and forgets it (no space left).     *)
NasNotErased == ~erased

(* A day gets its mark, after which it is never looked at again, only when  *)
(* every recording that the pass had listed is on the disk or was given up  *)
(* for a reason of its own in this very pass: no camera, no source, stopped *)
(* within its copy.  What was entered after the list was read, or cut short *)
(* by a failed write, a reboot or an unmounted disk, is lost to the disk    *)
(* all the same.                                                            *)
MarkedMeansTried ==
  [][\A d \in marked' \ marked :
       \A f \in 1 .. sync.total : copy[d][f] # "no"]_nasVars
=============================================================================
