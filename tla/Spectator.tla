------------------------------ MODULE Spectator -------------------------------
(***************************************************************************)
(* The spectator window on the admin PC (orchestrator/services/            *)
(* spectator.py): a game that joins a group's server with reduced video    *)
(* settings.  The operator's video.ini is copied to a backup before it is  *)
(* rewritten and is to be put back afterwards.                             *)
(*                                                                         *)
(* launch and kill hold the service's lock; launch is cut where the        *)
(* process can die between two file operations.  Every file is written in  *)
(* place: a full disk or a crash cuts it short, here between two lines.    *)
(***************************************************************************)
EXTENDS VideoIni

CONSTANTS
  Lines,     \* what a line of a video.ini may be
  Files,     \* what the operator's video.ini may hold when the system starts
  Joinable,  \* what the router may ask the spectator to join
  None       \* Python's None; no file

ASSUME FilesAssumption == Files \subseteq Seq(Lines) /\ ForcedLines \subseteq Lines

VARIABLES
  owner,            \* the operator's own video.ini
  video,            \* video.ini
  backup,           \* video.ini.spectator_backup
  backup_cut,       \* history: a write of the backup was cut short
  video_cut,        \* history: so was the write video.ini comes from
  joined,           \* the [REMOTE] section of the admin PC's race.ini
  process,          \* SpectatorService._process still runs
  stray,            \* a game of an earlier orchestrator process still runs
  active_group_id,  \* SpectatorService._active_group_id
  launching         \* the launch in progress: its step and its target

spectatorVars ==
  <<owner, video, backup, backup_cut, video_cut, joined, process, stray,
    active_group_id, launching>>
videoVars == <<video, backup, backup_cut, video_cut>>

NoLaunch == [step |-> "none", to |-> None]

SpectatorTypeOK ==
  /\ owner \in Files \cup {None}
  /\ joined \in Joinable \cup {None}
  /\ backup_cut \in BOOLEAN /\ video_cut \in BOOLEAN
  /\ process \in BOOLEAN /\ stray \in BOOLEAN
  /\ active_group_id \in Joinable \cup {None}
  /\ launching \in {NoLaunch} \cup [step : {"merge", "start"}, to : Joinable]

SpectatorInit ==
  /\ owner \in Files \cup {None}
  /\ video = owner
  /\ backup = None
  /\ backup_cut = FALSE /\ video_cut = FALSE
  /\ joined = None
  /\ process = FALSE /\ stray = FALSE
  /\ active_group_id = None
  /\ launching = NoLaunch
------------------------------------------------------------------------------
Unlocked == launching = NoLaunch

\* _kill_process ends the process and, by name, every other game on the PC.
KillProcess ==
  /\ process' = FALSE
  /\ stray' = FALSE
  /\ active_group_id' = None

\* Faulty variant: the backup is always renewed.
BackUpAgain == video
\* A backup is made only if there is none: video.ini may be reduced already.
BackUp == IF backup = None THEN video ELSE backup

\* What a write that is cut short leaves: the file was truncated first.
Cut(lines) == {SubSeq(lines, 1, n) : n \in 0..(Len(lines) - 1)}

\* There is a backup, or video.ini is copied to a new one.
BacksUp ==
  /\ video # None
  /\ backup' = BackUp
  /\ UNCHANGED backup_cut

\* The write of the backup is cut short; the next launch finds one that exists.
BackUpCut ==
  /\ video # None /\ backup = None
  /\ backup' \in Cut(video)
  /\ backup_cut' = TRUE

\* Faulty variant: the running spectator is left alone.
LaunchBesideRunning(t) ==
  /\ Unlocked
  /\ BacksUp
  /\ launching' = [step |-> "start", to |-> t]
  /\ UNCHANGED <<owner, video, video_cut, joined, process, stray, active_group_id>>
\* A running spectator is ended first.  Without a video.ini, or if it cannot
\* be read or the backup not be written, it is left as it is.
LaunchBegins(t) ==
  /\ Unlocked
  /\ IF process THEN KillProcess
     ELSE UNCHANGED <<process, stray, active_group_id>>
  /\ \/ BacksUp /\ launching' = [step |-> "merge", to |-> t]
     \/ /\ BackUpCut \/ UNCHANGED <<backup, backup_cut>>
        /\ launching' = [step |-> "start", to |-> t]
  /\ UNCHANGED <<owner, video, video_cut, joined>>

WriteLowQuality ==
  /\ launching.step = "merge"
  /\ \/ video' \in {LowQuality(video), video} /\ UNCHANGED video_cut
     \/ video' \in Cut(LowQuality(video)) /\ video_cut' = TRUE
  /\ launching' = [launching EXCEPT !.step = "start"]
  /\ UNCHANGED <<owner, backup, backup_cut, joined, process, stray, active_group_id>>

\* Faulty variant: the target of the launch is not forgotten.
LaunchGivesUpLocked ==
  /\ launching.step = "start"
  /\ joined' \in {joined, launching.to}
  /\ launching' = [launching EXCEPT !.step = "none"]
  /\ UNCHANGED <<owner, videoVars, process, stray, active_group_id>>
\* race.ini cannot be written, or there is no acs.exe: no restore.
LaunchGivesUp ==
  /\ launching.step = "start"
  /\ joined' \in {joined, launching.to}
  /\ launching' = NoLaunch
  /\ UNCHANGED <<owner, videoVars, process, stray, active_group_id>>

\* _restore_video_ini: copy the backup over video.ini and remove it; a failure
\* of either leaves the backup.
Restore ==
  IF backup = None THEN UNCHANGED videoVars
  ELSE /\ \/ video' = backup /\ video_cut' = FALSE /\ backup' \in {None, backup}
          \/ video' \in Cut(backup) /\ video_cut' = TRUE /\ UNCHANGED backup
          \/ UNCHANGED <<video, video_cut, backup>>
       /\ UNCHANGED backup_cut

\* Popen fails: the video settings are put back.
LaunchFails ==
  /\ launching.step = "start"
  /\ joined' = launching.to
  /\ Restore
  /\ launching' = NoLaunch
  /\ UNCHANGED <<owner, process, stray, active_group_id>>

LaunchSucceeds ==
  /\ launching.step = "start"
  /\ joined' = launching.to
  /\ process' = TRUE
  /\ active_group_id' = launching.to
  /\ launching' = NoLaunch
  /\ UNCHANGED <<owner, videoVars, stray>>

\* A spectator that has already ended is not restored after.  The service
\* offers kill; today's router shadows the only route to it (server.py:188
\* matches POST /spectate/stop before line 230).
Kill ==
  /\ Unlocked
  /\ IF process
       THEN KillProcess /\ Restore
       ELSE /\ active_group_id' = None
            /\ UNCHANGED <<process, stray, videoVars>>
  /\ UNCHANGED <<owner, joined, launching>>

\* The operator closes the window, or the game ends by itself.
SpectatorExits ==
  /\ process' \in {process, FALSE} /\ stray' \in {stray, FALSE}
  /\ UNCHANGED <<owner, videoVars, joined, active_group_id, launching>>

\* The orchestrator dies, possibly in the middle of a launch: it forgets the
\* process, which runs on.
SpectatorForgotten ==
  /\ stray' = (stray \/ process)
  /\ process' = FALSE
  /\ active_group_id' = None
  /\ launching' = NoLaunch
  /\ UNCHANGED <<owner, videoVars, joined>>

LaunchGoesOn ==
  WriteLowQuality \/ LaunchGivesUp \/ LaunchFails \/ LaunchSucceeds
------------------------------------------------------------------------------
\* The operator's video settings survive everything but one write: whatever
\* fails, ends by itself or crashes, and wherever a write of video.ini is cut
\* short, they are in the backup, or there is none and video.ini has them,
\* unless a write of the backup was cut: that backup is kept, and restored
\* (spectator.py:155-301).
SettingsRecoverable ==
  backup_cut \/ backup = owner \/ (backup = None /\ video = owner)

\* However often it is rewritten, by relaunches and after failed restores,
\* the reduced video.ini is the operator's with the forced values, until a
\* write is cut and again once the file has been restored
\* (spectator.py:217-299).
ReducedFromOwners ==
  video # None /\ ~backup_cut /\ ~video_cut
    => video = owner \/ MergedFrom(video, owner, SpectatorForced)

\* A spectator that runs watches the group the service names: no launch that
\* fails half-way has rewritten race.ini under it (spectator.py:437-511).
WatchesActiveGroup == process => active_group_id = joined
==============================================================================
