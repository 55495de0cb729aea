------------------------------ MODULE VideoFiles ------------------------------
(***************************************************************************)
(* The video.ini files the system rewrites: the admin PC's, by the         *)
(* spectator service, and a rig's, by every launch of the agent            *)
(* (sled/launcher.py).  Both PCs start from the same file.                 *)
(***************************************************************************)
EXTENDS Spectator

CONSTANTS MaxLines  \* bound: lines of a video.ini

VARIABLES rig_video  \* video.ini of the rig

fileVars == <<spectatorVars, rig_video>>

\* The section headers, forced keys and other lines of the owners' files.
OwnLines ==
  {<<Header, "VIDEO">>, <<Header, "POST_PROCESS">>, <<Header, "AUDIO">>,
   <<"FULLSCREEN", "1">>, <<"FULLSCREEN", "0">>, <<"FILTER", "own">>,
   <<"REFRESH", "60">>}
AllLines == OwnLines \cup ForcedLines
VideoFile == UNION {[1..n -> OwnLines] : n \in 0..MaxLines}

FilesInit == SpectatorInit /\ rig_video = owner

\* launch_ac forces Pure into video.ini, if there is one, before each race.
LaunchAC ==
  /\ rig_video # None
  /\ rig_video' \in {EnsurePure(rig_video), rig_video}
  /\ UNCHANGED spectatorVars

FilesNext ==
  \/ /\ \/ \E t \in Joinable : LaunchBegins(t)
        \/ LaunchGoesOn \/ Kill \/ SpectatorExits \/ SpectatorForgotten
     /\ UNCHANGED rig_video
  \/ LaunchAC

FilesSpec == FilesInit /\ [][FilesNext]_fileVars

FilesTypeOK ==
  /\ SpectatorTypeOK
  /\ {video, backup, rig_video} \subseteq Seq(Lines) \cup {None}

\* A rig that is launched again and again keeps its own display settings: its
\* video.ini has Pure's values and everything else as it was
\* (launcher.py:485-571, "all other keys are left alone").
RigKeepsOwnSettings ==
  rig_video # None => rig_video = owner \/ MergedFrom(rig_video, owner, RigForced)
==============================================================================
