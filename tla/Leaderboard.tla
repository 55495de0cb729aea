----------------------------- MODULE Leaderboard ------------------------------
(***************************************************************************)
(* Maintenance of the leaderboard (routers/leaderboard.py,                 *)
(* services/leaderboard_db.py) beside the lap capture of the registry:     *)
(* records deleted one by one, the whole board cleared, and test laps.     *)
(*                                                                         *)
(* The pages read session_best, the table that is derived from laps lap by *)
(* lap in a commit of its own; nothing ever derives it again.              *)
(***************************************************************************)
EXTENDS RigRegistry

VARIABLES
  deleted,  \* history: a record was deleted since the board was last cleared
  lost      \* history: laps of the table stored without their effect on session_best

boardVars == <<vars, deleted, lost>>

BoardInit == Init /\ deleted = FALSE /\ lost = {}

\* A step that stores a lap either brings session_best up to date or not.
NoteLost ==
  LET e == laps'[Len(laps')]
      cut == Len(laps') > Len(laps) /\ session_best' # WithBest(session_best, e)
  IN lost' = {x \in Range(laps') : x \in lost \/ (cut /\ x = e)}
------------------------------------------------------------------------------
NoBest == [k \in RigIds \X GroupIds |-> None]

\* DELETE /leaderboard empties both tables in one commit and then raises:
\* state.leaderboard has no setter.  The counters of the rigs stay.
ClearLeaderboard ==
  /\ laps' = <<>>
  /\ session_best' = NoBest
  /\ deleted' = FALSE
  /\ UNCHANGED <<rigs, groups, tasks>>

\* DELETE /leaderboard/{record_id} leaves session_best as it is.
DeleteRecord(i) ==
  /\ laps' = RemoveAt(laps, i)
  /\ deleted' = TRUE
  /\ UNCHANGED <<rigs, groups, tasks, session_best>>

\* POST /leaderboard/test_lap: a lap of a session of its own, of a group that
\* does not exist.
AddTestLap(r, d, g) ==
  /\ Len(laps) < MaxLaps /\ FreshGroupId(g)
  /\ \E lap \in LapCounts, t \in LapTimes \ {0} :
       Record([rig_id |-> r, driver_name |-> d, session_id |-> g,
               lap |-> lap, lap_time_ms |-> t])
  /\ UNCHANGED <<rigs, groups, tasks, deleted>>

Maintenance ==
  \/ ClearLeaderboard
  \/ \E i \in DOMAIN laps : DeleteRecord(i)
  \/ \E r \in RigIds, d \in Drivers, g \in GroupIds : AddTestLap(r, d, g)

BoardNext == (Maintenance \/ (Next /\ UNCHANGED deleted)) /\ NoteLost

BoardSpec == BoardInit /\ [][BoardNext]_boardVars
------------------------------------------------------------------------------
(***************************************************************************)
(* Properties.                                                             *)
(***************************************************************************)

\* The pages show no time and no lap count that was not driven: until a
\* record is deleted every session_best row has its lap in laps, through cut
\* captures, restarts, test laps and a cleared board
\* (leaderboard_db.py:66-160).
DrivenUntilDeleted == ~deleted => BestWasDriven

\* What is lost is only what was cut: however records are deleted
\* ("Does not affect session_best for simplicity", leaderboard_db.py:146),
\* captures fail and laps are captured afterwards, no lap that is left beats
\* its best row unless its own second commit never happened.
BestIsNoWorse ==
  \A i \in DOMAIN laps :
    laps[i].session_id # None /\ laps[i] \notin lost =>
      LET row == session_best[<<laps[i].rig_id, laps[i].session_id>>]
      IN /\ row # None /\ laps[i].lap <= row.lap
         /\ Timed(laps[i].lap_time_ms) =>
              Timed(row.lap_time_ms) /\ row.lap_time_ms <= laps[i].lap_time_ms
==============================================================================
