---------------------------- MODULE LeaderboardDB ----------------------------
(***************************************************************************)
(* The two SQLite tables of services/leaderboard_db.py: laps, one row per  *)
(* captured lap, and session_best, one row per (rig, session).             *)
(*                                                                         *)
(* Car, track, group name and time stamp of a row are left out: no         *)
(* property is about them.  A session id is a group id.                    *)
(***************************************************************************)
EXTENDS Integers, Sequences

CONSTANTS
  RigIds,     \* rig identifiers
  GroupIds,   \* group identifiers, which are the session ids
  Drivers,    \* display names of drivers
  None        \* SQL NULL and Python None

VARIABLES
  laps,          \* the laps table, in insertion order
  session_best   \* the session_best table: (rig, session) -> row or None

dbVars == <<laps, session_best>>

LapEntry ==
  [rig_id: RigIds, driver_name: Drivers \cup {None},
   session_id: GroupIds \cup {None}, lap: Nat, lap_time_ms: Nat \cup {None}]
BestRow ==
  [driver_name: Drivers \cup {None}, lap: Nat, lap_time_ms: Nat \cup {None}]

\* NULL is none of the values a column holds.
ASSUME NoneAssumption ==
  None \notin GroupIds /\ None \notin Drivers /\ None \notin Nat
  /\ None \notin BestRow

Timed(t) == t # None /\ t > 0

\* Faulty variant: the latest positive time instead of the smallest.
LatestTime(old, new) == IF Timed(new) THEN new ELSE old

\* The CASE expression of the upsert: keep the smaller positive time.
BestTime(old, new) ==
  IF ~Timed(old) \/ (Timed(new) /\ new < old) THEN new ELSE old
MaxOf(a, b) == IF a < b THEN b ELSE a
Coalesce(a, b) == IF a = None THEN b ELSE a

\* INSERT ... ON CONFLICT(rig_id, session_id) DO UPDATE.
UpsertedBest(row, e) ==
  IF row = None
    THEN [driver_name |-> e.driver_name, lap |-> e.lap,
          lap_time_ms |-> e.lap_time_ms]
    ELSE [driver_name |-> Coalesce(e.driver_name, row.driver_name),
          lap |-> MaxOf(row.lap, e.lap),
          lap_time_ms |-> BestTime(row.lap_time_ms, e.lap_time_ms)]

\* upsert_session_best; a lap driven outside any group has no session.
WithBest(best, e) ==
  IF e.session_id = None THEN best
  ELSE [best EXCEPT ![<<e.rig_id, e.session_id>>] = UpsertedBest(@, e)]

\* Faulty variant: the best row is committed before the lap.
RecordBestFirst(e) ==
  \/ UNCHANGED dbVars
  \/ /\ session_best' = WithBest(session_best, e)
     /\ laps' \in {laps, Append(laps, e)}
\* add_leaderboard_entry, then upsert_session_best.  Each opens a connection
\* and commits by itself: a locked database or a full disk raises in either,
\* and the process may end between them, with the lap stored alone.
Record(e) ==
  \/ UNCHANGED dbVars
  \/ /\ laps' = Append(laps, e)
     /\ session_best' \in {session_best, WithBest(session_best, e)}

SessionUsed(g) ==
  \/ \E i \in DOMAIN laps : laps[i].session_id = g
  \/ \E r \in RigIds : session_best[<<r, g>>] # None

DBInit ==
  /\ laps = <<>>
  /\ session_best = [k \in RigIds \X GroupIds |-> None]

DBTypeOK ==
  /\ laps \in Seq(LapEntry)
  /\ session_best \in [RigIds \X GroupIds -> BestRow \cup {None}]
==============================================================================
