-------------------------- MODULE LeaderboardProofs ---------------------------
(***************************************************************************)
(* The two tables of the leaderboard under maintenance, for every set of   *)
(* rigs, sessions and drivers, any telemetry and any commits that fail:    *)
(* session_best shows nothing that was not driven until a record is        *)
(* deleted, and nothing worse than a lap that is left and was not cut.     *)
(***************************************************************************)
EXTENDS Leaderboard, RigRegistryProofs

\* BestIsNoWorse for one lap.
NoWorse(best, e) ==
  e.session_id # None =>
    LET row == best[<<e.rig_id, e.session_id>>]
    IN /\ row # None /\ e.lap <= row.lap
       /\ Timed(e.lap_time_ms) =>
            Timed(row.lap_time_ms) /\ row.lap_time_ms <= e.lap_time_ms

BoardInv == TypeOK /\ deleted \in BOOLEAN /\ DrivenUntilDeleted /\ BestIsNoWorse

LEMMA NoWorseForm ==
  /\ BestIsNoWorse <=>
       \A i \in DOMAIN laps : laps[i] \in lost \/ NoWorse(session_best, laps[i])
  /\ BestIsNoWorse' <=>
       \A i \in DOMAIN laps' : laps'[i] \in lost' \/ NoWorse(session_best', laps'[i])
BY DEF BestIsNoWorse, NoWorse
------------------------------------------------------------------------------
(***************************************************************************)
(* Storing a lap.                                                          *)
(***************************************************************************)

\* The CASE expression of the upsert returns a time no slower than either.
LEMMA BestTimeBounds ==
  ASSUME NEW a \in Nat \cup {None}, NEW b \in Nat \cup {None}
  PROVE  /\ Timed(a) => Timed(BestTime(a, b)) /\ BestTime(a, b) <= a
         /\ Timed(b) => Timed(BestTime(a, b)) /\ BestTime(a, b) <= b
BY NoneAssumption DEF BestTime, Timed

\* A row no worse than a lap or another row.
Covers(new, old) ==
  /\ new # None /\ old.lap <= new.lap
  /\ Timed(old.lap_time_ms) =>
       Timed(new.lap_time_ms) /\ new.lap_time_ms <= old.lap_time_ms

\* The upserted row covers the row it replaces and the lap inserted.
LEMMA UpsertCovers ==
  ASSUME NEW row \in BestRow \cup {None}, NEW e \in LapEntry
  PROVE  /\ Covers(UpsertedBest(row, e), e)
         /\ row # None => Covers(UpsertedBest(row, e), row)
<1> DEFINE new == UpsertedBest(row, e)
<1>1. /\ e.lap_time_ms \in Nat \cup {None} /\ e.lap \in Nat /\ new # None
  BY UpsertedRowType, NoneAssumption DEF LapEntry
<1>2. CASE row = None
  <2>1. new.lap_time_ms = e.lap_time_ms /\ new.lap = e.lap
    BY <1>2 DEF UpsertedBest
  <2> HIDE DEF new
  <2>2. Covers(new, e)
    BY <1>1, <2>1, NoneAssumption DEF Timed, Covers
  <2> QED
    BY <1>2, <2>2 DEF new
<1>3. CASE row # None
  <2>1. row.lap_time_ms \in Nat \cup {None} /\ row.lap \in Nat
    BY <1>3 DEF BestRow
  <2>2. /\ new.lap_time_ms = BestTime(row.lap_time_ms, e.lap_time_ms)
        /\ new.lap = MaxOf(row.lap, e.lap)
    BY <1>3 DEF UpsertedBest
  <2> HIDE DEF new
  <2>3. row.lap <= new.lap /\ e.lap <= new.lap
    BY <1>1, <2>1, <2>2 DEF MaxOf
  <2>4. Covers(new, e) /\ Covers(new, row)
    BY <1>1, <2>1, <2>2, <2>3, BestTimeBounds DEF Covers
  <2> QED
    BY <2>4 DEF new
<1> QED
  BY <1>2, <1>3

LEMMA CoversTransitive ==
  ASSUME NEW new \in BestRow, NEW row \in BestRow, NEW x \in LapEntry,
         Covers(new, row), Covers(row, x)
  PROVE  Covers(new, x)
<1>1. /\ new.lap \in Nat /\ row.lap \in Nat /\ x.lap \in Nat
      /\ new.lap_time_ms \in Nat \cup {None} /\ row.lap_time_ms \in Nat \cup {None}
      /\ x.lap_time_ms \in Nat \cup {None}
  BY DEF BestRow, LapEntry
<1> QED
  BY <1>1 DEF Covers, Timed

\* An upsert leaves every lap covered that was, and covers its own.
LEMMA WithBestNoWorse ==
  ASSUME DBTypeOK, NEW e \in LapEntry, NEW x \in LapEntry,
         NoWorse(session_best, x) \/ x = e
  PROVE  NoWorse(WithBest(session_best, e), x)
<1> SUFFICES ASSUME x.session_id # None
             PROVE  Covers(WithBest(session_best, e)[<<x.rig_id, x.session_id>>], x)
  BY DEF NoWorse, Covers
<1> DEFINE row == session_best[<<x.rig_id, x.session_id>>]
           new == WithBest(session_best, e)[<<x.rig_id, x.session_id>>]
<1>1. /\ x.rig_id \in RigIds /\ x.session_id \in GroupIds
      /\ row \in BestRow \cup {None}
  BY DEF LapEntry, DBTypeOK
<1>2. x # e => Covers(row, x) /\ row \in BestRow
  BY <1>1 DEF NoWorse, Covers
<1>3. new = IF e.rig_id = x.rig_id /\ e.session_id = x.session_id
              THEN UpsertedBest(row, e) ELSE row
  BY <1>1, WithBestRows
<1> DEFINE up == UpsertedBest(row, e)
<1>4. /\ Covers(up, e) /\ up \in BestRow
      /\ row # None => Covers(up, row)
  BY <1>1, UpsertCovers, UpsertedRowType
<1>5. new \in {up, row} /\ (x = e => new = up)
  BY <1>3
<1> HIDE DEF row, new, up
<1>6. x = e => Covers(new, x)
  BY <1>4, <1>5
<1>7. x # e => Covers(new, x)
  <2> HAVE x # e
  <2>1. row \in BestRow /\ Covers(row, x) /\ row # None
    BY <1>2 DEF Covers
  <2>2. Covers(up, x)
    BY <1>4, <2>1, CoversTransitive
  <2> QED
    BY <1>5, <2>1, <2>2
<1>8. Covers(new, x)
  BY <1>6, <1>7
<1> QED
  BY <1>8 DEF new

\* Storing a lap, or failing to, and noting what was cut.
LEMMA RecordNoWorse ==
  ASSUME DBTypeOK, BestIsNoWorse, NEW e \in LapEntry, Record(e), NoteLost
  PROVE  BestIsNoWorse'
<1> SUFFICES ASSUME NEW i \in DOMAIN laps'
             PROVE  laps'[i] \in lost' \/ NoWorse(session_best', laps'[i])
  BY NoWorseForm
<1>1. laps \in Seq(LapEntry) /\ Len(laps) \in Nat
  BY LenProperties DEF DBTypeOK
<1>2. CASE UNCHANGED dbVars
  <2>1. i \in DOMAIN laps /\ laps'[i] = laps[i] /\ laps'[i] \in Range(laps')
    BY <1>2 DEF dbVars, Range
  <2>2. laps[i] \in lost \/ NoWorse(session_best, laps[i])
    BY <2>1, NoWorseForm
  <2>3. laps[i] \in lost => laps'[i] \in lost'
    BY <2>1 DEF NoteLost
  <2> QED
    BY <1>2, <2>1, <2>2, <2>3 DEF dbVars, NoWorse
<1>3. CASE /\ laps' = Append(laps, e)
           /\ session_best' \in {session_best, WithBest(session_best, e)}
  <2>1. /\ Len(laps') = Len(laps) + 1 /\ laps'[Len(laps')] = e
        /\ laps' \in Seq(LapEntry) /\ laps'[i] \in Range(laps')
        /\ laps'[i] \in LapEntry
        /\ laps'[i] = e \/ (i \in DOMAIN laps /\ laps'[i] = laps[i])
    BY <1>1, <1>3, ElementOfSeq DEF Range
  <2>2. lost' = {x \in Range(laps') : x \in lost \/
                   (session_best' # WithBest(session_best, e) /\ x = e)}
    BY <1>1, <2>1 DEF NoteLost
  <2>3. CASE laps'[i] \in lost
    BY <2>1, <2>2, <2>3
  <2>4. CASE laps'[i] \notin lost /\ laps'[i] = e
    <3>1. session_best' # WithBest(session_best, e) => laps'[i] \in lost'
      BY <2>1, <2>2, <2>4
    <3>2. NoWorse(WithBest(session_best, e), e)
      BY WithBestNoWorse
    <3> QED
      BY <2>4, <3>1, <3>2
  <2>5. CASE laps'[i] \notin lost /\ laps'[i] # e
    <3>1. NoWorse(session_best, laps'[i])
      BY <2>1, <2>5, NoWorseForm
    <3>2. NoWorse(WithBest(session_best, e), laps'[i])
      BY <2>1, <3>1, WithBestNoWorse
    <3> QED
      BY <1>3, <3>1, <3>2
  <2> QED
    BY <2>3, <2>4, <2>5
<1> QED
  BY <1>2, <1>3 DEF Record
------------------------------------------------------------------------------
(***************************************************************************)
(* The steps of the maintenance, and the registry's.                       *)
(***************************************************************************)

\* A lap is stored, half stored or not at all.
LEMMA RecordInv ==
  ASSUME BoardInv, NEW e \in LapEntry, Record(e), NoteLost, TypeOK',
         UNCHANGED deleted
  PROVE  BoardInv'
<1>1. DrivenUntilDeleted'
  BY RecordKeepsDriven DEF BoardInv, DrivenUntilDeleted, TypeOK
<1>2. BestIsNoWorse'
  BY RecordNoWorse DEF BoardInv, TypeOK
<1> QED
  BY <1>1, <1>2 DEF BoardInv

LEMMA ClearInv == ASSUME BoardInv, ClearLeaderboard PROVE BoardInv'
<1>1. TypeOK'
  BY DEF BoardInv, TypeOK, DBTypeOK, ClearLeaderboard, NoBest
<1>2. /\ \A r \in RigIds, g \in GroupIds : session_best'[<<r, g>>] = None
      /\ laps' = <<>> /\ DOMAIN laps' = {}
  BY DEF ClearLeaderboard, NoBest
<1>3. BestWasDriven'
  BY <1>2, DrivenForm DEF DrivenIn
<1>4. BestIsNoWorse'
  BY <1>2, NoWorseForm
<1> QED
  BY <1>1, <1>3, <1>4 DEF BoardInv, DrivenUntilDeleted, ClearLeaderboard

\* A deleted record leaves rows that were there before, each with its best.
LEMMA DeleteInv ==
  ASSUME BoardInv, NEW i \in DOMAIN laps, DeleteRecord(i), NoteLost
  PROVE  BoardInv'
<1>1. /\ laps \in Seq(LapEntry) /\ Len(laps) \in Nat /\ i \in 1..Len(laps)
      /\ laps' = RemoveAt(laps, i) /\ UNCHANGED session_best
  BY LenProperties DEF BoardInv, TypeOK, DBTypeOK, DeleteRecord
<1>2. /\ laps' \in Seq(LapEntry)
      /\ Len(laps') = Len(laps) - 1
      /\ \A j \in 1..Len(laps) - 1 : laps'[j] = IF j < i THEN laps[j] ELSE laps[j + 1]
  BY <1>1, RemoveAtProperties
<1>3. TypeOK'
  BY <1>1, <1>2 DEF BoardInv, TypeOK, DBTypeOK, DeleteRecord
<1>4. lost' = {x \in Range(laps') : x \in lost}
  BY <1>1, <1>2 DEF NoteLost
<1>5. ASSUME NEW j \in DOMAIN laps'
      PROVE  laps'[j] \in lost' \/ NoWorse(session_best', laps'[j])
  <2>1. j \in 1..Len(laps) - 1 /\ laps'[j] \in Range(laps')
    BY <1>1, <1>2, LenProperties DEF Range
  <2>2. PICK k \in DOMAIN laps : laps'[j] = laps[k]
    <3>1. j \in 1..Len(laps) /\ j + 1 \in 1..Len(laps)
      BY <1>1, <2>1
    <3> QED
      BY <1>1, <1>2, <2>1, <3>1, LenProperties
  <2>3. laps[k] \in lost \/ NoWorse(session_best, laps[k])
    BY NoWorseForm DEF BoardInv
  <2> QED
    BY <1>1, <1>4, <2>1, <2>2, <2>3
<1> QED
  BY <1>3, <1>5, NoWorseForm DEF BoardInv, DrivenUntilDeleted, DeleteRecord

LEMMA AddTestLapInv ==
  ASSUME BoardInv, NEW r \in RigIds, NEW d \in Drivers, NEW g \in GroupIds,
         AddTestLap(r, d, g), NoteLost
  PROVE  BoardInv'
<1>1. PICK lap \in LapCounts, t \in LapTimes \ {0} :
        Record([rig_id |-> r, driver_name |-> d, session_id |-> g,
                lap |-> lap, lap_time_ms |-> t])
  BY DEF AddTestLap
<1>2. lap \in Nat /\ t \in Nat
  BY RegistryAssumption
<1>3. [rig_id |-> r, driver_name |-> d, session_id |-> g,
       lap |-> lap, lap_time_ms |-> t] \in LapEntry
  BY <1>2 DEF LapEntry
<1>4. TypeOK'
  BY <1>1, <1>3, RecordType DEF BoardInv, TypeOK, AddTestLap
<1> QED
  BY <1>1, <1>3, <1>4, RecordInv DEF AddTestLap

\* The registry's steps write to the tables by storing laps only.
LEMMA RegistryInv ==
  ASSUME BoardInv, [Next]_vars, NoteLost, UNCHANGED deleted
  PROVE  BoardInv'
<1>1. TypeOK'
  BY NextType DEF BoardInv
<1>2. CASE \E e \in LapEntry : Record(e)
  BY <1>1, <1>2, RecordInv
<1>3. CASE UNCHANGED dbVars
  <2>1. BestIsNoWorse'
    <3>1. laps' = laps /\ session_best' = session_best /\ Len(laps) \in Nat
      BY <1>3, LenProperties DEF dbVars, BoardInv, TypeOK, DBTypeOK
    <3>2. lost' = {x \in Range(laps') : x \in lost}
      BY <3>1 DEF NoteLost
    <3>3. ASSUME NEW i \in DOMAIN laps
          PROVE  laps[i] \in lost' \/ NoWorse(session_best, laps[i])
      BY <3>1, <3>2, NoWorseForm DEF BoardInv, Range
    <3> QED
      BY <3>1, <3>3, NoWorseForm
  <2>2. DrivenUntilDeleted'
    BY <1>3, DrivenForm DEF dbVars, BoardInv, DrivenUntilDeleted
  <2> QED
    BY <1>1, <2>1, <2>2 DEF BoardInv
<1> QED
  BY <1>2, <1>3, TablesStep DEF BoardInv

LEMMA BoardInitInv == BoardInit => BoardInv
<1> SUFFICES ASSUME BoardInit PROVE BoardInv
  OBVIOUS
<1>1. TypeOK
  BY InitType DEF BoardInit
<1>2. BestWasDriven
  BY DrivenForm DEF BoardInit, Init, DBInit, DrivenIn
<1>3. BestIsNoWorse
  BY DEF BestIsNoWorse, BoardInit, Init, DBInit
<1> QED
  BY <1>1, <1>2, <1>3 DEF BoardInv, DrivenUntilDeleted, BoardInit

LEMMA BoardNextInv == BoardInv /\ [BoardNext]_boardVars => BoardInv'
<1> SUFFICES ASSUME BoardInv, [BoardNext]_boardVars PROVE BoardInv'
  OBVIOUS
<1>1. CASE Maintenance /\ NoteLost
  BY <1>1, ClearInv, DeleteInv, AddTestLapInv DEF Maintenance
<1>2. CASE Next /\ NoteLost /\ UNCHANGED deleted
  BY <1>2, RegistryInv
<1>3. CASE UNCHANGED boardVars
  BY <1>3, DrivenForm, NoWorseForm DEF boardVars, vars, BoardInv, TypeOK,
     DBTypeOK, DrivenUntilDeleted, NoWorse
<1> QED
  BY <1>1, <1>2, <1>3 DEF BoardNext

LEMMA BoardInvHolds == BoardSpec => []BoardInv
BY BoardInitInv, BoardNextInv, PTL DEF BoardSpec
------------------------------------------------------------------------------
\* Until a record is deleted the time and the lap count of every session_best
\* row are those of stored laps, whatever commits fail, whatever is tested
\* and cleared (leaderboard_db.py:66-160).
THEOREM AlwaysDrivenUntilDeleted == BoardSpec => []DrivenUntilDeleted
<1>1. BoardInv => DrivenUntilDeleted
  BY DEF BoardInv
<1> QED
  BY <1>1, BoardInvHolds, PTL

\* Whatever records are deleted and commits fail, no lap of a session that is
\* left beats its best row unless its own second commit never happened
\* (leaderboard_db.py:88-160).
THEOREM BestIsAlwaysNoWorse == BoardSpec => []BestIsNoWorse
<1>1. BoardInv => BestIsNoWorse
  BY DEF BoardInv
<1> QED
  BY <1>1, BoardInvHolds, PTL
==============================================================================
