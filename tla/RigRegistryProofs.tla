-------------------------- MODULE RigRegistryProofs --------------------------
(***************************************************************************)
(* Machine-checked proofs about RigRegistry, for any rigs, groups, cars,   *)
(* timeouts and bounds.                                                    *)
(***************************************************************************)
EXTENDS RigRegistry, SequenceTheorems, WellFoundedInduction, TLAPS

(***************************************************************************)
(* Sequences: what RemoveAt and RemoveFirst leave.                         *)
(***************************************************************************)

\* list.pop(i): every other element stays, in order.
LEMMA RemoveAtProperties ==
  ASSUME NEW S, NEW s \in Seq(S), NEW i \in 1..Len(s)
  PROVE  /\ RemoveAt(s, i) \in Seq(S)
         /\ Len(RemoveAt(s, i)) = Len(s) - 1
         /\ \A j \in 1..Len(s) - 1 :
              RemoveAt(s, i)[j] = IF j < i THEN s[j] ELSE s[j + 1]
<1> DEFINE front == SubSeq(s, 1, i - 1)
           back == SubSeq(s, i + 1, Len(s))
<1>1. Len(s) \in Nat /\ \A j \in 1..Len(s) : s[j] \in S
  BY LenProperties, ElementOfSeq
<1>2. /\ front \in Seq(S)
      /\ Len(front) = i - 1
      /\ \A j \in 1..i - 1 : front[j] = s[j]
  <2>1. \A j \in 1..i - 1 : s[j] \in S
    BY <1>1
  <2>2. /\ SubSeq(s, 1, i - 1) \in Seq(S)
        /\ Len(SubSeq(s, 1, i - 1)) =
             IF 1 <= i - 1 THEN i - 1 - 1 + 1 ELSE 0
        /\ \A j \in 1..i - 1 - 1 + 1 : SubSeq(s, 1, i - 1)[j] = s[1 + j - 1]
    BY <1>1, <2>1, SubSeqProperties
  <2> QED BY <1>1, <2>2
<1>3. /\ back \in Seq(S)
      /\ Len(back) = Len(s) - i
      /\ \A j \in 1..Len(s) - i : back[j] = s[j + i]
  <2>1. \A j \in i + 1..Len(s) : s[j] \in S
    BY <1>1
  <2>2. /\ SubSeq(s, i + 1, Len(s)) \in Seq(S)
        /\ Len(SubSeq(s, i + 1, Len(s))) =
             IF i + 1 <= Len(s) THEN Len(s) - (i + 1) + 1 ELSE 0
        /\ \A j \in 1..Len(s) - (i + 1) + 1 :
             SubSeq(s, i + 1, Len(s))[j] = s[i + 1 + j - 1]
    BY <1>1, <2>1, SubSeqProperties
  <2> QED BY <1>1, <2>2
<1>4. /\ front \o back \in Seq(S)
      /\ Len(front \o back) = Len(front) + Len(back)
      /\ \A j \in 1..Len(front) + Len(back) : (front \o back)[j] =
           IF j <= Len(front) THEN front[j] ELSE back[j - Len(front)]
  BY <1>2, <1>3, ConcatProperties
<1>5. RemoveAt(s, i) = front \o back
  BY DEF RemoveAt
<1> HIDE DEF front, back
<1>6. Len(front) + Len(back) = Len(s) - 1
  BY <1>1, <1>2, <1>3
<1>7. ASSUME NEW j \in 1..Len(s) - 1
      PROVE  (front \o back)[j] = IF j < i THEN s[j] ELSE s[j + 1]
  <2>1. CASE j < i
    <3>1. j \in 1..i - 1 /\ j <= Len(front)
      BY <2>1, <1>1, <1>2
    <3> QED BY <2>1, <3>1, <1>2, <1>4, <1>6
  <2>2. CASE ~(j < i)
    <3>1. j - Len(front) \in 1..Len(s) - i /\ ~(j <= Len(front))
      BY <2>2, <1>1, <1>2
    <3>2. back[j - Len(front)] = s[j - Len(front) + i]
      BY <3>1, <1>3
    <3>3. j - Len(front) + i = j + 1
      BY <1>1, <1>2
    <3> QED BY <2>2, <3>1, <3>2, <3>3, <1>4, <1>6
  <2> QED BY <2>1, <2>2
<1> QED BY <1>4, <1>5, <1>6, <1>7

\* SelectInSeq finds an occurrence of an element the sequence holds.
LEMMA FirstOccurrence ==
  ASSUME NEW S, NEW s \in Seq(S), NEW e, \E i \in 1..Len(s) : s[i] = e
  PROVE  /\ SelectInSeq(s, LAMBDA v : v = e) \in 1..Len(s)
         /\ s[SelectInSeq(s, LAMBDA v : v = e)] = e
<1> DEFINE I == {i \in 1..Len(s) : s[i] = e}
<1>1. Len(s) \in Nat /\ I # {} /\ I \subseteq Nat
  BY LenProperties
<1>2. PICK m \in I : \A n \in I : <<n, m>> \notin OpToRel(<, Nat)
  BY <1>1, NatLessThanWellFounded, WFMin
<1>3. m \in I /\ \A n \in I : m <= n
  <2>1. OpToRel(<, Nat) = {p \in Nat \X Nat : p[1] < p[2]}
    BY DEF OpToRel
  <2>2. ASSUME NEW n \in I PROVE m <= n
    <3>1. <<n, m>> \in Nat \X Nat /\ <<n, m>> \notin OpToRel(<, Nat)
      BY <1>1, <1>2
    <3>2. ~(n < m)
      BY <2>1, <3>1
    <3> QED BY <1>1, <3>2
  <2> QED BY <2>2
<1>4. Min(I) \in I
  BY <1>3 DEF Min
<1> QED BY <1>1, <1>4 DEF SelectInSeq

\* No element twice.
Distinct(s) == \A i, j \in DOMAIN s : s[i] = s[j] => i = j

\* list.remove(e) on a list without duplicates: e is gone, all else stays.
LEMMA RemoveFirstProperties ==
  ASSUME NEW S, NEW s \in Seq(S), NEW e, Distinct(s)
  PROVE  /\ RemoveFirst(s, e) \in Seq(S)
         /\ Range(RemoveFirst(s, e)) = Range(s) \ {e}
         /\ Distinct(RemoveFirst(s, e))
<1>1. Len(s) \in Nat /\ DOMAIN s = 1..Len(s)
  BY LenProperties
<1>2. CASE \E i \in 1..Len(s) : s[i] = e
  <2> DEFINE k == SelectInSeq(s, LAMBDA v : v = e)
             t == RemoveAt(s, k)
  <2>1. k \in 1..Len(s) /\ s[k] = e
    BY <1>2, FirstOccurrence
  <2>2. RemoveFirst(s, e) = t
    BY <1>2 DEF RemoveFirst
  <2> HIDE DEF k
  <2>3. /\ t \in Seq(S)
        /\ Len(t) = Len(s) - 1
        /\ \A j \in 1..Len(s) - 1 : t[j] = IF j < k THEN s[j] ELSE s[j + 1]
    BY <2>1, RemoveAtProperties
  <2> HIDE DEF t
  <2>4. DOMAIN t = 1..Len(s) - 1
    BY <2>3, LenProperties
  <2>5. Distinct(t)
    <3> SUFFICES ASSUME NEW i \in DOMAIN t, NEW j \in DOMAIN t, t[i] = t[j]
                 PROVE  i = j
      BY DEF Distinct
    <3> DEFINE up(n) == IF n < k THEN n ELSE n + 1
    <3>1. \A n \in DOMAIN t : up(n) \in DOMAIN s /\ t[n] = s[up(n)]
      BY <1>1, <2>1, <2>3, <2>4
    <3>2. up(i) = up(j)
      BY <3>1 DEF Distinct
    <3> QED BY <3>2, <2>1, <2>4, <1>1
  <2>6. ASSUME NEW x \in Range(t) PROVE x \in Range(s) \ {e}
    <3>1. PICK i \in DOMAIN t : t[i] = x
      BY <2>6 DEF Range
    <3>2. CASE i < k
      <4>1. x = s[i] /\ i \in DOMAIN s /\ i # k
        BY <3>1, <3>2, <2>1, <2>3, <2>4, <1>1
      <4> QED BY <4>1, <2>1, <1>1 DEF Range, Distinct
    <3>3. CASE ~(i < k)
      <4>1. x = s[i + 1] /\ i + 1 \in DOMAIN s /\ i + 1 # k
        BY <3>1, <3>3, <2>1, <2>3, <2>4, <1>1
      <4> QED BY <4>1, <2>1, <1>1 DEF Range, Distinct
    <3> QED BY <3>2, <3>3
  <2>7. ASSUME NEW x \in Range(s) \ {e} PROVE x \in Range(t)
    <3>1. PICK i \in DOMAIN s : s[i] = x
      BY <2>7 DEF Range
    <3>2. i # k
      BY <3>1, <2>1
    <3>3. CASE i < k
      <4>1. i \in DOMAIN t /\ t[i] = x
        BY <3>1, <3>3, <2>1, <2>3, <2>4, <1>1
      <4> QED BY <4>1 DEF Range
    <3>4. CASE i > k
      <4>1. i - 1 \in DOMAIN t /\ ~(i - 1 < k) /\ i - 1 + 1 = i
        BY <3>4, <2>1, <2>4, <1>1
      <4>2. t[i - 1] = x
        BY <4>1, <3>1, <2>3, <2>4
      <4> QED BY <4>1, <4>2 DEF Range
    <3> QED BY <3>2, <3>3, <3>4, <2>1, <1>1
  <2> QED BY <2>2, <2>3, <2>5, <2>6, <2>7
<1>3. CASE ~\E i \in 1..Len(s) : s[i] = e
  <2>1. RemoveFirst(s, e) = s
    BY <1>3 DEF RemoveFirst
  <2>2. e \notin Range(s)
    BY <1>1, <1>3 DEF Range
  <2> QED BY <2>1, <2>2
<1> QED BY <1>2, <1>3

\* list.append(e) of a new element.
LEMMA AppendNew ==
  ASSUME NEW S, NEW s \in Seq(S), NEW e \in S
  PROVE  /\ Append(s, e) \in Seq(S)
         /\ Range(Append(s, e)) = Range(s) \cup {e}
         /\ Distinct(s) /\ e \notin Range(s) => Distinct(Append(s, e))
<1>1. Len(s) \in Nat /\ DOMAIN s = 1..Len(s)
  BY LenProperties
<1>2. PICK t : t = Append(s, e)
  OBVIOUS
<1>3. /\ t \in Seq(S) /\ DOMAIN t = 1..Len(s) + 1
      /\ t[Len(s) + 1] = e
      /\ \A i \in 1..Len(s) : t[i] = s[i]
  BY <1>1, <1>2
<1>4. Range(t) = Range(s) \cup {e}
  BY <1>1, <1>3 DEF Range
<1>5. Distinct(s) /\ e \notin Range(s) => Distinct(t)
  BY <1>1, <1>3 DEF Range, Distinct
<1> QED BY <1>2, <1>3, <1>4, <1>5
------------------------------------------------------------------------------
(***************************************************************************)
(* The operators on a rig's record return a record.                        *)
(***************************************************************************)

LEMMA FreshRigType == FreshRig \in Rig
  BY RegistryAssumption DEF FreshRig, Rig, RigStatus

LEMMA UpsertedType ==
  ASSUME TypeOK, NEW r \in RigIds
  PROVE  Upserted(r) \in Rig
<1>1. CASE Known(r)
  <2>1. rigs[r] \in Rig
    BY <1>1 DEF TypeOK, Known
  <2> QED BY <1>1, <2>1, RegistryAssumption DEF Upserted, Rig
<1> QED BY <1>1, FreshRigType DEF Upserted

LEMMA WithStatusType ==
  ASSUME NEW rig \in Rig, NEW new \in RigStatus \cup {None}
  PROVE  WithStatus(rig, new) \in Rig
<1> DEFINE set == [rig EXCEPT !.status = new]
           cleared == [rig EXCEPT !.kill_requested_at = None, !.status = new]
<1>1. new # None => set \in Rig /\ cleared \in Rig
  BY DEF Rig
<1>2. CASE new = None
  BY <1>2, RegistryAssumption DEF WithStatus, Downgrade, RigStatus
<1>3. CASE new = "racing" /\ rig.kill_requested_at # None
  <2>1. WithStatus(rig, new) \in {rig, cleared}
    BY <1>3, RegistryAssumption DEF WithStatus, Downgrade, RigStatus
  <2> QED BY <1>1, <1>3, <2>1, RegistryAssumption DEF RigStatus
<1>4. CASE Downgrade(rig.status, new)
  <2>1. new \in {"idle", "setup"} /\ new # None
    BY <1>4, RegistryAssumption DEF Downgrade, RigStatus
  <2>2. WithStatus(rig, new) \in {rig, cleared}
    BY <1>4, <2>1 DEF WithStatus
  <2> QED BY <1>1, <2>1, <2>2
<1>5. CASE /\ new # None /\ ~Downgrade(rig.status, new)
           /\ ~(new = "racing" /\ rig.kill_requested_at # None)
  <2>1. WithStatus(rig, new) = set
    BY <1>5 DEF WithStatus
  <2> QED BY <1>1, <1>5, <2>1
<1> QED BY <1>2, <1>3, <1>4, <1>5

\* The fields of a posted update that the handler stores.
LEMMA UpdateFields ==
  ASSUME NEW u \in StatusUpdates
  PROVE  /\ u.status \in RigStatus \cup {None}
         /\ u.ip \in Ips
         /\ u.selected_car \in Cars \cup {Random, None}
         /\ u.completed_laps \in LapCounts \cup {0}
         /\ u.last_lap_time \in Nat \cup {None}
BY RegistryAssumption
   DEF StatusUpdates, Heartbeats, KioskPosts, DashboardPicks, Ips

LEMMA UpdatedType ==
  ASSUME TypeOK, NEW r \in RigIds, NEW u \in StatusUpdates
  PROVE  Updated(r, u) \in Rig
<1> DEFINE a == [Upserted(r) EXCEPT !.ip = u.ip]
           b == WithStatus(a, u.status)
           c == WithCar(b, u.selected_car)
<1>1. a \in Rig
  BY UpsertedType, UpdateFields DEF Rig
<1>2. b \in Rig
  BY <1>1, UpdateFields, WithStatusType
<1> HIDE DEF a, b
<1>3. c \in Rig
  BY <1>2, UpdateFields DEF WithCar, Rig
<1> HIDE DEF c
<1>4. WithLapCount(c, u.completed_laps) \in Rig
  BY <1>3, UpdateFields DEF WithLapCount, Rig
<1> QED BY <1>4 DEF Updated, a, b, c

LEMMA CommandedType ==
  ASSUME NEW rig \in Rig, NEW action, NEW status \in RigStatus \cup {None}
  PROVE  Commanded(rig, action, status) \in Rig
<1>1. WithKillStamp(rig, action) \in Rig
  BY RegistryAssumption DEF WithKillStamp, Rig
<1>2. WithoutPick(WithKillStamp(rig, action), action) \in Rig
  BY <1>1 DEF WithoutPick, Rig
<1> QED BY <1>2 DEF Commanded, Rig

LEMMA StatusOfType ==
  ASSUME NEW action
  PROVE  /\ StatusOf(action) \in {"setup", "idle", None}
         /\ StatusOfOrIdle(action) \in {"setup", "idle"}
         /\ {"setup", "idle"} \subseteq RigStatus
BY DEF StatusOf, StatusOfOrIdle, RigStatus

LEMMA AgedType ==
  ASSUME NEW rig \in Rig
  PROVE  Aged(rig) \in Rig
<1>1. /\ rig.last_seen \in 0..StaleTimeout + 1
      /\ rig.kill_requested_at \in 0..KillGuard \cup {None}
  BY DEF Rig
<1>2. Older(rig.last_seen, StaleTimeout + 1) \in 0..StaleTimeout + 1
  BY <1>1, RegistryAssumption DEF Older
<1>3. rig.kill_requested_at # None =>
        Older(rig.kill_requested_at, KillGuard) \in 0..KillGuard
  BY <1>1, RegistryAssumption DEF Older
<1> DEFINE seen == Older(rig.last_seen, StaleTimeout + 1)
           kill == IF rig.kill_requested_at = None THEN None
                   ELSE Older(rig.kill_requested_at, KillGuard)
<1>4. Aged(rig) = [rig EXCEPT !.last_seen = seen, !.kill_requested_at = kill]
  BY DEF Aged
<1>5. seen \in 0..StaleTimeout + 1 /\ kill \in 0..KillGuard \cup {None}
  BY <1>2, <1>3
<1> HIDE DEF seen, kill
<1> QED BY <1>4, <1>5 DEF Rig
------------------------------------------------------------------------------
(***************************************************************************)
(* Type correctness.                                                       *)
(***************************************************************************)

LEMMA GroupOfType ==
  ASSUME NEW r
  PROVE  GroupOf(r) \in GroupIds \cup {None}
BY DEF GroupOf

\* The upsert returns a row.
LEMMA UpsertedRowType ==
  ASSUME NEW row \in BestRow \cup {None}, NEW e \in LapEntry
  PROVE  UpsertedBest(row, e) \in BestRow
<1>1. CASE row = None
  BY <1>1 DEF UpsertedBest, LapEntry, BestRow
<1>2. CASE row # None
  <2>1. /\ Coalesce(e.driver_name, row.driver_name) \in Drivers \cup {None}
        /\ MaxOf(row.lap, e.lap) \in Nat
        /\ BestTime(row.lap_time_ms, e.lap_time_ms) \in Nat \cup {None}
    BY <1>2 DEF Coalesce, MaxOf, BestTime, LapEntry, BestRow
  <2> QED BY <1>2, <2>1 DEF UpsertedBest, BestRow
<1> QED BY <1>1, <1>2

\* An upsert touches the row of the lap's own rig and session only.
LEMMA WithBestRows ==
  ASSUME DBTypeOK, NEW e \in LapEntry
  PROVE  /\ WithBest(session_best, e) \in [RigIds \X GroupIds -> BestRow \cup {None}]
         /\ \A r \in RigIds, g \in GroupIds :
              WithBest(session_best, e)[<<r, g>>] =
                IF e.rig_id = r /\ e.session_id = g
                  THEN UpsertedBest(session_best[<<r, g>>], e)
                  ELSE session_best[<<r, g>>]
<1>1. session_best \in [RigIds \X GroupIds -> BestRow \cup {None}]
  BY DEF DBTypeOK
<1>2. CASE e.session_id = None
  BY <1>1, <1>2, NoneAssumption DEF WithBest
<1>3. CASE e.session_id # None
  <2> DEFINE k == <<e.rig_id, e.session_id>>
  <2>1. k \in RigIds \X GroupIds
    BY <1>3 DEF LapEntry
  <2>2. WithBest(session_best, e) =
          [session_best EXCEPT ![k] = UpsertedBest(session_best[k], e)]
    BY <1>3 DEF WithBest
  <2>3. UpsertedBest(session_best[k], e) \in BestRow
    BY <1>1, <2>1, UpsertedRowType
  <2> QED BY <1>1, <2>1, <2>2, <2>3
<1> QED BY <1>2, <1>3

\* What is stored of a captured lap is well typed.
LEMMA RecordType ==
  ASSUME DBTypeOK, NEW e \in LapEntry, Record(e)
  PROVE  DBTypeOK'
<1>1. CASE UNCHANGED dbVars
  BY <1>1 DEF DBTypeOK, dbVars
<1>2. CASE /\ laps' = Append(laps, e)
           /\ session_best' \in {session_best, WithBest(session_best, e)}
  <2>1. laps' \in Seq(LapEntry)
    BY <1>2 DEF DBTypeOK
  <2>2. session_best' = session_best \/ session_best' = WithBest(session_best, e)
    BY <1>2
  <2>3. session_best' \in [RigIds \X GroupIds -> BestRow \cup {None}]
    BY <2>2, WithBestRows, Zenon DEF DBTypeOK
  <2> QED BY <2>1, <2>3 DEF DBTypeOK
<1> QED BY <1>1, <1>2 DEF Record

LEMMA LapRowType ==
  ASSUME TypeOK, NEW r \in RigIds, NEW u \in StatusUpdates
  PROVE  LapRow(r, u) \in LapEntry
<1>1. Upserted(r).driver_name \in Drivers \cup {None}
  BY UpsertedType DEF Rig
<1>2. u.completed_laps \in Nat
  <2>1. LapCounts \cup {0} \subseteq Nat
    BY RegistryAssumption
  <2> QED BY <2>1, UpdateFields
<1> QED BY <1>1, <1>2, GroupOfType, UpdateFields DEF LapRow, LapEntry

LEMMA TasksForType ==
  ASSUME TypeOK, NEW S \in SUBSET KnownRigs, NEW action \in Action
  PROVE  /\ TasksFor(S, action) \in SUBSET Task
         /\ WithoutCar(TasksFor(S, action)) \in SUBSET Task
<1>1. ASSUME NEW r \in S, rigs[r].ip \notin {WebKiosk, None}
      PROVE  [rig_id |-> r, ip |-> rigs[r].ip, action |-> action,
              car |-> WithoutPick(rigs[r], action).selected_car] \in Task
  <2>1. r \in RigIds /\ rigs[r] \in Rig
    BY DEF TypeOK, KnownRigs, Known
  <2>2. rigs[r].ip \in {SledIp, AdminHost}
    BY <1>1, <2>1 DEF Rig, Ips
  <2>3. WithoutPick(rigs[r], action).selected_car \in Cars \cup {None}
    BY <2>1 DEF WithoutPick, Rig
  <2> QED BY <2>1, <2>2, <2>3 DEF Task
<1>2. TasksFor(S, action) \in SUBSET Task
  BY <1>1 DEF TasksFor
<1>3. \A t \in Task : [t EXCEPT !.car = None] \in Task
  BY DEF Task
<1> QED BY <1>2, <1>3 DEF WithoutCar

LEMMA QueueType ==
  ASSUME tasks \in Seq(Batch), NEW D \in SUBSET Task,
         NEW after \in {"end", "send_updates", "restart"},
         Queue([dispatch |-> D, after |-> after])
  PROVE  tasks' \in Seq(Batch)
<1>1. [dispatch |-> D, after |-> after] \in Batch
  BY DEF Batch
<1> QED BY <1>1 DEF Queue

LEMMA CommandAllType ==
  ASSUME TypeOK, NEW S \in SUBSET KnownRigs, NEW action \in Actions,
         NEW status \in RigStatus \cup {None}, CommandAll(S, action, status)
  PROVE  TypeOK'
<1>1. action \in Action
  BY RegistryAssumption
<1>2. tasks' \in Seq(Batch)
  BY <1>1, TasksForType, QueueType DEF CommandAll, TypeOK
<1>3. \A r \in S : r \in RigIds /\ rigs[r] \in Rig
  BY DEF TypeOK, KnownRigs, Known
<1>4. rigs' \in [RigIds -> Rig \cup {NoRig}]
  BY <1>3, CommandedType DEF CommandAll, TypeOK
<1> QED BY <1>2, <1>4 DEF CommandAll, TypeOK, DBTypeOK

\* A known rig's record after a command.
LEMMA CommandedKnown ==
  ASSUME TypeOK, NEW action, NEW status \in RigStatus \cup {None}
  PROVE  \A r \in KnownRigs : Commanded(rigs[r], action, status) \in Rig
BY CommandedType DEF TypeOK, KnownRigs, Known

LEMMA InitType == Init => TypeOK
  BY DEF Init, TypeOK, DBInit, DBTypeOK

LEMMA RigRequestType ==
  ASSUME TypeOK, NEW r \in RigIds, RigRequest(r)
  PROVE  TypeOK'
<1>1. ASSUME NEW u \in StatusUpdates, UpdateRigStatus(r, u)
      PROVE  TypeOK'
  <2>1. rigs' \in [RigIds -> Rig \cup {NoRig}]
    BY <1>1, UpdatedType DEF UpdateRigStatus, TypeOK
  <2>2. LapRow(r, u) \in LapEntry
    BY LapRowType
  <2>3. DBTypeOK'
    <3>1. CASE u.completed_laps > Upserted(r).last_lap_count
      BY <1>1, <2>2, <3>1, RecordType DEF UpdateRigStatus, TypeOK
    <3>2. CASE ~(u.completed_laps > Upserted(r).last_lap_count)
      BY <1>1, <3>2 DEF UpdateRigStatus, TypeOK, DBTypeOK, dbVars
    <3> QED BY <3>1, <3>2
  <2> QED BY <1>1, <2>1, <2>3 DEF UpdateRigStatus, TypeOK
<1>2. ASSUME NEW status \in UdpStatuses, UdpHeartbeat(r, status)
      PROVE  TypeOK'
  <2>1. [Upserted(r) EXCEPT !.ip = SledIp, !.status = status] \in Rig
    <3>1. Upserted(r) \in Rig
      BY UpsertedType
    <3>2. SledIp \in Ips \cup {None} /\ status \in RigStatus
      BY RegistryAssumption DEF Ips
    <3> QED BY <3>1, <3>2 DEF Rig
  <2>2. rigs' \in [RigIds -> Rig \cup {NoRig}]
    <3> DEFINE new == [Upserted(r) EXCEPT !.ip = SledIp, !.status = status]
    <3>1. rigs' = [rigs EXCEPT ![r] = new] /\ rigs \in [RigIds -> Rig \cup {NoRig}]
      BY <1>2 DEF UdpHeartbeat, TypeOK
    <3> HIDE DEF new
    <3>2. new \in Rig
      BY <2>1 DEF new
    <3> QED BY <3>1, <3>2
  <2> QED BY <1>2, <2>2 DEF UdpHeartbeat, TypeOK, DBTypeOK
<1>3. ASSUME NEW mode \in Modes, SetRigMode(r, mode)
      PROVE  TypeOK'
  <2>1. rigs[r] \in Rig
    BY <1>3 DEF SetRigMode, TypeOK, Known
  <2>2. [rigs[r] EXCEPT !.mode = mode] \in Rig
    BY <2>1 DEF Rig
  <2> QED BY <1>3, <2>2 DEF SetRigMode, TypeOK, DBTypeOK
<1>4. ASSUME NEW name \in Drivers, SetDriverName(r, name)
      PROVE  TypeOK'
  <2>1. (IF Known(r) THEN rigs[r] ELSE FreshRig) \in Rig
    BY FreshRigType DEF TypeOK, Known
  <2>2. [(IF Known(r) THEN rigs[r] ELSE FreshRig)
           EXCEPT !.driver_name = name] \in Rig
    BY <2>1 DEF Rig
  <2> QED BY <1>4, <2>2 DEF SetDriverName, TypeOK, DBTypeOK
<1>5. ASSUME NEW action \in Actions, SendCommand(r, action)
      PROVE  TypeOK'
  <2>1. {r} \in SUBSET KnownRigs
    BY <1>5 DEF SendCommand, KnownRigs
  <2>2. StatusOf(action) \in RigStatus \cup {None}
    BY StatusOfType
  <2>3. CASE CommandAll({r}, action, StatusOf(action))
    BY <2>1, <2>2, <2>3, CommandAllType
  <2>4. CASE CommandRaises({r}, action, StatusOf(action), rigs)
    <3>1. rigs' \in [RigIds -> Rig \cup {NoRig}]
      BY <2>1, <2>2, <2>4, CommandedKnown
         DEF CommandRaises, TypeOK
    <3> QED BY <2>4, <3>1 DEF CommandRaises, TypeOK, DBTypeOK
  <2> QED BY <1>5, <2>3, <2>4 DEF SendCommand
<1> QED BY <1>1, <1>2, <1>3, <1>4, <1>5 DEF RigRequest

LEMMA FleetRequestType ==
  ASSUME TypeOK, FleetRequest
  PROVE  TypeOK'
<1>1. ASSUME NEW action \in Actions, SendGlobalCommand(action)
      PROVE  TypeOK'
  <2>1. StatusOfOrIdle(action) \in RigStatus \cup {None}
    BY StatusOfType
  <2>2. CASE CommandAll(KnownRigs, action, StatusOfOrIdle(action))
    BY <2>1, <2>2, CommandAllType
  <2>3. ASSUME NEW r \in KnownRigs, NEW earlier \in SUBSET KnownRigs,
               CommandRaises(earlier \cup {r}, action,
                             StatusOfOrIdle(action), rigs)
        PROVE  TypeOK'
    <3>1. rigs' \in [RigIds -> Rig \cup {NoRig}]
      BY <2>1, <2>3, CommandedKnown DEF CommandRaises, TypeOK
    <3> QED BY <2>3, <3>1 DEF CommandRaises, TypeOK, DBTypeOK
  <2> QED BY <1>1, <2>2, <2>3 DEF SendGlobalCommand
<1>2. CASE SyncAllRigs
  <2>1. tasks' \in Seq(Batch)
    BY <1>2, TasksForType, QueueType DEF SyncAllRigs, TypeOK, Action
  <2> QED BY <1>2, <2>1 DEF SyncAllRigs, TypeOK, DBTypeOK
<1>3. CASE FullSystemUpdate
  <2>1. tasks' \in Seq(Batch)
    BY <1>3, TasksForType, QueueType DEF FullSystemUpdate, TypeOK, Action
  <2>2. ASSUME NEW r \in RigIds, Known(r)
        PROVE  [rigs[r] EXCEPT !.status = "idle"] \in Rig
    BY <2>2 DEF TypeOK, Known, Rig, RigStatus
  <2>3. rigs' \in [RigIds -> Rig \cup {NoRig}]
    BY <1>3, <2>2 DEF FullSystemUpdate
  <2> QED BY <1>3, <2>1, <2>3 DEF FullSystemUpdate, TypeOK, DBTypeOK
<1> QED BY <1>1, <1>2, <1>3 DEF FleetRequest

\* A group command reaches its end or raises after a part of the loop.
LEMMA GroupCommandForms ==
  ASSUME NEW g, NEW action, SendGroupCommand(g, action)
  PROVE  \/ CommandAll(GroupRigs(g), action, StatusOfOrIdle(action))
         \/ \E reached \in SUBSET KnownRigs :
              /\ rigs' = [r \in RigIds |-> IF r \in reached
                           THEN Commanded(rigs[r], action, StatusOfOrIdle(action))
                           ELSE GroupStamped(g, action, r)]
              /\ UNCHANGED <<groups, tasks, laps, session_best>>
<1> DEFINE before == [r \in RigIds |-> GroupStamped(g, action, r)]
           upTo(i) == {groups[g].rig_ids[j] : j \in 1..i} \cap KnownRigs
<1>1. ASSUME NEW i, CommandRaises(upTo(i), action, StatusOfOrIdle(action), before)
      PROVE  \E reached \in SUBSET KnownRigs :
              /\ rigs' = [r \in RigIds |-> IF r \in reached
                           THEN Commanded(rigs[r], action, StatusOfOrIdle(action))
                           ELSE GroupStamped(g, action, r)]
              /\ UNCHANGED <<groups, tasks, laps, session_best>>
  <2>1. upTo(i) \in SUBSET KnownRigs
    OBVIOUS
  <2>2. rigs' = [r \in RigIds |-> IF r \in upTo(i)
                   THEN Commanded(rigs[r], action, StatusOfOrIdle(action))
                   ELSE GroupStamped(g, action, r)]
    BY <1>1 DEF CommandRaises
  <2> QED BY <1>1, <2>1, <2>2 DEF CommandRaises
<1>2. \/ CommandAll(GroupRigs(g), action, StatusOfOrIdle(action))
      \/ \E i \in DOMAIN groups[g].rig_ids :
           CommandRaises(upTo(i), action, StatusOfOrIdle(action), before)
  BY Zenon DEF SendGroupCommand
<1> HIDE DEF before, upTo
<1> QED BY <1>1, <1>2, Zenon

\* Members of a group that are registered are known rigs.
LEMMA GroupRigsKnown ==
  ASSUME TypeOK, NEW g \in GroupIds, Exists(g)
  PROVE  /\ groups[g] \in Group
         /\ GroupRigs(g) \in SUBSET KnownRigs
<1>1. groups[g] \in Group
  BY DEF TypeOK, Exists
<1>2. Range(groups[g].rig_ids) \subseteq RigIds
  BY <1>1, ElementOfSeq, LenProperties DEF Group, Range
<1> QED BY <1>1, <1>2 DEF GroupRigs, KnownRigs

\* list.remove leaves a list of rig ids.
LEMMA RemoveFirstType ==
  ASSUME NEW S, NEW s \in Seq(S), NEW e
  PROVE  RemoveFirst(s, e) \in Seq(S)
<1>1. CASE \E i \in 1..Len(s) : s[i] = e
  <2>1. /\ SelectInSeq(s, LAMBDA v : v = e) \in 1..Len(s)
        /\ s[SelectInSeq(s, LAMBDA v : v = e)] = e
    BY <1>1, FirstOccurrence
  <2>2. RemoveFirst(s, e) = RemoveAt(s, SelectInSeq(s, LAMBDA v : v = e))
    BY <1>1 DEF RemoveFirst
  <2> QED BY <2>1, <2>2, RemoveAtProperties
<1>2. CASE ~\E i \in 1..Len(s) : s[i] = e
  BY <1>2 DEF RemoveFirst
<1> QED BY <1>1, <1>2

LEMMA WithoutRigType ==
  ASSUME NEW group \in Group, NEW r
  PROVE  WithoutRig(group, r) \in Group
BY RemoveFirstType DEF WithoutRig, Group

LEMMA SetGroupIdType ==
  ASSUME TypeOK, NEW S, NEW id \in GroupIds \cup {None}, SetGroupId(S, id)
  PROVE  rigs' \in [RigIds -> Rig \cup {NoRig}]
<1>1. ASSUME NEW r \in RigIds, Known(r)
      PROVE  [rigs[r] EXCEPT !.group_id = id] \in Rig
  BY <1>1 DEF TypeOK, Known, Rig
<1> QED BY <1>1 DEF SetGroupId, TypeOK

LEMMA GroupRequestType ==
  ASSUME TypeOK, NEW g \in GroupIds, GroupRequest(g)
  PROVE  TypeOK'
<1>1. ASSUME NEW track \in Tracks, CreateGroup(g, track)
      PROVE  TypeOK'
  <2>1. [rig_ids |-> <<>>, track |-> track] \in Group
    BY DEF Group
  <2> QED BY <1>1, <2>1 DEF CreateGroup, TypeOK, DBTypeOK
<1>2. ASSUME NEW track \in Tracks, UpdateGroup(g, track)
      PROVE  TypeOK'
  <2>1. [groups[g] EXCEPT !.track = track] \in Group
    BY <1>2, GroupRigsKnown DEF UpdateGroup, Group
  <2> QED BY <1>2, <2>1 DEF UpdateGroup, TypeOK, DBTypeOK
<1>3. CASE DeleteGroup(g)
  <2>1. rigs' \in [RigIds -> Rig \cup {NoRig}]
    BY <1>3, SetGroupIdType DEF DeleteGroup
  <2> QED BY <1>3, <2>1 DEF DeleteGroup, TypeOK, DBTypeOK
<1>4. ASSUME NEW r \in RigIds, AddRigToGroup(g, r)
      PROVE  TypeOK'
  <2> DEFINE left(h) == IF Exists(h) THEN WithoutRig(groups[h], r) ELSE NoGroup
  <2>1. rigs' \in [RigIds -> Rig \cup {NoRig}]
    BY <1>4, SetGroupIdType DEF AddRigToGroup
  <2>2. \A h \in GroupIds : Exists(h) => left(h) \in Group
    BY GroupRigsKnown, WithoutRigType
  <2>3. [left(g) EXCEPT !.rig_ids = Append(@, r)] \in Group
    <3>1. left(g) \in Group
      BY <1>4, <2>2 DEF AddRigToGroup
    <3> HIDE DEF left
    <3> QED BY <3>1 DEF Group
  <2>4. groups' = [h \in GroupIds |->
          IF h = g THEN [left(h) EXCEPT !.rig_ids = Append(@, r)] ELSE left(h)]
    BY <1>4 DEF AddRigToGroup
  <2>5. groups' \in [GroupIds -> Group \cup {NoGroup}]
    <3>1. \A h \in GroupIds : left(h) \in Group \cup {NoGroup}
      BY <2>2
    <3> HIDE DEF left
    <3> QED BY <2>3, <2>4, <3>1
  <2> QED BY <1>4, <2>1, <2>5 DEF AddRigToGroup, TypeOK, DBTypeOK
<1>5. ASSUME NEW r \in RigIds, RemoveRigFromGroup(g, r)
      PROVE  TypeOK'
  <2>1. rigs' \in [RigIds -> Rig \cup {NoRig}]
    BY <1>5, SetGroupIdType DEF RemoveRigFromGroup
  <2>2. WithoutRig(groups[g], r) \in Group
    BY <1>5, GroupRigsKnown, WithoutRigType DEF RemoveRigFromGroup, Member
  <2> QED BY <1>5, <2>1, <2>2 DEF RemoveRigFromGroup, TypeOK, DBTypeOK
<1>6. ASSUME NEW action \in Actions, SendGroupCommand(g, action)
      PROVE  TypeOK'
  <2>1. /\ StatusOfOrIdle(action) \in RigStatus \cup {None}
        /\ GroupRigs(g) \in SUBSET KnownRigs
    BY <1>6, StatusOfType, GroupRigsKnown DEF SendGroupCommand
  <2>2. CASE CommandAll(GroupRigs(g), action, StatusOfOrIdle(action))
    BY <2>1, <2>2, CommandAllType
  <2>3. ASSUME NEW reached \in SUBSET KnownRigs,
               rigs' = [r \in RigIds |-> IF r \in reached
                          THEN Commanded(rigs[r], action, StatusOfOrIdle(action))
                          ELSE GroupStamped(g, action, r)],
               UNCHANGED <<groups, tasks, laps, session_best>>
        PROVE  TypeOK'
    <3>1. \A r \in GroupRigs(g) :
            /\ WithKillStamp(rigs[r], action) \in Rig
            /\ [WithKillStamp(rigs[r], action) EXCEPT !.status = "idle"] \in Rig
      <4> SUFFICES ASSUME NEW r \in GroupRigs(g)
                   PROVE  /\ WithKillStamp(rigs[r], action) \in Rig
                          /\ [WithKillStamp(rigs[r], action)
                                EXCEPT !.status = "idle"] \in Rig
        OBVIOUS
      <4>1. rigs[r] \in Rig
        BY <2>1 DEF KnownRigs, Known, TypeOK
      <4>2. WithKillStamp(rigs[r], action) \in Rig
        BY <4>1, RegistryAssumption DEF WithKillStamp, Rig
      <4> QED BY <4>2 DEF Rig, RigStatus
    <3>2. \A r \in RigIds : GroupStamped(g, action, r) \in Rig \cup {NoRig}
      BY <3>1 DEF GroupStamped, TypeOK
    <3>3. rigs' \in [RigIds -> Rig \cup {NoRig}]
      BY <2>1, <2>3, <3>2, CommandedKnown
    <3> QED BY <2>3, <3>3 DEF TypeOK, DBTypeOK
  <2> QED BY <1>6, <2>2, <2>3, GroupCommandForms
<1> QED BY <1>1, <1>2, <1>3, <1>4, <1>5, <1>6 DEF GroupRequest

LEMMA RestartType == TypeOK /\ Restart => TypeOK'
<1> SUFFICES ASSUME TypeOK, Restart PROVE TypeOK'
  OBVIOUS
<1>1. /\ rigs' \in [RigIds -> Rig \cup {NoRig}]
      /\ groups' \in [GroupIds -> Group \cup {NoGroup}]
      /\ tasks' \in Seq(Batch)
  BY DEF Restart, TypeOK
<1> QED BY <1>1 DEF Restart, TypeOK, DBTypeOK, dbVars

LEMMA WorkerType ==
  ASSUME TypeOK, NEW i \in DOMAIN tasks, Worker(i)
  PROVE  TypeOK'
<1>1. /\ tasks \in Seq(Batch) /\ i \in 1..Len(tasks) /\ tasks[i] \in Batch
      /\ RemoveAt(tasks, i) \in Seq(Batch)
      /\ \A b \in Batch : [tasks EXCEPT ![i] = b] \in Seq(Batch)
  BY LenProperties, ElementOfSeq, ExceptSeq, RemoveAtProperties DEF TypeOK
<1>2. CASE RunDispatch(i)
  <2>1. PICK t \in tasks[i].dispatch : Dispatched(i, t)
    BY <1>2 DEF RunDispatch
  <2>2. [tasks[i] EXCEPT !.dispatch = @ \ {t}] \in Batch
    BY <1>1 DEF Batch
  <2>3. tasks' \in Seq(Batch)
    BY <1>1, <2>1, <2>2 DEF Dispatched
  <2> QED BY <1>2, <2>3 DEF RunDispatch, TypeOK, DBTypeOK
<1>3. CASE SendUpdates(i)
  <2>1. WithoutCar(TasksFor(KnownRigs, "UPDATE")) \in SUBSET Task
    BY TasksForType DEF Action
  <2>2. tasks' \in Seq(Batch)
    BY <1>1, <1>3, <2>1 DEF SendUpdates, Batch
  <2> QED BY <1>3, <2>2 DEF SendUpdates, TypeOK, DBTypeOK
<1>4. CASE AdminUpdate(i)
  <2>1. CASE Restart
    BY <2>1, RestartType
  <2>2. CASE /\ tasks' = RemoveAt(tasks, i)
             /\ UNCHANGED <<rigs, groups, laps, session_best>>
    BY <1>1, <2>2 DEF TypeOK, DBTypeOK
  <2> QED BY <1>4, <2>1, <2>2 DEF AdminUpdate
<1> QED BY <1>2, <1>3, <1>4 DEF Worker

LEMMA NextType == TypeOK /\ [Next]_vars => TypeOK'
<1> SUFFICES ASSUME TypeOK, [Next]_vars PROVE TypeOK'
  OBVIOUS
<1>1. CASE RemoveStaleRigs
  BY <1>1 DEF RemoveStaleRigs, TypeOK, DBTypeOK
<1>2. CASE Tick
  <2>1. \A r \in RigIds : Known(r) => Aged(rigs[r]) \in Rig
    BY AgedType DEF TypeOK, Known
  <2> QED BY <1>2, <2>1 DEF Tick, TypeOK, DBTypeOK
<1>3. CASE Restart
  BY <1>3, RestartType
<1>4. CASE UNCHANGED vars
  BY <1>4 DEF vars, TypeOK, DBTypeOK
<1> QED BY <1>1, <1>2, <1>3, <1>4, RigRequestType, FleetRequestType,
           GroupRequestType, WorkerType DEF Next

\* Every reachable state is well typed, whatever the rigs, groups and clients.
THEOREM TypeCorrect == Spec => []TypeOK
  BY InitType, NextType, PTL DEF Spec
------------------------------------------------------------------------------
(***************************************************************************)
(* Groups: the rig lists are a partition, and the copies of a rig's group  *)
(* in the rig records agree with them.                                     *)
(***************************************************************************)

\* GroupsPartition, as a statement about any table of groups.
PartitionOf(table) ==
  /\ \A g \in GroupIds : table[g] # NoGroup => Distinct(table[g].rig_ids)
  /\ \A g, h \in GroupIds : table[g] # NoGroup /\ table[h] # NoGroup /\ g # h =>
       Range(table[g].rig_ids) \cap Range(table[h].rig_ids) = {}

LEMMA PartitionTable ==
  ASSUME NEW table
  PROVE  PartitionOf(table) <=>
           \A g, h \in GroupIds : table[g] # NoGroup /\ table[h] # NoGroup =>
             \A i \in DOMAIN table[g].rig_ids, j \in DOMAIN table[h].rig_ids :
               table[g].rig_ids[i] = table[h].rig_ids[j] => g = h /\ i = j
<1> DEFINE Pairwise ==
      \A g, h \in GroupIds : table[g] # NoGroup /\ table[h] # NoGroup =>
        \A i \in DOMAIN table[g].rig_ids, j \in DOMAIN table[h].rig_ids :
          table[g].rig_ids[i] = table[h].rig_ids[j] => g = h /\ i = j
<1>1. ASSUME PartitionOf(table) PROVE Pairwise
  <2> SUFFICES ASSUME NEW g \in GroupIds, NEW h \in GroupIds,
                      table[g] # NoGroup, table[h] # NoGroup,
                      NEW i \in DOMAIN table[g].rig_ids,
                      NEW j \in DOMAIN table[h].rig_ids,
                      table[g].rig_ids[i] = table[h].rig_ids[j]
               PROVE  g = h /\ i = j
    OBVIOUS
  <2>1. /\ table[g].rig_ids[i] \in Range(table[g].rig_ids)
        /\ table[g].rig_ids[i] \in Range(table[h].rig_ids)
    BY DEF Range
  <2>2. g = h
    BY <1>1, <2>1 DEF PartitionOf
  <2> QED BY <1>1, <2>2 DEF PartitionOf, Distinct
<1>2. ASSUME Pairwise PROVE PartitionOf(table)
  <2>1. ASSUME NEW g \in GroupIds, table[g] # NoGroup
        PROVE  Distinct(table[g].rig_ids)
    BY <1>2, <2>1 DEF Distinct
  <2>2. ASSUME NEW g \in GroupIds, NEW h \in GroupIds,
               table[g] # NoGroup, table[h] # NoGroup, g # h,
               NEW x \in Range(table[g].rig_ids) \cap Range(table[h].rig_ids)
        PROVE  FALSE
    <3>1. PICK i \in DOMAIN table[g].rig_ids : table[g].rig_ids[i] = x
      BY DEF Range
    <3>2. PICK j \in DOMAIN table[h].rig_ids : table[h].rig_ids[j] = x
      BY DEF Range
    <3> QED BY <1>2, <2>2, <3>1, <3>2
  <2> QED BY <2>1, <2>2 DEF PartitionOf
<1> QED BY <1>1, <1>2

LEMMA PartitionForm ==
  /\ GroupsPartition <=> PartitionOf(groups)
  /\ GroupsPartition' <=> PartitionOf(groups')
BY PartitionTable DEF GroupsPartition, Exists

\* A group that loses a rig.
LEMMA WithoutRigProperties ==
  ASSUME NEW group \in Group, Distinct(group.rig_ids), NEW r
  PROVE  LET left == WithoutRig(group, r)
         IN  /\ left \in Group
             /\ Range(left.rig_ids) = Range(group.rig_ids) \ {r}
             /\ Distinct(left.rig_ids)
             /\ left.track = group.track
<1>1. group.rig_ids \in Seq(RigIds)
  BY DEF Group
<1>2. /\ WithoutRig(group, r).rig_ids = RemoveFirst(group.rig_ids, r)
      /\ WithoutRig(group, r).track = group.track
  BY DEF WithoutRig, Group
<1> QED BY <1>1, <1>2, RemoveFirstProperties, WithoutRigType

\* The groups after add_rig_to_group.
LEMMA AddedGroups ==
  ASSUME TypeOK, GroupsPartition, NEW g \in GroupIds, NEW r \in RigIds,
         AddRigToGroup(g, r)
  PROVE  /\ \A h \in GroupIds : groups'[h] # NoGroup <=> groups[h] # NoGroup
         /\ \A h \in GroupIds : groups[h] # NoGroup =>
              /\ Distinct(groups'[h].rig_ids)
              /\ Range(groups'[h].rig_ids) =
                   IF h = g THEN Range(groups[h].rig_ids) \cup {r}
                   ELSE Range(groups[h].rig_ids) \ {r}
<1> DEFINE left(h) == IF Exists(h) THEN WithoutRig(groups[h], r) ELSE NoGroup
<1>1. groups' = [h \in GroupIds |->
        IF h = g THEN [left(h) EXCEPT !.rig_ids = Append(@, r)] ELSE left(h)]
  BY DEF AddRigToGroup
<1>2. ASSUME NEW h \in GroupIds, groups[h] # NoGroup
      PROVE  /\ left(h) \in Group
             /\ Range(left(h).rig_ids) = Range(groups[h].rig_ids) \ {r}
             /\ Distinct(left(h).rig_ids)
  <2>1. groups[h] \in Group /\ Distinct(groups[h].rig_ids)
    BY <1>2, PartitionForm DEF TypeOK, PartitionOf
  <2> QED BY <1>2, <2>1, WithoutRigProperties DEF Exists
<1>3. \A h \in GroupIds : groups[h] = NoGroup => left(h) = NoGroup
  BY DEF Exists
<1>4. groups[g] # NoGroup
  BY DEF AddRigToGroup, Exists
<1> HIDE DEF left
<1>5. /\ [left(g) EXCEPT !.rig_ids = Append(@, r)] \in Group
      /\ [left(g) EXCEPT !.rig_ids = Append(@, r)].rig_ids =
           Append(left(g).rig_ids, r)
      /\ left(g).rig_ids \in Seq(RigIds)
  BY <1>2, <1>4 DEF Group
<1>6. /\ Distinct(Append(left(g).rig_ids, r))
      /\ Range(Append(left(g).rig_ids, r)) = Range(groups[g].rig_ids) \cup {r}
  <2>1. /\ Range(Append(left(g).rig_ids, r)) = Range(left(g).rig_ids) \cup {r}
        /\ Distinct(left(g).rig_ids) /\ r \notin Range(left(g).rig_ids)
             => Distinct(Append(left(g).rig_ids, r))
    BY <1>5, AppendNew
  <2> QED BY <1>2, <1>4, <2>1
<1>7. ASSUME NEW h \in GroupIds
      PROVE  groups'[h] # NoGroup <=> groups[h] # NoGroup
  BY <1>1, <1>2, <1>3, <1>4, <1>5, NullAssumption
<1>8. ASSUME NEW h \in GroupIds, groups[h] # NoGroup
      PROVE  /\ Distinct(groups'[h].rig_ids)
             /\ Range(groups'[h].rig_ids) =
                  IF h = g THEN Range(groups[h].rig_ids) \cup {r}
                  ELSE Range(groups[h].rig_ids) \ {r}
  <2>1. CASE h = g
    BY <2>1, <1>1, <1>5, <1>6
  <2>2. CASE h # g
    BY <2>2, <1>1, <1>2, <1>8
  <2> QED BY <2>1, <2>2
<1> QED BY <1>7, <1>8

LEMMA GroupRequestPartition ==
  ASSUME TypeOK, GroupsPartition, NEW g \in GroupIds, GroupRequest(g)
  PROVE  GroupsPartition'
<1>1. PartitionOf(groups) /\ groups \in [GroupIds -> Group \cup {NoGroup}]
  BY PartitionForm DEF TypeOK
<1>2. ASSUME NEW track \in Tracks, CreateGroup(g, track)
      PROVE  PartitionOf(groups')
  <2>1. groups' = [groups EXCEPT ![g] = [rig_ids |-> <<>>, track |-> track]]
    BY <1>2 DEF CreateGroup
  <2>2. Distinct(<<>>) /\ Range(<<>>) = {}
    BY DEF Distinct, Range
  <2> QED BY <1>1, <2>1, <2>2 DEF PartitionOf
<1>3. ASSUME NEW track \in Tracks, UpdateGroup(g, track)
      PROVE  PartitionOf(groups')
  <2>1. groups[g] \in Group
    BY <1>1, <1>3 DEF UpdateGroup, Exists
  <2>2. groups' = [groups EXCEPT ![g] = [groups[g] EXCEPT !.track = track]]
    BY <1>3 DEF UpdateGroup
  <2>3. [groups[g] EXCEPT !.track = track].rig_ids = groups[g].rig_ids
    BY <2>1 DEF Group
  <2> QED BY <1>1, <1>3, <2>2, <2>3 DEF PartitionOf, UpdateGroup, Exists
<1>4. ASSUME DeleteGroup(g)
      PROVE  PartitionOf(groups')
  BY <1>1, <1>4 DEF DeleteGroup, PartitionOf
<1>5. ASSUME NEW r \in RigIds, AddRigToGroup(g, r)
      PROVE  PartitionOf(groups')
  <2>1. /\ \A h \in GroupIds : groups'[h] # NoGroup <=> groups[h] # NoGroup
        /\ \A h \in GroupIds : groups[h] # NoGroup =>
             /\ Distinct(groups'[h].rig_ids)
             /\ Range(groups'[h].rig_ids) =
                  IF h = g THEN Range(groups[h].rig_ids) \cup {r}
                  ELSE Range(groups[h].rig_ids) \ {r}
    BY <1>5, AddedGroups
  <2>2. ASSUME NEW h \in GroupIds, NEW k \in GroupIds, h # k,
               groups'[h] # NoGroup, groups'[k] # NoGroup
        PROVE  Range(groups'[h].rig_ids) \cap Range(groups'[k].rig_ids) = {}
    <3>1. Range(groups[h].rig_ids) \cap Range(groups[k].rig_ids) = {}
      BY <1>1, <2>1, <2>2 DEF PartitionOf
    <3>2. CASE h = g
      <4>1. /\ Range(groups'[h].rig_ids) = Range(groups[h].rig_ids) \cup {r}
            /\ Range(groups'[k].rig_ids) = Range(groups[k].rig_ids) \ {r}
        BY <2>1, <2>2, <3>2
      <4> QED BY <3>1, <4>1
    <3>3. CASE h # g
      <4>1. /\ Range(groups'[h].rig_ids) = Range(groups[h].rig_ids) \ {r}
            /\ Range(groups'[k].rig_ids) \subseteq
                 Range(groups[k].rig_ids) \cup {r}
        BY <2>1, <2>2, <3>3
      <4> QED BY <3>1, <4>1
    <3> QED BY <3>2, <3>3
  <2> QED BY <2>1, <2>2 DEF PartitionOf
<1>6. ASSUME NEW r \in RigIds, RemoveRigFromGroup(g, r)
      PROVE  PartitionOf(groups')
  <2>1. groups[g] \in Group /\ Distinct(groups[g].rig_ids)
    BY <1>1, <1>6 DEF RemoveRigFromGroup, Member, Exists, PartitionOf
  <2>2. groups' = [groups EXCEPT ![g] = WithoutRig(groups[g], r)]
    BY <1>6 DEF RemoveRigFromGroup
  <2>3. /\ Distinct(WithoutRig(groups[g], r).rig_ids)
        /\ Range(WithoutRig(groups[g], r).rig_ids)
             \subseteq Range(groups[g].rig_ids)
    BY <2>1, WithoutRigProperties
  <2>4. groups[g] # NoGroup
    BY <1>6 DEF RemoveRigFromGroup, Member, Exists
  <2> QED BY <1>1, <2>2, <2>3, <2>4 DEF PartitionOf
<1>7. ASSUME NEW action \in Actions, SendGroupCommand(g, action)
      PROVE  PartitionOf(groups')
  BY <1>1, <1>7 DEF SendGroupCommand, CommandAll, CommandRaises
<1> QED BY <1>2, <1>3, <1>4, <1>5, <1>6, <1>7, PartitionForm DEF GroupRequest

\* Nothing but a group request or a crash changes the groups.
LEMMA GroupsStep ==
  ASSUME [Next]_vars
  PROVE  \/ \E g \in GroupIds : GroupRequest(g)
         \/ groups' = groups
         \/ Restart
<1>1. ASSUME NEW r \in RigIds, RigRequest(r)
      PROVE  groups' = groups
  BY <1>1 DEF RigRequest, UpdateRigStatus, UdpHeartbeat, SetRigMode,
              SetDriverName, SendCommand, CommandAll, CommandRaises
<1>2. ASSUME FleetRequest
      PROVE  groups' = groups
  BY <1>2 DEF FleetRequest, SendGlobalCommand, SyncAllRigs, FullSystemUpdate,
              CommandAll, CommandRaises
<1>3. ASSUME NEW i \in DOMAIN tasks, Worker(i)
      PROVE  groups' = groups \/ Restart
  BY <1>3 DEF Worker, RunDispatch, SendUpdates, AdminUpdate
<1>4. RemoveStaleRigs \/ Tick \/ UNCHANGED vars => groups' = groups
  BY DEF RemoveStaleRigs, Tick, vars
<1> QED BY <1>1, <1>2, <1>3, <1>4 DEF Next

LEMMA PartitionStep ==
  TypeOK /\ GroupsPartition /\ [Next]_vars => GroupsPartition'
<1> SUFFICES ASSUME TypeOK, GroupsPartition, [Next]_vars
             PROVE  GroupsPartition'
  OBVIOUS
<1>1. CASE \E g \in GroupIds : GroupRequest(g)
  BY <1>1, GroupRequestPartition
<1>2. CASE groups' = groups
  BY <1>2, PartitionForm
<1>3. CASE Restart
  BY <1>3, PartitionForm DEF Restart, PartitionOf
<1> QED BY <1>1, <1>2, <1>3, GroupsStep

\* A rig is listed once, in one group: add_rig_to_group and its neighbours
\* keep the lists disjoint whatever the order of the operator's requests.
THEOREM GroupsPartitionAlways == Spec => []GroupsPartition
<1>1. Init => GroupsPartition
  BY DEF Init, GroupsPartition, Exists
<1> QED BY <1>1, InitType, NextType, PartitionStep, PTL DEF Spec

------------------------------------------------------------------------------
\* The step gives no rig a group id it did not have.
KeepsGroupIds ==
  \A r \in RigIds : rigs'[r] # NoRig =>
    \/ rigs'[r].group_id = None
    \/ rigs[r] # NoRig /\ rigs'[r].group_id = rigs[r].group_id

\* What a status update does to the fields that are not its business.
LEMMA UpdatedKeeps ==
  ASSUME TypeOK, NEW r \in RigIds, NEW u \in StatusUpdates
  PROVE  /\ Updated(r, u).group_id = Upserted(r).group_id
         /\ Updated(r, u).driver_name = Upserted(r).driver_name
         /\ Updated(r, u).last_seen = Upserted(r).last_seen
<1> DEFINE a == [Upserted(r) EXCEPT !.ip = u.ip]
           b == WithStatus(a, u.status)
           c == WithCar(b, u.selected_car)
           d == WithLapCount(c, u.completed_laps)
           Same(x, y) == /\ x.group_id = y.group_id
                         /\ x.driver_name = y.driver_name
                         /\ x.last_seen = y.last_seen
<1>1. a \in Rig /\ Same(a, Upserted(r))
  BY UpsertedType, UpdateFields DEF Rig
<1>2. b \in Rig /\ Same(b, a)
  <2>1. b \in Rig
    BY <1>1, UpdateFields, WithStatusType
  <2> HIDE DEF a
  <2>2. \/ b = a
        \/ b = [a EXCEPT !.status = u.status]
        \/ b = [a EXCEPT !.kill_requested_at = None, !.status = u.status]
    BY UpdateFields, RegistryAssumption DEF WithStatus, Downgrade, RigStatus
  <2> QED BY <1>1, <2>1, <2>2 DEF Rig
<1> HIDE DEF a, b
<1>3. c \in Rig /\ Same(c, b)
  BY <1>2, UpdateFields DEF WithCar, Rig
<1> HIDE DEF c
<1>4. d \in Rig /\ Same(d, c)
  BY <1>3, UpdateFields DEF WithLapCount, Rig
<1>5. Updated(r, u) = d
  BY DEF Updated, a, b, c
<1> HIDE DEF d
<1> QED BY <1>1, <1>2, <1>3, <1>4, <1>5

LEMMA CommandedKeeps ==
  ASSUME NEW rig \in Rig, NEW action, NEW status \in RigStatus \cup {None}
  PROVE  /\ Commanded(rig, action, status).group_id = rig.group_id
         /\ Commanded(rig, action, status).last_seen = rig.last_seen
BY DEF Commanded, WithoutPick, WithKillStamp, Rig

LEMMA CommandAllKeeps ==
  ASSUME TypeOK, NEW S \in SUBSET KnownRigs, NEW action,
         NEW status \in RigStatus \cup {None}, CommandAll(S, action, status)
  PROVE  KeepsGroupIds
<1>1. \A r \in S : rigs[r] \in Rig /\ rigs[r] # NoRig
  BY DEF TypeOK, KnownRigs, Known
<1>2. rigs' = [r \in RigIds |-> IF r \in S
                 THEN Commanded(rigs[r], action, status) ELSE rigs[r]]
  BY DEF CommandAll
<1> QED BY <1>1, <1>2, CommandedKeeps DEF KeepsGroupIds

LEMMA RigRequestKeeps ==
  ASSUME TypeOK, NEW r \in RigIds, RigRequest(r)
  PROVE  KeepsGroupIds
<1>0. rigs \in [RigIds -> Rig \cup {NoRig}]
  BY DEF TypeOK
<1>1. /\ Upserted(r) \in Rig
      /\ Upserted(r).group_id =
           IF Known(r) THEN rigs[r].group_id ELSE None
  BY <1>0, UpsertedType DEF Upserted, Known, FreshRig, Rig
<1>2. ASSUME NEW u \in StatusUpdates, UpdateRigStatus(r, u)
      PROVE  KeepsGroupIds
  <2>1. rigs' = [rigs EXCEPT ![r] = Updated(r, u)]
    BY <1>2 DEF UpdateRigStatus
  <2>2. Updated(r, u).group_id = Upserted(r).group_id
    BY UpdatedKeeps
  <2> QED BY <1>0, <1>1, <2>1, <2>2 DEF KeepsGroupIds, Known
<1>3. ASSUME NEW status \in UdpStatuses, UdpHeartbeat(r, status)
      PROVE  KeepsGroupIds
  <2> DEFINE rig == [Upserted(r) EXCEPT !.ip = SledIp, !.status = status]
  <2>1. rigs' = [rigs EXCEPT ![r] = rig]
    BY <1>3 DEF UdpHeartbeat
  <2>2. rig.group_id = Upserted(r).group_id
    BY <1>1 DEF Rig
  <2> HIDE DEF rig
  <2> QED BY <1>0, <1>1, <2>1, <2>2 DEF KeepsGroupIds, Known
<1>4. ASSUME NEW mode \in Modes, SetRigMode(r, mode)
      PROVE  KeepsGroupIds
  BY <1>0, <1>4 DEF SetRigMode, KeepsGroupIds, Known, Rig
<1>5. ASSUME NEW name \in Drivers, SetDriverName(r, name)
      PROVE  KeepsGroupIds
  <2> DEFINE old == IF Known(r) THEN rigs[r] ELSE FreshRig
             rig == [old EXCEPT !.driver_name = name]
  <2>1. rigs' = [rigs EXCEPT ![r] = rig]
    BY <1>5 DEF SetDriverName
  <2>2. old \in Rig /\ old.group_id = IF Known(r) THEN rigs[r].group_id ELSE None
    BY <1>0, FreshRigType DEF Known, FreshRig
  <2> HIDE DEF old
  <2>3. rig.group_id = old.group_id
    BY <2>2 DEF Rig
  <2> HIDE DEF rig
  <2> QED BY <1>0, <2>1, <2>2, <2>3 DEF KeepsGroupIds, Known
<1>6. ASSUME NEW action \in Actions, SendCommand(r, action)
      PROVE  KeepsGroupIds
  <2>1. {r} \in SUBSET KnownRigs /\ StatusOf(action) \in RigStatus \cup {None}
    BY <1>6, StatusOfType DEF SendCommand, KnownRigs
  <2>2. CASE CommandAll({r}, action, StatusOf(action))
    BY <2>1, <2>2, CommandAllKeeps
  <2>3. CASE CommandRaises({r}, action, StatusOf(action), rigs)
    <3>1. rigs[r] \in Rig /\ rigs[r] # NoRig
      BY <1>0, <2>1 DEF KnownRigs, Known
    <3> QED BY <2>1, <2>3, <3>1, CommandedKeeps
            DEF CommandRaises, KeepsGroupIds
  <2> QED BY <1>6, <2>2, <2>3 DEF SendCommand
<1> QED BY <1>2, <1>3, <1>4, <1>5, <1>6 DEF RigRequest

LEMMA FleetRequestKeeps ==
  ASSUME TypeOK, FleetRequest
  PROVE  KeepsGroupIds
<1>1. \A r \in KnownRigs : rigs[r] \in Rig /\ rigs[r] # NoRig
  BY DEF TypeOK, KnownRigs, Known
<1>2. ASSUME NEW action \in Actions, SendGlobalCommand(action)
      PROVE  KeepsGroupIds
  <2>1. StatusOfOrIdle(action) \in RigStatus \cup {None}
    BY StatusOfType
  <2>2. CASE CommandAll(KnownRigs, action, StatusOfOrIdle(action))
    BY <2>1, <2>2, CommandAllKeeps
  <2>3. ASSUME NEW r \in KnownRigs, NEW earlier \in SUBSET KnownRigs,
               CommandRaises(earlier \cup {r}, action,
                             StatusOfOrIdle(action), rigs)
        PROVE  KeepsGroupIds
    BY <1>1, <2>1, <2>3, CommandedKeeps
       DEF CommandRaises, KeepsGroupIds
  <2> QED BY <1>2, <2>2, <2>3 DEF SendGlobalCommand
<1>3. ASSUME SyncAllRigs PROVE KeepsGroupIds
  BY <1>3 DEF SyncAllRigs, KeepsGroupIds
<1>4. ASSUME FullSystemUpdate PROVE KeepsGroupIds
  <2>1. \A r \in RigIds : Known(r) =>
          [rigs[r] EXCEPT !.status = "idle"].group_id = rigs[r].group_id
    BY <1>1 DEF KnownRigs, Rig
  <2> QED BY <1>4, <2>1 DEF FullSystemUpdate, KeepsGroupIds, Known
<1> QED BY <1>2, <1>3, <1>4 DEF FleetRequest

LEMMA GroupCommandKeeps ==
  ASSUME TypeOK, NEW g \in GroupIds, NEW action \in Actions,
         SendGroupCommand(g, action)
  PROVE  KeepsGroupIds
<1>1. /\ StatusOfOrIdle(action) \in RigStatus \cup {None}
      /\ GroupRigs(g) \in SUBSET KnownRigs
  BY StatusOfType, GroupRigsKnown DEF SendGroupCommand
<1>2. \A r \in KnownRigs : r \in RigIds /\ rigs[r] \in Rig /\ rigs[r] # NoRig
  BY DEF TypeOK, KnownRigs, Known
<1>3. CASE CommandAll(GroupRigs(g), action, StatusOfOrIdle(action))
  BY <1>1, <1>3, CommandAllKeeps
<1>4. ASSUME NEW reached \in SUBSET KnownRigs,
             rigs' = [r \in RigIds |-> IF r \in reached
                        THEN Commanded(rigs[r], action, StatusOfOrIdle(action))
                        ELSE GroupStamped(g, action, r)]
      PROVE  KeepsGroupIds
  <2>1. \A r \in GroupRigs(g) :
          /\ WithKillStamp(rigs[r], action).group_id = rigs[r].group_id
          /\ [WithKillStamp(rigs[r], action) EXCEPT !.status = "idle"].group_id
               = rigs[r].group_id
    BY <1>1, <1>2 DEF WithKillStamp, Rig
  <2>2. \A r \in RigIds : GroupStamped(g, action, r) # NoRig =>
          /\ rigs[r] # NoRig
          /\ GroupStamped(g, action, r).group_id = rigs[r].group_id
    BY <1>1, <1>2, <2>1 DEF GroupStamped
  <2>3. \A r \in reached :
          Commanded(rigs[r], action, StatusOfOrIdle(action)).group_id
            = rigs[r].group_id
    BY <1>1, <1>2, CommandedKeeps
  <2> QED BY <1>2, <1>4, <2>2, <2>3 DEF KeepsGroupIds
<1> QED BY <1>3, <1>4, GroupCommandForms

\* Member, about any table of groups.
Listed(table, r, g) == table[g] # NoGroup /\ r \in Range(table[g].rig_ids)

LEMMA AgreesForm ==
  /\ GroupIdAgrees <=>
       \A r \in RigIds : rigs[r] # NoRig /\ rigs[r].group_id # None =>
         Listed(groups, r, rigs[r].group_id)
  /\ GroupIdAgrees' <=>
       \A r \in RigIds : rigs'[r] # NoRig /\ rigs'[r].group_id # None =>
         Listed(groups', r, rigs'[r].group_id)
BY DEF GroupIdAgrees, Known, Member, Exists, Listed

\* The ids in the records still agree when neither they nor the groups move.
LEMMA KeptIdsAgree ==
  ASSUME TypeOK, GroupIdAgrees, KeepsGroupIds,
         \A g \in GroupIds : groups[g] # NoGroup =>
           groups'[g] # NoGroup /\ groups'[g].rig_ids = groups[g].rig_ids
  PROVE  GroupIdAgrees'
<1> SUFFICES ASSUME NEW r \in RigIds, rigs'[r] # NoRig,
                    rigs'[r].group_id # None
             PROVE  Listed(groups', r, rigs'[r].group_id)
  BY AgreesForm
<1>1. rigs[r] # NoRig /\ rigs'[r].group_id = rigs[r].group_id
  BY DEF KeepsGroupIds
<1>2. Listed(groups, r, rigs[r].group_id)
  BY <1>1, AgreesForm
<1>3. rigs[r].group_id \in GroupIds
  BY <1>1 DEF TypeOK, Rig
<1> QED BY <1>1, <1>2, <1>3 DEF Listed

LEMMA GroupRequestAgrees ==
  ASSUME TypeOK, GroupsPartition, GroupIdAgrees,
         NEW g \in GroupIds, GroupRequest(g)
  PROVE  GroupIdAgrees'
<1>1. /\ rigs \in [RigIds -> Rig \cup {NoRig}]
      /\ groups \in [GroupIds -> Group \cup {NoGroup}]
      /\ PartitionOf(groups)
  BY PartitionForm DEF TypeOK
<1>2. ASSUME NEW track \in Tracks, CreateGroup(g, track)
      PROVE  GroupIdAgrees'
  BY <1>2, KeptIdsAgree
     DEF CreateGroup, KeepsGroupIds, FreshGroupId, Exists
<1>3. ASSUME NEW track \in Tracks, UpdateGroup(g, track)
      PROVE  GroupIdAgrees'
  <2>1. groups[g] \in Group /\ groups[g] # NoGroup
    BY <1>1, <1>3 DEF UpdateGroup, Exists
  <2>2. /\ [groups[g] EXCEPT !.track = track] \in Group
        /\ [groups[g] EXCEPT !.track = track].rig_ids = groups[g].rig_ids
    BY <2>1 DEF Group
  <2>3. groups' = [groups EXCEPT ![g] = [groups[g] EXCEPT !.track = track]]
    BY <1>3 DEF UpdateGroup
  <2> QED BY <1>1, <1>3, <2>2, <2>3, KeptIdsAgree, NullAssumption
          DEF UpdateGroup, KeepsGroupIds
<1>4. ASSUME NEW S, NEW id \in GroupIds \cup {None}, SetGroupId(S, id)
      PROVE  \A r \in RigIds : rigs'[r] # NoRig =>
               /\ rigs[r] # NoRig
               /\ rigs'[r].group_id = IF r \in S THEN id ELSE rigs[r].group_id
  BY <1>1, <1>4 DEF SetGroupId, Known, Rig
<1>5. ASSUME DeleteGroup(g)
      PROVE  GroupIdAgrees'
  <2> SUFFICES ASSUME NEW r \in RigIds, rigs'[r] # NoRig,
                      rigs'[r].group_id # None
               PROVE  Listed(groups', r, rigs'[r].group_id)
    BY AgreesForm
  <2>1. /\ rigs[r] # NoRig /\ r \notin Range(groups[g].rig_ids)
        /\ rigs'[r].group_id = rigs[r].group_id
    BY <1>4, <1>5 DEF DeleteGroup
  <2>2. Listed(groups, r, rigs[r].group_id)
    BY <2>1, AgreesForm
  <2>3. groups' = [groups EXCEPT ![g] = NoGroup]
    BY <1>5 DEF DeleteGroup
  <2>4. rigs[r].group_id \in GroupIds /\ rigs[r].group_id # g
    BY <1>1, <2>1, <2>2 DEF Rig, Listed
  <2> QED BY <1>1, <2>1, <2>2, <2>3, <2>4 DEF Listed
<1>6. ASSUME NEW a \in RigIds, AddRigToGroup(g, a)
      PROVE  GroupIdAgrees'
  <2> SUFFICES ASSUME NEW r \in RigIds, rigs'[r] # NoRig,
                      rigs'[r].group_id # None
               PROVE  Listed(groups', r, rigs'[r].group_id)
    BY AgreesForm
  <2>1. /\ rigs[r] # NoRig
        /\ rigs'[r].group_id = IF r = a THEN g ELSE rigs[r].group_id
    BY <1>4, <1>6 DEF AddRigToGroup
  <2>2. groups[g] # NoGroup
    BY <1>6 DEF AddRigToGroup, Exists
  <2>3. /\ \A h \in GroupIds : groups'[h] # NoGroup <=> groups[h] # NoGroup
        /\ \A h \in GroupIds : groups[h] # NoGroup =>
             Range(groups'[h].rig_ids) =
               IF h = g THEN Range(groups[h].rig_ids) \cup {a}
               ELSE Range(groups[h].rig_ids) \ {a}
    BY <1>6, AddedGroups
  <2>4. CASE r = a
    <3>1. groups'[g] # NoGroup /\ r \in Range(groups'[g].rig_ids)
      BY <2>2, <2>3, <2>4
    <3> QED BY <2>1, <2>4, <3>1 DEF Listed
  <2>5. CASE r # a
    <3>1. /\ rigs'[r].group_id = rigs[r].group_id
          /\ rigs[r].group_id \in GroupIds
      BY <1>1, <2>1, <2>5 DEF Rig
    <3>2. /\ groups[rigs[r].group_id] # NoGroup
          /\ r \in Range(groups[rigs[r].group_id].rig_ids)
      BY <2>1, <3>1, AgreesForm DEF Listed
    <3>3. /\ groups'[rigs[r].group_id] # NoGroup
          /\ r \in Range(groups'[rigs[r].group_id].rig_ids)
      BY <2>3, <2>5, <3>1, <3>2
    <3> QED BY <3>1, <3>3 DEF Listed
  <2> QED BY <2>4, <2>5
<1>7. ASSUME NEW a \in RigIds, RemoveRigFromGroup(g, a)
      PROVE  GroupIdAgrees'
  <2> SUFFICES ASSUME NEW r \in RigIds, rigs'[r] # NoRig,
                      rigs'[r].group_id # None
               PROVE  Listed(groups', r, rigs'[r].group_id)
    BY AgreesForm
  <2>1. /\ rigs[r] # NoRig /\ r # a
        /\ rigs'[r].group_id = rigs[r].group_id
    BY <1>4, <1>7 DEF RemoveRigFromGroup
  <2>2. /\ rigs[r].group_id \in GroupIds
        /\ groups[rigs[r].group_id] # NoGroup
        /\ r \in Range(groups[rigs[r].group_id].rig_ids)
    BY <1>1, <2>1, AgreesForm DEF Listed, Rig
  <2>3. groups[g] \in Group /\ Distinct(groups[g].rig_ids)
    BY <1>1, <1>7 DEF RemoveRigFromGroup, Member, Exists, PartitionOf
  <2>4. groups' = [groups EXCEPT ![g] = WithoutRig(groups[g], a)]
    BY <1>7 DEF RemoveRigFromGroup
  <2>5. /\ WithoutRig(groups[g], a) # NoGroup
        /\ Range(WithoutRig(groups[g], a).rig_ids)
             = Range(groups[g].rig_ids) \ {a}
    BY <2>3, WithoutRigProperties, NullAssumption
  <2>6. /\ groups'[rigs[r].group_id] # NoGroup
        /\ r \in Range(groups'[rigs[r].group_id].rig_ids)
    BY <1>1, <2>1, <2>2, <2>4, <2>5
  <2> QED BY <2>1, <2>2, <2>6 DEF Listed
<1>8. ASSUME NEW action \in Actions, SendGroupCommand(g, action)
      PROVE  GroupIdAgrees'
  <2>1. groups' = groups
    BY <1>8 DEF SendGroupCommand, CommandAll, CommandRaises
  <2> QED BY <1>8, <2>1, GroupCommandKeeps, KeptIdsAgree
<1> QED BY <1>2, <1>3, <1>5, <1>6, <1>7, <1>8 DEF GroupRequest

LEMMA GroupIdAgreesStep ==
  TypeOK /\ GroupsPartition /\ GroupIdAgrees /\ [Next]_vars => GroupIdAgrees'
<1> SUFFICES ASSUME TypeOK, GroupsPartition, GroupIdAgrees, [Next]_vars
             PROVE  GroupIdAgrees'
  OBVIOUS
<1>1. ASSUME KeepsGroupIds, groups' = groups PROVE GroupIdAgrees'
  BY <1>1, KeptIdsAgree
<1>2. ASSUME NEW r \in RigIds, RigRequest(r) PROVE GroupIdAgrees'
  <2>1. groups' = groups
    BY <1>2 DEF RigRequest, UpdateRigStatus, UdpHeartbeat, SetRigMode,
                SetDriverName, SendCommand, CommandAll, CommandRaises
  <2> QED BY <1>1, <1>2, <2>1, RigRequestKeeps
<1>3. ASSUME FleetRequest PROVE GroupIdAgrees'
  <2>1. groups' = groups
    BY <1>3 DEF FleetRequest, SendGlobalCommand, SyncAllRigs,
                FullSystemUpdate, CommandAll, CommandRaises
  <2> QED BY <1>1, <1>3, <2>1, FleetRequestKeeps
<1>4. ASSUME Restart PROVE GroupIdAgrees'
  BY <1>4 DEF Restart, GroupIdAgrees, Known
<1>5. ASSUME NEW i \in DOMAIN tasks, Worker(i) PROVE GroupIdAgrees'
  <2>1. Restart \/ (rigs' = rigs /\ groups' = groups)
    BY <1>5 DEF Worker, RunDispatch, SendUpdates, AdminUpdate
  <2> QED BY <1>1, <1>4, <2>1 DEF KeepsGroupIds
<1>6. ASSUME RemoveStaleRigs PROVE GroupIdAgrees'
  <2>1. KeepsGroupIds /\ groups' = groups
    BY <1>6 DEF RemoveStaleRigs, KeepsGroupIds
  <2> QED BY <1>1, <2>1
<1>7. ASSUME Tick PROVE GroupIdAgrees'
  <2>1. \A r \in RigIds : Known(r) => Aged(rigs[r]).group_id = rigs[r].group_id
    BY DEF Aged, Known, TypeOK, Rig
  <2>2. KeepsGroupIds /\ groups' = groups
    BY <1>7, <2>1 DEF Tick, KeepsGroupIds, Known
  <2> QED BY <1>1, <2>2
<1>8. ASSUME UNCHANGED vars PROVE GroupIdAgrees'
  BY <1>1, <1>8 DEF vars, KeepsGroupIds
<1> QED BY <1>2, <1>3, <1>4, <1>5, <1>6, <1>7, <1>8, GroupRequestAgrees
        DEF Next

\* The group id in a registered rig's record always names a group that lists
\* the rig.  It needs the partition: remove() drops a single occurrence.
THEOREM GroupIdAlwaysAgrees == Spec => []GroupIdAgrees
<1>1. Init => GroupIdAgrees
  BY DEF Init, GroupIdAgrees, Known
<1> QED BY <1>1, InitType, NextType, GroupsPartitionAlways,
           GroupIdAgreesStep, PTL DEF Spec
------------------------------------------------------------------------------
(***************************************************************************)
(* The kill guard.                                                         *)
(***************************************************************************)

\* KillGuardHolds for one record.
GuardKept(rig) == GuardActive(rig) => rig.status # "racing"

LEMMA GuardForm ==
  /\ KillGuardHolds <=>
       \A r \in RigIds : rigs[r] # NoRig => GuardKept(rigs[r])
  /\ KillGuardHolds' <=>
       \A r \in RigIds : rigs'[r] # NoRig => GuardKept(rigs'[r])
BY DEF KillGuardHolds, GuardKept, GuardActive, Known

LEMMA NoneIsNoAge == None \notin 0..KillGuard - 1
  BY NoneAssumption, RegistryAssumption

LEMMA UpsertedGuard ==
  ASSUME TypeOK, KillGuardHolds, NEW r \in RigIds
  PROVE  GuardKept(Upserted(r))
<1>1. CASE Known(r)
  <2>1. rigs[r] \in Rig /\ GuardKept(rigs[r])
    BY <1>1, GuardForm DEF TypeOK, Known
  <2> QED BY <1>1, <2>1 DEF Upserted, GuardKept, GuardActive, Rig
<1>2. CASE ~Known(r)
  BY <1>2, NoneIsNoAge DEF Upserted, FreshRig, GuardKept, GuardActive
<1> QED BY <1>1, <1>2

LEMMA UpdatedGuard ==
  ASSUME TypeOK, KillGuardHolds, NEW r \in RigIds, NEW u \in StatusUpdates
  PROVE  GuardKept(Updated(r, u))
<1> DEFINE a == [Upserted(r) EXCEPT !.ip = u.ip]
           b == WithStatus(a, u.status)
           c == WithCar(b, u.selected_car)
           d == WithLapCount(c, u.completed_laps)
<1>1. a \in Rig /\ GuardKept(a)
  BY UpsertedType, UpsertedGuard, UpdateFields
     DEF Rig, GuardKept, GuardActive
<1>2. b \in Rig
  BY <1>1, UpdateFields, WithStatusType
<1>3. GuardKept(b)
  <2> HIDE DEF a
  <2> DEFINE set == [a EXCEPT !.status = u.status]
             cleared == [a EXCEPT !.kill_requested_at = None,
                                  !.status = u.status]
  <2>1. \/ b = a
        \/ b = cleared
        \/ b = set /\ ~(u.status = "racing" /\ a.kill_requested_at # None)
    BY UpdateFields, RegistryAssumption DEF WithStatus, Downgrade, RigStatus
  <2>2. ~GuardActive(cleared)
    BY <1>1, NoneIsNoAge DEF GuardActive, Rig
  <2>3. ~(u.status = "racing" /\ a.kill_requested_at # None)
          => GuardKept(set)
    BY <1>1, NoneIsNoAge DEF GuardKept, GuardActive, Rig
  <2> QED BY <1>1, <2>1, <2>2, <2>3 DEF GuardKept
<1> HIDE DEF b
<1>4. c \in Rig /\ GuardKept(c)
  BY <1>2, <1>3, UpdateFields DEF WithCar, Rig, GuardKept, GuardActive
<1> HIDE DEF c
<1>5. GuardKept(d)
  BY <1>4, UpdateFields DEF WithLapCount, Rig, GuardKept, GuardActive
<1>6. Updated(r, u) = d
  BY DEF Updated, a, b, c
<1> QED BY <1>5, <1>6

LEMMA CommandedGuard ==
  ASSUME NEW rig \in Rig, GuardKept(rig), NEW action,
         NEW status \in {StatusOf(action), StatusOfOrIdle(action)}
  PROVE  GuardKept(Commanded(rig, action, status))
<1> DEFINE stamped == WithoutPick(WithKillStamp(rig, action), action)
<1>1. stamped \in Rig /\ stamped.status = rig.status
  BY RegistryAssumption DEF WithoutPick, WithKillStamp, Rig
<1>2. CASE status = None
  <2>1. action # "KILL_RACE"
    BY <1>2, StatusOfType, RegistryAssumption
       DEF StatusOf, StatusOfOrIdle, RigStatus
  <2>2. stamped.kill_requested_at \in {rig.kill_requested_at, None}
    BY <2>1 DEF WithoutPick, WithKillStamp, Rig
  <2> HIDE DEF stamped
  <2>3. GuardKept(stamped)
    BY <1>1, <2>2, NoneIsNoAge DEF GuardKept, GuardActive
  <2> QED BY <1>2, <2>3 DEF Commanded, stamped
<1>3. CASE status # None
  <2>1. status \in {"setup", "idle"}
    BY <1>3, StatusOfType
  <2> HIDE DEF stamped
  <2>2. GuardKept([stamped EXCEPT !.status = status])
    BY <1>1, <2>1 DEF GuardKept, Rig
  <2> QED BY <1>3, <2>2 DEF Commanded, stamped
<1> QED BY <1>2, <1>3

LEMMA AgedGuard ==
  ASSUME NEW rig \in Rig, GuardKept(rig)
  PROVE  GuardKept(Aged(rig))
<1>1. Aged(rig).status = rig.status
  BY DEF Aged, Rig
<1>2. Aged(rig).kill_requested_at =
        IF rig.kill_requested_at = None THEN None
        ELSE Older(rig.kill_requested_at, KillGuard)
  BY DEF Aged, Rig
<1>3. rig.kill_requested_at \in 0..KillGuard \cup {None}
  BY DEF Rig
<1>4. GuardActive(Aged(rig)) => GuardActive(rig)
  BY <1>2, <1>3, NoneIsNoAge, RegistryAssumption DEF GuardActive, Older
<1> QED BY <1>1, <1>4 DEF GuardKept

LEMMA CommandAllGuard ==
  ASSUME TypeOK, KillGuardHolds, NEW S \in SUBSET KnownRigs, NEW action,
         NEW status \in {StatusOf(action), StatusOfOrIdle(action)},
         CommandAll(S, action, status)
  PROVE  KillGuardHolds'
<1>1. \A r \in KnownRigs : rigs[r] \in Rig /\ GuardKept(rigs[r])
  BY GuardForm DEF TypeOK, KnownRigs, Known
<1>2. rigs' = [r \in RigIds |-> IF r \in S
                 THEN Commanded(rigs[r], action, status) ELSE rigs[r]]
  BY DEF CommandAll
<1>3. ASSUME NEW r \in RigIds, rigs'[r] # NoRig
      PROVE  GuardKept(rigs'[r])
  <2>1. CASE r \in S
    BY <1>1, <1>2, <2>1, CommandedGuard
  <2>2. CASE r \notin S
    BY <1>2, <1>3, <2>2, GuardForm
  <2> QED BY <2>1, <2>2
<1> QED BY <1>3, GuardForm

LEMMA RigRequestGuard ==
  ASSUME "racing" \notin UdpStatuses, TypeOK, KillGuardHolds,
         NEW r \in RigIds, RigRequest(r)
  PROVE  KillGuardHolds'
<1>0. /\ rigs \in [RigIds -> Rig \cup {NoRig}]
      /\ \A s \in RigIds : rigs[s] # NoRig => GuardKept(rigs[s])
  BY GuardForm DEF TypeOK
<1>1. ASSUME NEW rig, GuardKept(rig), rigs' = [rigs EXCEPT ![r] = rig]
      PROVE  KillGuardHolds'
  BY <1>0, <1>1, GuardForm
<1>2. ASSUME NEW u \in StatusUpdates, UpdateRigStatus(r, u)
      PROVE  KillGuardHolds'
  BY <1>1, <1>2, UpdatedGuard DEF UpdateRigStatus
<1>3. ASSUME NEW status \in UdpStatuses, UdpHeartbeat(r, status)
      PROVE  KillGuardHolds'
  <2>1. GuardKept([Upserted(r) EXCEPT !.ip = SledIp, !.status = status])
    BY UpsertedType DEF GuardKept, Rig
  <2> QED BY <1>1, <1>3, <2>1 DEF UdpHeartbeat
<1>4. ASSUME NEW mode \in Modes, SetRigMode(r, mode)
      PROVE  KillGuardHolds'
  <2>1. rigs[r] \in Rig /\ GuardKept(rigs[r])
    BY <1>0, <1>4 DEF SetRigMode, Known
  <2>2. GuardKept([rigs[r] EXCEPT !.mode = mode])
    BY <2>1 DEF GuardKept, GuardActive, Rig
  <2>3. rigs' = [rigs EXCEPT ![r] = [rigs[r] EXCEPT !.mode = mode]]
    BY <1>4 DEF SetRigMode
  <2> QED BY <1>1, <2>2, <2>3
<1>5. ASSUME NEW name \in Drivers, SetDriverName(r, name)
      PROVE  KillGuardHolds'
  <2> DEFINE old == IF Known(r) THEN rigs[r] ELSE FreshRig
  <2>1. old \in Rig /\ GuardKept(old)
    BY <1>0, FreshRigType, NoneIsNoAge
       DEF Known, FreshRig, GuardKept, GuardActive
  <2>2. rigs' = [rigs EXCEPT ![r] = [old EXCEPT !.driver_name = name]]
    BY <1>5 DEF SetDriverName
  <2> HIDE DEF old
  <2>3. GuardKept([old EXCEPT !.driver_name = name])
    BY <2>1 DEF GuardKept, GuardActive, Rig
  <2> QED BY <1>1, <2>2, <2>3
<1>6. ASSUME NEW action \in Actions, SendCommand(r, action)
      PROVE  KillGuardHolds'
  <2>1. {r} \in SUBSET KnownRigs /\ rigs[r] \in Rig /\ GuardKept(rigs[r])
    BY <1>0, <1>6 DEF SendCommand, KnownRigs, Known
  <2>2. CASE CommandAll({r}, action, StatusOf(action))
    BY <2>1, <2>2, CommandAllGuard
  <2>3. CASE CommandRaises({r}, action, StatusOf(action), rigs)
    <3>1. \A s \in RigIds : rigs'[s] = IF s \in {r}
            THEN Commanded(rigs[s], action, StatusOf(action)) ELSE rigs[s]
      BY <2>3 DEF CommandRaises
    <3>2. GuardKept(Commanded(rigs[r], action, StatusOf(action)))
      BY <2>1, CommandedGuard
    <3> QED BY <1>0, <3>1, <3>2, GuardForm
  <2> QED BY <1>6, <2>2, <2>3 DEF SendCommand
<1> QED BY <1>2, <1>3, <1>4, <1>5, <1>6 DEF RigRequest

LEMMA FleetRequestGuard ==
  ASSUME TypeOK, KillGuardHolds, FleetRequest
  PROVE  KillGuardHolds'
<1>1. /\ \A r \in RigIds : rigs[r] # NoRig => GuardKept(rigs[r])
      /\ \A r \in KnownRigs : rigs[r] \in Rig /\ GuardKept(rigs[r])
  BY GuardForm DEF TypeOK, KnownRigs, Known
<1>2. ASSUME NEW action \in Actions, SendGlobalCommand(action)
      PROVE  KillGuardHolds'
  <2>1. CASE CommandAll(KnownRigs, action, StatusOfOrIdle(action))
    BY <2>1, CommandAllGuard
  <2>2. ASSUME NEW r \in KnownRigs, NEW earlier \in SUBSET KnownRigs,
               CommandRaises(earlier \cup {r}, action,
                             StatusOfOrIdle(action), rigs)
        PROVE  KillGuardHolds'
    <3>1. \A s \in RigIds : rigs'[s] = IF s \in earlier \cup {r}
            THEN Commanded(rigs[s], action, StatusOfOrIdle(action))
            ELSE rigs[s]
      BY <2>2 DEF CommandRaises
    <3>2. \A s \in KnownRigs :
            GuardKept(Commanded(rigs[s], action, StatusOfOrIdle(action)))
      BY <1>1, CommandedGuard
    <3> QED BY <1>1, <3>1, <3>2, GuardForm
  <2> QED BY <1>2, <2>1, <2>2 DEF SendGlobalCommand
<1>3. ASSUME SyncAllRigs PROVE KillGuardHolds'
  BY <1>1, <1>3, GuardForm DEF SyncAllRigs
<1>4. ASSUME FullSystemUpdate PROVE KillGuardHolds'
  <2>1. \A r \in KnownRigs : GuardKept([rigs[r] EXCEPT !.status = "idle"])
    BY <1>1 DEF GuardKept, Rig
  <2> QED BY <1>4, <2>1, GuardForm DEF FullSystemUpdate, KnownRigs, Known
<1> QED BY <1>2, <1>3, <1>4 DEF FleetRequest

LEMMA GroupRequestGuard ==
  ASSUME TypeOK, KillGuardHolds, NEW g \in GroupIds, GroupRequest(g)
  PROVE  KillGuardHolds'
<1>1. /\ \A r \in RigIds : rigs[r] # NoRig => GuardKept(rigs[r])
      /\ \A r \in KnownRigs : rigs[r] \in Rig /\ GuardKept(rigs[r])
  BY GuardForm DEF TypeOK, KnownRigs, Known
<1>2. ASSUME NEW S, NEW id, SetGroupId(S, id)
      PROVE  KillGuardHolds'
  <2>1. \A r \in KnownRigs : GuardKept([rigs[r] EXCEPT !.group_id = id])
    BY <1>1 DEF GuardKept, GuardActive, Rig
  <2> QED BY <1>1, <1>2, <2>1, GuardForm DEF SetGroupId, KnownRigs, Known
<1>3. ASSUME NEW track \in Tracks, CreateGroup(g, track) \/ UpdateGroup(g, track)
      PROVE  KillGuardHolds'
  BY <1>1, <1>3, GuardForm DEF CreateGroup, UpdateGroup
<1>4. DeleteGroup(g) => KillGuardHolds'
  BY <1>2 DEF DeleteGroup
<1>5. ASSUME NEW r \in RigIds, AddRigToGroup(g, r) \/ RemoveRigFromGroup(g, r)
      PROVE  KillGuardHolds'
  BY <1>2, <1>5 DEF AddRigToGroup, RemoveRigFromGroup
<1>6. ASSUME NEW action \in Actions, SendGroupCommand(g, action)
      PROVE  KillGuardHolds'
  <2>1. GroupRigs(g) \in SUBSET KnownRigs
    BY <1>6, GroupRigsKnown DEF SendGroupCommand
  <2>2. CASE CommandAll(GroupRigs(g), action, StatusOfOrIdle(action))
    BY <2>1, <2>2, CommandAllGuard
  <2>3. ASSUME NEW reached \in SUBSET KnownRigs,
               rigs' = [r \in RigIds |-> IF r \in reached
                          THEN Commanded(rigs[r], action, StatusOfOrIdle(action))
                          ELSE GroupStamped(g, action, r)]
        PROVE  KillGuardHolds'
    <3>1. \A s \in KnownRigs :
            GuardKept(Commanded(rigs[s], action, StatusOfOrIdle(action)))
      BY <1>1, CommandedGuard
    <3>2. ASSUME NEW r \in RigIds, GroupStamped(g, action, r) # NoRig
          PROVE  GuardKept(GroupStamped(g, action, r))
      <4>1. CASE r \notin GroupRigs(g)
        BY <1>1, <3>2, <4>1 DEF GroupStamped
      <4>2. CASE r \in GroupRigs(g)
        <5>1. rigs[r] \in Rig /\ GuardKept(rigs[r])
          BY <1>1, <2>1, <4>2
        <5>2. WithKillStamp(rigs[r], action) \in Rig
          BY <5>1, RegistryAssumption DEF WithKillStamp, Rig
        <5>3. GuardKept([WithKillStamp(rigs[r], action)
                           EXCEPT !.status = "idle"])
          BY <5>2 DEF GuardKept, Rig
        <5>4. action # "KILL_RACE" =>
                GuardKept(WithKillStamp(rigs[r], action))
          BY <5>1, NoneIsNoAge DEF WithKillStamp, GuardKept, GuardActive, Rig
        <5> QED BY <4>2, <5>3, <5>4 DEF GroupStamped
      <4> QED BY <4>1, <4>2
    <3> QED BY <2>3, <3>1, <3>2, GuardForm
  <2> QED BY <1>6, <2>2, <2>3, GroupCommandForms
<1> QED BY <1>3, <1>4, <1>5, <1>6 DEF GroupRequest

LEMMA KillGuardStep ==
  ASSUME "racing" \notin UdpStatuses
  PROVE  TypeOK /\ KillGuardHolds /\ [Next]_vars => KillGuardHolds'
<1> SUFFICES ASSUME TypeOK, KillGuardHolds, [Next]_vars
             PROVE  KillGuardHolds'
  OBVIOUS
<1>1. rigs' = rigs => KillGuardHolds'
  BY GuardForm
<1>2. Restart => KillGuardHolds'
  BY GuardForm DEF Restart
<1>3. ASSUME NEW i \in DOMAIN tasks, Worker(i) PROVE KillGuardHolds'
  BY <1>1, <1>2, <1>3 DEF Worker, RunDispatch, SendUpdates, AdminUpdate
<1>4. RemoveStaleRigs => KillGuardHolds'
  BY GuardForm DEF RemoveStaleRigs
<1>5. Tick => KillGuardHolds'
  <2>1. \A r \in RigIds : Known(r) => GuardKept(Aged(rigs[r]))
    BY GuardForm, AgedGuard DEF TypeOK, Known
  <2> QED BY <2>1, GuardForm DEF Tick
<1>6. UNCHANGED vars => KillGuardHolds'
  BY <1>1 DEF vars
<1> QED BY <1>2, <1>3, <1>4, <1>5, <1>6, RigRequestGuard, FleetRequestGuard,
           GroupRequestGuard DEF Next

\* With the sleds reporting over HTTP only, no interleaving of heartbeats,
\* kiosk posts, commands, updates and timers shows a rig racing while its
\* kill guard is armed.
THEOREM KillGuardAlwaysHolds ==
  ASSUME "racing" \notin UdpStatuses
  PROVE  Spec => []KillGuardHolds
<1>1. Init => KillGuardHolds
  BY DEF Init, KillGuardHolds, Known
<1>2. TypeOK /\ KillGuardHolds /\ [Next]_vars => KillGuardHolds'
  BY KillGuardStep
<1> QED BY <1>1, <1>2, InitType, NextType, PTL DEF Spec
------------------------------------------------------------------------------
(***************************************************************************)
(* The leaderboard tables.                                                 *)
(***************************************************************************)

\* BestWasDriven for one row and the laps L of its rig and session.
DrivenIn(row, L) ==
  row # None => /\ \E e \in L : e.lap_time_ms = row.lap_time_ms
                /\ \E e \in L : e.lap = row.lap

\* The rows of rig r and session g in the table t.
RowsOf(t, r, g) ==
  {t[i] : i \in {j \in DOMAIN t : t[j].rig_id = r /\ t[j].session_id = g}}

LEMMA DrivenForm ==
  /\ BestWasDriven <=>
       \A r \in RigIds, g \in GroupIds :
         DrivenIn(session_best[<<r, g>>], RowsOf(laps, r, g))
  /\ BestWasDriven' <=>
       \A r \in RigIds, g \in GroupIds :
         DrivenIn(session_best'[<<r, g>>], RowsOf(laps', r, g))
BY DEF BestWasDriven, LapsOf, DrivenIn, RowsOf

\* The upserted row takes each value from the row it replaces or from the lap.
LEMMA UpsertIsDriven ==
  ASSUME NEW L, NEW row, DrivenIn(row, L), NEW e
  PROVE  DrivenIn(UpsertedBest(row, e), L \cup {e})
<1> DEFINE new == UpsertedBest(row, e)
<1>1. /\ \/ new.lap_time_ms = e.lap_time_ms
         \/ row # None /\ new.lap_time_ms = row.lap_time_ms
      /\ \/ new.lap = e.lap
         \/ row # None /\ new.lap = row.lap
  <2>1. CASE row = None
    BY <2>1 DEF UpsertedBest
  <2>2. CASE row # None
    <3>1. /\ new.lap = MaxOf(row.lap, e.lap)
          /\ new.lap_time_ms = BestTime(row.lap_time_ms, e.lap_time_ms)
      BY <2>2 DEF UpsertedBest
    <3> HIDE DEF new
    <3>2. new.lap = e.lap \/ new.lap = row.lap
      BY <3>1 DEF MaxOf
    <3>3. \/ new.lap_time_ms = e.lap_time_ms
          \/ new.lap_time_ms = row.lap_time_ms
      BY <3>1 DEF BestTime
    <3> QED BY <2>2, <3>2, <3>3
  <2> QED BY <2>1, <2>2
<1> HIDE DEF new
<1> QED BY <1>1 DEF DrivenIn, new

LEMMA DrivenInMore ==
  ASSUME NEW L, NEW row, DrivenIn(row, L), NEW e
  PROVE  DrivenIn(row, L \cup {e})
BY DEF DrivenIn

\* Inserting a row adds it to the rows of its own rig and session only.
LEMMA RowsAfterAppend ==
  ASSUME NEW t \in Seq(LapEntry), NEW e \in LapEntry, NEW r, NEW g
  PROVE  RowsOf(Append(t, e), r, g) =
           IF e.rig_id = r /\ e.session_id = g
             THEN RowsOf(t, r, g) \cup {e} ELSE RowsOf(t, r, g)
<1>1. PICK u : u = Append(t, e)
  OBVIOUS
<1>2. /\ Len(t) \in Nat /\ DOMAIN t = 1..Len(t)
      /\ DOMAIN u = 1..Len(t) + 1
      /\ u[Len(t) + 1] = e
      /\ \A i \in 1..Len(t) : u[i] = t[i]
  BY <1>1, LenProperties
<1>3. RowsOf(u, r, g) = IF e.rig_id = r /\ e.session_id = g
        THEN RowsOf(t, r, g) \cup {e} ELSE RowsOf(t, r, g)
  <2>1. DOMAIN u = DOMAIN t \cup {Len(t) + 1}
    BY <1>2
  <2>2. \A i \in DOMAIN t : u[i] = t[i]
    BY <1>2
  <2> QED BY <1>2, <2>1, <2>2 DEF RowsOf
<1> QED BY <1>1, <1>3

\* A row follows its lap, never the other way round.
LEMMA RecordKeepsDriven ==
  ASSUME DBTypeOK, BestWasDriven, NEW e \in LapEntry, Record(e)
  PROVE  BestWasDriven'
<1>1. CASE UNCHANGED dbVars
  BY <1>1, DrivenForm DEF dbVars
<1>2. CASE /\ laps' = Append(laps, e)
           /\ session_best' \in {session_best, WithBest(session_best, e)}
  <2> SUFFICES ASSUME NEW r \in RigIds, NEW g \in GroupIds
               PROVE  DrivenIn(session_best'[<<r, g>>], RowsOf(laps', r, g))
    BY DrivenForm
  <2> DEFINE L == RowsOf(laps, r, g)
             row == session_best[<<r, g>>]
  <2>1. laps \in Seq(LapEntry) /\ DrivenIn(row, L)
    BY DrivenForm DEF DBTypeOK
  <2>2. RowsOf(laps', r, g) =
          IF e.rig_id = r /\ e.session_id = g THEN L \cup {e} ELSE L
    BY <1>2, <2>1, RowsAfterAppend
  <2>3. \/ session_best'[<<r, g>>] = row
        \/ /\ e.rig_id = r /\ e.session_id = g
           /\ session_best'[<<r, g>>] = UpsertedBest(row, e)
    BY <1>2, WithBestRows
  <2>4. CASE e.rig_id = r /\ e.session_id = g
    <3>1. RowsOf(laps', r, g) = L \cup {e}
      BY <2>2, <2>4
    <3> HIDE DEF L, row
    <3>2. DrivenIn(UpsertedBest(row, e), L \cup {e}) /\ DrivenIn(row, L \cup {e})
      BY <2>1, UpsertIsDriven, DrivenInMore
    <3> QED BY <2>3, <3>1, <3>2
  <2>5. CASE ~(e.rig_id = r /\ e.session_id = g)
    BY <2>1, <2>2, <2>3, <2>5
  <2> QED BY <2>4, <2>5
<1> QED BY <1>1, <1>2 DEF Record

\* Only a status update writes to the tables.
LEMMA TablesStep ==
  ASSUME TypeOK, [Next]_vars
  PROVE  \/ UNCHANGED dbVars
         \/ \E e \in LapEntry : Record(e)
<1>1. ASSUME NEW r \in RigIds, RigRequest(r)
      PROVE  UNCHANGED dbVars \/ \E e \in LapEntry : Record(e)
  <2>1. ASSUME NEW u \in StatusUpdates, UpdateRigStatus(r, u)
        PROVE  UNCHANGED dbVars \/ \E e \in LapEntry : Record(e)
    <3>1. LapRow(r, u) \in LapEntry
      BY LapRowType
    <3> QED BY <2>1, <3>1 DEF UpdateRigStatus
  <2> QED BY <1>1, <2>1
          DEF RigRequest, UdpHeartbeat, SetRigMode, SetDriverName,
              SendCommand, CommandAll, CommandRaises, dbVars
<1>2. ASSUME NEW g \in GroupIds, GroupRequest(g)
      PROVE  UNCHANGED dbVars
  BY <1>2 DEF GroupRequest, CreateGroup, UpdateGroup, DeleteGroup,
              AddRigToGroup, RemoveRigFromGroup, SendGroupCommand,
              CommandAll, CommandRaises, dbVars
<1>3. FleetRequest => UNCHANGED dbVars
  BY DEF FleetRequest, SendGlobalCommand, SyncAllRigs, FullSystemUpdate,
         CommandAll, CommandRaises, dbVars
<1>4. ASSUME NEW i \in DOMAIN tasks, Worker(i)
      PROVE  UNCHANGED dbVars
  BY <1>4 DEF Worker, RunDispatch, SendUpdates, AdminUpdate, Restart, dbVars
<1>5. RemoveStaleRigs \/ Tick \/ Restart \/ UNCHANGED vars => UNCHANGED dbVars
  BY DEF RemoveStaleRigs, Tick, Restart, vars, dbVars
<1> QED BY <1>1, <1>2, <1>3, <1>4, <1>5 DEF Next

LEMMA DrivenStep ==
  TypeOK /\ BestWasDriven /\ [Next]_vars => BestWasDriven'
<1> SUFFICES ASSUME TypeOK, BestWasDriven, [Next]_vars
             PROVE  BestWasDriven'
  OBVIOUS
<1>1. CASE UNCHANGED dbVars
  BY <1>1, DrivenForm DEF dbVars
<1>2. CASE \E e \in LapEntry : Record(e)
  BY <1>2, RecordKeepsDriven DEF TypeOK
<1> QED BY <1>1, <1>2, TablesStep

\* The time and the lap count of every session_best row are those of laps
\* stored for its rig and session, although the two tables are committed one
\* after the other and either commit may fail, for any telemetry, groups,
\* reaps and restarts (leaderboard_db.py:66-126).
THEOREM BestAlwaysDriven == Spec => []BestWasDriven
<1>1. Init => BestWasDriven
  BY DrivenForm DEF Init, DBInit, DrivenIn
<1> QED BY <1>1, InitType, NextType, DrivenStep, PTL DEF Spec
------------------------------------------------------------------------------
(***************************************************************************)
(* The registry implements GroupAssignment.                                *)
(***************************************************************************)

\* The refinement mapping, for any table of groups.
OpenIn(table) == {g \in GroupIds : table[g] # NoGroup}
AssignedIn(table) ==
  [r \in RigIds |->
     IF \E g \in GroupIds : Listed(table, r, g)
       THEN CHOOSE g \in GroupIds : Listed(table, r, g) ELSE None]

LEMMA MappingForm ==
  /\ {g \in GroupIds : Exists(g)} = OpenIn(groups)
  /\ [r \in RigIds |-> GroupOf(r)] = AssignedIn(groups)
  /\ {g \in GroupIds : Exists(g)}' = OpenIn(groups')
  /\ [r \in RigIds |-> GroupOf(r)]' = AssignedIn(groups')
BY DEF OpenIn, AssignedIn, GroupOf, Member, Exists, Listed

\* With a partition, the group of a rig is the one that lists it.
LEMMA AssignedIsListed ==
  ASSUME NEW table, PartitionOf(table), NEW r \in RigIds
  PROVE  /\ \A g \in GroupIds : Listed(table, r, g) => AssignedIn(table)[r] = g
         /\ (\A g \in GroupIds : ~Listed(table, r, g)) =>
              AssignedIn(table)[r] = None
<1>1. \A g, h \in GroupIds : Listed(table, r, g) /\ Listed(table, r, h) => g = h
  BY DEF PartitionOf, Listed
<1> QED BY <1>1 DEF AssignedIn

\* Two tables that list a rig in the same groups assign it alike.
LEMMA SameListing ==
  ASSUME NEW t, NEW u, PartitionOf(t), PartitionOf(u), NEW r \in RigIds,
         \A g \in GroupIds : Listed(t, r, g) <=> Listed(u, r, g)
  PROVE  AssignedIn(t)[r] = AssignedIn(u)[r]
<1>1. CASE \E g \in GroupIds : Listed(t, r, g)
  BY <1>1, AssignedIsListed
<1>2. CASE \A g \in GroupIds : ~Listed(t, r, g)
  BY <1>2, AssignedIsListed
<1> QED BY <1>1, <1>2

\* add_rig_to_group as a step of the abstract specification.
LEMMA AddAssigns ==
  ASSUME TypeOK, GroupsPartition, GroupsPartition',
         NEW g \in GroupIds, NEW a \in RigIds, AddRigToGroup(g, a)
  PROVE  /\ g \in OpenIn(groups) /\ OpenIn(groups') = OpenIn(groups)
         /\ AssignedIn(groups') = [AssignedIn(groups) EXCEPT ![a] = g]
<1>1. PartitionOf(groups) /\ PartitionOf(groups') /\ groups[g] # NoGroup
  BY PartitionForm DEF AddRigToGroup, Exists
<1>2. /\ \A h \in GroupIds : groups'[h] # NoGroup <=> groups[h] # NoGroup
      /\ \A h \in GroupIds : groups[h] # NoGroup =>
           Range(groups'[h].rig_ids) =
             IF h = g THEN Range(groups[h].rig_ids) \cup {a}
             ELSE Range(groups[h].rig_ids) \ {a}
  BY AddedGroups
<1>3. AssignedIn(groups')[a] = g
  <2>1. Listed(groups', a, g)
    BY <1>1, <1>2 DEF Listed
  <2> QED BY <1>1, <2>1, AssignedIsListed
<1>4. ASSUME NEW r \in RigIds, r # a
      PROVE  AssignedIn(groups')[r] = AssignedIn(groups)[r]
  <2>1. \A h \in GroupIds : Listed(groups, r, h) <=> Listed(groups', r, h)
    BY <1>2, <1>4 DEF Listed
  <2> QED BY <1>1, <2>1, SameListing
<1>5. DOMAIN AssignedIn(groups) = RigIds /\ DOMAIN AssignedIn(groups') = RigIds
  BY DEF AssignedIn
<1>6. AssignedIn(groups') = [AssignedIn(groups) EXCEPT ![a] = g]
  <2>1. AssignedIn(groups) = [r \in RigIds |-> AssignedIn(groups)[r]]
        /\ AssignedIn(groups') = [r \in RigIds |-> AssignedIn(groups')[r]]
    BY DEF AssignedIn
  <2> QED BY <1>3, <1>4, <2>1
<1> QED BY <1>1, <1>2, <1>6 DEF OpenIn

\* remove_rig_from_group.
LEMMA RemoveUnassigns ==
  ASSUME TypeOK, GroupsPartition, GroupsPartition',
         NEW g \in GroupIds, NEW a \in RigIds, RemoveRigFromGroup(g, a)
  PROVE  /\ OpenIn(groups') = OpenIn(groups)
         /\ AssignedIn(groups') = [AssignedIn(groups) EXCEPT ![a] = None]
<1>1. /\ PartitionOf(groups) /\ PartitionOf(groups')
      /\ groups \in [GroupIds -> Group \cup {NoGroup}]
      /\ Listed(groups, a, g)
  BY PartitionForm DEF TypeOK, RemoveRigFromGroup, Member, Exists, Listed
<1>2. groups[g] \in Group /\ Distinct(groups[g].rig_ids)
  BY <1>1 DEF Listed, PartitionOf
<1>3. groups' = [groups EXCEPT ![g] = WithoutRig(groups[g], a)]
  BY DEF RemoveRigFromGroup
<1>4. /\ WithoutRig(groups[g], a) # NoGroup
      /\ Range(WithoutRig(groups[g], a).rig_ids) = Range(groups[g].rig_ids) \ {a}
  BY <1>2, WithoutRigProperties, NullAssumption
<1>5. \A h \in GroupIds : groups'[h] # NoGroup <=> groups[h] # NoGroup
  BY <1>1, <1>3, <1>4 DEF Listed
<1>6. \A r \in RigIds, h \in GroupIds :
        Listed(groups', r, h) <=> Listed(groups, r, h) /\ ~(r = a /\ h = g)
  BY <1>1, <1>3, <1>4, <1>5 DEF Listed
<1>7. AssignedIn(groups')[a] = None
  <2>1. \A h \in GroupIds : Listed(groups, a, h) => h = g
    BY <1>1 DEF PartitionOf, Listed
  <2>2. \A h \in GroupIds : ~Listed(groups', a, h)
    BY <1>6, <2>1
  <2> QED BY <1>1, <2>2, AssignedIsListed
<1>8. ASSUME NEW r \in RigIds, r # a
      PROVE  AssignedIn(groups')[r] = AssignedIn(groups)[r]
  <2>1. \A h \in GroupIds : Listed(groups, r, h) <=> Listed(groups', r, h)
    BY <1>6, <1>8
  <2> QED BY <1>1, <2>1, SameListing
<1>9. AssignedIn(groups') = [AssignedIn(groups) EXCEPT ![a] = None]
  <2>1. AssignedIn(groups) = [r \in RigIds |-> AssignedIn(groups)[r]]
        /\ AssignedIn(groups') = [r \in RigIds |-> AssignedIn(groups')[r]]
    BY DEF AssignedIn
  <2> QED BY <1>7, <1>8, <2>1
<1> QED BY <1>5, <1>9 DEF OpenIn

\* delete_group.
LEMMA DeleteCloses ==
  ASSUME TypeOK, GroupsPartition, GroupsPartition',
         NEW g \in GroupIds, DeleteGroup(g)
  PROVE  /\ g \in OpenIn(groups) /\ OpenIn(groups') = OpenIn(groups) \ {g}
         /\ AssignedIn(groups') =
              [r \in RigIds |-> IF AssignedIn(groups)[r] = g THEN None
                                ELSE AssignedIn(groups)[r]]
<1>1. /\ PartitionOf(groups) /\ PartitionOf(groups')
      /\ groups \in [GroupIds -> Group \cup {NoGroup}]
      /\ groups[g] # NoGroup
      /\ groups' = [groups EXCEPT ![g] = NoGroup]
  BY PartitionForm DEF TypeOK, DeleteGroup, Exists
<1>2. \A r \in RigIds, h \in GroupIds :
        Listed(groups', r, h) <=> Listed(groups, r, h) /\ h # g
  BY <1>1 DEF Listed
<1>3. ASSUME NEW r \in RigIds
      PROVE  AssignedIn(groups')[r] = IF AssignedIn(groups)[r] = g THEN None
                                      ELSE AssignedIn(groups)[r]
  <2>1. CASE Listed(groups, r, g)
    <3>1. \A h \in GroupIds : Listed(groups, r, h) => h = g
      BY <1>1, <2>1 DEF PartitionOf, Listed
    <3>2. \A h \in GroupIds : ~Listed(groups', r, h)
      BY <1>2, <3>1
    <3> QED BY <1>1, <2>1, <3>2, AssignedIsListed
  <2>2. CASE ~Listed(groups, r, g)
    <3>1. \A h \in GroupIds : Listed(groups, r, h) <=> Listed(groups', r, h)
      BY <1>2, <2>2
    <3>2. AssignedIn(groups')[r] = AssignedIn(groups)[r]
      BY <1>1, <3>1, SameListing
    <3>3. AssignedIn(groups)[r] # g
      <4>1. CASE \E h \in GroupIds : Listed(groups, r, h)
        BY <1>1, <2>2, <4>1, AssignedIsListed
      <4>2. CASE \A h \in GroupIds : ~Listed(groups, r, h)
        BY <1>1, <4>2, AssignedIsListed, NoneAssumption
      <4> QED BY <4>1, <4>2
    <3> QED BY <3>2, <3>3
  <2> QED BY <2>1, <2>2
<1>4. AssignedIn(groups') = [r \in RigIds |-> AssignedIn(groups')[r]]
  BY DEF AssignedIn
<1>5. AssignedIn(groups') =
        [r \in RigIds |-> IF AssignedIn(groups)[r] = g THEN None
                          ELSE AssignedIn(groups)[r]]
  BY <1>3, <1>4
<1> QED BY <1>1, <1>5 DEF OpenIn

\* Creating a group or editing its race settings assigns no rig.
LEMMA SameAssignment ==
  ASSUME TypeOK, GroupsPartition, GroupsPartition',
         \A r \in RigIds, g \in GroupIds :
           Listed(groups, r, g) <=> Listed(groups', r, g)
  PROVE  AssignedIn(groups') = AssignedIn(groups)
<1>1. PartitionOf(groups) /\ PartitionOf(groups')
  BY PartitionForm
<1>2. \A r \in RigIds : AssignedIn(groups')[r] = AssignedIn(groups)[r]
  BY <1>1, SameListing
<1>3. /\ AssignedIn(groups) = [r \in RigIds |-> AssignedIn(groups)[r]]
      /\ AssignedIn(groups') = [r \in RigIds |-> AssignedIn(groups')[r]]
  BY DEF AssignedIn
<1> QED BY <1>2, <1>3

\* An abstract step, in terms of the mapping.
AbstractStep(o, a, o2, a2) ==
  \/ o2 = o /\ a2 = a
  \/ \E g \in GroupIds : g \notin o /\ o2 = o \cup {g} /\ a2 = a
  \/ \E g \in GroupIds :
       /\ g \in o /\ o2 = o \ {g}
       /\ a2 = [r \in RigIds |-> IF a[r] = g THEN None ELSE a[r]]
  \/ \E g \in GroupIds, r \in RigIds :
       g \in o /\ o2 = o /\ a2 = [a EXCEPT ![r] = g]
  \/ \E r \in RigIds : o2 = o /\ a2 = [a EXCEPT ![r] = None]
  \/ o2 = {} /\ a2 = [r \in RigIds |-> None]

LEMMA AbstractStepForm ==
  AbstractStep(OpenIn(groups), AssignedIn(groups),
               OpenIn(groups'), AssignedIn(groups'))
    => [Assignment!ANext]_(Assignment!avars)
<1> DEFINE o == OpenIn(groups)
           a == AssignedIn(groups)
           o2 == OpenIn(groups')
           a2 == AssignedIn(groups')
<1> SUFFICES ASSUME AbstractStep(o, a, o2, a2)
             PROVE  [Assignment!ANext]_(Assignment!avars)
  OBVIOUS
<1> USE MappingForm
<1> HIDE DEF o, a, o2, a2
<1>1. CASE o2 = o /\ a2 = a
  BY <1>1 DEF o, a, o2, a2, Assignment!avars
<1>2. CASE \E g \in GroupIds : g \notin o /\ o2 = o \cup {g} /\ a2 = a
  BY <1>2 DEF o, a, o2, a2, Assignment!ANext, Assignment!OpenGroup
<1>3. CASE \E g \in GroupIds :
             /\ g \in o /\ o2 = o \ {g}
             /\ a2 = [r \in RigIds |-> IF a[r] = g THEN None ELSE a[r]]
  BY <1>3 DEF o, a, o2, a2, Assignment!ANext, Assignment!CloseGroup
<1>4. CASE \E g \in GroupIds, r \in RigIds :
             g \in o /\ o2 = o /\ a2 = [a EXCEPT ![r] = g]
  BY <1>4 DEF o, a, o2, a2, Assignment!ANext, Assignment!Assign
<1>5. CASE \E r \in RigIds : o2 = o /\ a2 = [a EXCEPT ![r] = None]
  BY <1>5 DEF o, a, o2, a2, Assignment!ANext, Assignment!Unassign
<1>6. CASE o2 = {} /\ a2 = [r \in RigIds |-> None]
  BY <1>6 DEF o, a, o2, a2, Assignment!ANext, Assignment!ForgetAll
<1> QED BY <1>1, <1>2, <1>3, <1>4, <1>5, <1>6 DEF AbstractStep

LEMMA GroupRequestImplements ==
  ASSUME TypeOK, GroupsPartition, GroupsPartition',
         NEW g \in GroupIds, GroupRequest(g)
  PROVE  AbstractStep(OpenIn(groups), AssignedIn(groups),
                      OpenIn(groups'), AssignedIn(groups'))
<1>1. groups \in [GroupIds -> Group \cup {NoGroup}]
  BY DEF TypeOK
<1>2. ASSUME NEW track \in Tracks, CreateGroup(g, track)
      PROVE  /\ g \notin OpenIn(groups)
             /\ OpenIn(groups') = OpenIn(groups) \cup {g}
             /\ AssignedIn(groups') = AssignedIn(groups)
  <2>1. [rig_ids |-> <<>>, track |-> track] \in Group
    BY DEF Group
  <2>2. [rig_ids |-> <<>>, track |-> track] # NoGroup
    BY <2>1, NullAssumption
  <2>3. /\ groups' = [groups EXCEPT ![g] = [rig_ids |-> <<>>, track |-> track]]
        /\ groups[g] = NoGroup
    BY <1>2 DEF CreateGroup, FreshGroupId, Exists
  <2>4. Range(<<>>) = {}
    BY DEF Range
  <2>5. \A r \in RigIds, h \in GroupIds :
          Listed(groups, r, h) <=> Listed(groups', r, h)
    BY <1>1, <2>3, <2>4 DEF Listed
  <2>6. AssignedIn(groups') = AssignedIn(groups)
    BY <2>5, SameAssignment
  <2> QED BY <1>1, <2>2, <2>3, <2>6 DEF OpenIn
<1>3. ASSUME NEW track \in Tracks, UpdateGroup(g, track)
      PROVE  /\ OpenIn(groups') = OpenIn(groups)
             /\ AssignedIn(groups') = AssignedIn(groups)
  <2>1. groups[g] \in Group /\ groups[g] # NoGroup
    BY <1>1, <1>3 DEF UpdateGroup, Exists
  <2>2. /\ [groups[g] EXCEPT !.track = track] \in Group
        /\ [groups[g] EXCEPT !.track = track].rig_ids = groups[g].rig_ids
    BY <2>1 DEF Group
  <2>3. groups' = [groups EXCEPT ![g] = [groups[g] EXCEPT !.track = track]]
    BY <1>3 DEF UpdateGroup
  <2>4. /\ \A h \in GroupIds : groups'[h] # NoGroup <=> groups[h] # NoGroup
        /\ \A h \in GroupIds : groups[h] # NoGroup =>
             groups'[h].rig_ids = groups[h].rig_ids
    BY <1>1, <2>1, <2>2, <2>3, NullAssumption
  <2>5. \A r \in RigIds, h \in GroupIds :
          Listed(groups, r, h) <=> Listed(groups', r, h)
    BY <2>4 DEF Listed
  <2> QED BY <2>4, <2>5, SameAssignment DEF OpenIn
<1>4. ASSUME NEW action \in Actions, SendGroupCommand(g, action)
      PROVE  groups' = groups
  BY <1>4 DEF SendGroupCommand, CommandAll, CommandRaises
<1>5. CASE \E track \in Tracks : CreateGroup(g, track) \/ UpdateGroup(g, track)
  BY <1>2, <1>3, <1>5 DEF AbstractStep
<1>6. CASE DeleteGroup(g)
  BY <1>6, DeleteCloses DEF AbstractStep
<1>7. CASE \E r \in RigIds : AddRigToGroup(g, r) \/ RemoveRigFromGroup(g, r)
  BY <1>7, AddAssigns, RemoveUnassigns DEF AbstractStep
<1>8. CASE \E action \in Actions : SendGroupCommand(g, action)
  BY <1>4, <1>8 DEF AbstractStep
<1> QED BY <1>5, <1>6, <1>7, <1>8 DEF GroupRequest

LEMMA AssignmentStep ==
  TypeOK /\ GroupsPartition /\ GroupsPartition' /\ [Next]_vars
    => [Assignment!ANext]_(Assignment!avars)
<1> SUFFICES ASSUME TypeOK, GroupsPartition, GroupsPartition', [Next]_vars
             PROVE  AbstractStep(OpenIn(groups), AssignedIn(groups),
                                 OpenIn(groups'), AssignedIn(groups'))
  BY AbstractStepForm
<1>1. CASE \E g \in GroupIds : GroupRequest(g)
  BY <1>1, GroupRequestImplements
<1>2. CASE groups' = groups
  BY <1>2 DEF AbstractStep
<1>3. CASE Restart
  <2>1. groups' \in {groups, [g \in GroupIds |-> NoGroup]}
    BY <1>3 DEF Restart
  <2>2. CASE groups' = [g \in GroupIds |-> NoGroup]
    <3>1. OpenIn(groups') = {}
      BY <2>2 DEF OpenIn
    <3>2. AssignedIn(groups') = [r \in RigIds |-> None]
      BY <2>2 DEF AssignedIn, Listed
    <3> QED BY <3>1, <3>2 DEF AbstractStep
  <2> QED BY <1>2, <2>1, <2>2
<1> QED BY <1>1, <1>2, <1>3, GroupsStep

\* Every behaviour of the registry is one of GroupAssignment: a rig is in at
\* most one open group and each move of a rig is a single step.
THEOREM RegistryImplementsAssignment == Spec => ImplementsAssignment
<1>1. Init => Assignment!AInit
  <2> SUFFICES ASSUME Init PROVE Assignment!AInit
    OBVIOUS
  <2>1. groups = [g \in GroupIds |-> NoGroup]
    BY DEF Init
  <2>2. OpenIn(groups) = {} /\ AssignedIn(groups) = [r \in RigIds |-> None]
    BY <2>1 DEF OpenIn, AssignedIn, Listed
  <2> QED BY <2>2, MappingForm DEF Assignment!AInit
<1>2. TypeOK /\ GroupsPartition /\ GroupsPartition' /\ [Next]_vars
        => [Assignment!ANext]_(Assignment!avars)
  BY AssignmentStep
<1> QED BY <1>1, <1>2, TypeCorrect, GroupsPartitionAlways, PTL
        DEF Spec, ImplementsAssignment, Assignment!ASpec
==============================================================================
