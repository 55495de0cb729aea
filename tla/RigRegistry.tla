----------------------------- MODULE RigRegistry -----------------------------
(***************************************************************************)
(* The orchestrator's registry of rigs and rig groups: AppState (state.py) *)
(* and every HTTP handler, UDP callback and background coroutine that      *)
(* changes it (routers/rigs.py, groups.py, commands.py, settings.py,       *)
(* services/heartbeat.py).                                                 *)
(*                                                                         *)
(* The handlers are coroutines without an await on one event loop, so each *)
(* of them is one atomic action here.  The commands they hand to           *)
(* BackgroundTasks run later on worker threads: one batch per request, the *)
(* batches of different requests concurrently.                             *)
(*                                                                         *)
(* Time.  The code compares time.time() with the stamps last_seen and      *)
(* kill_requested_at; the model keeps their ages, which saturate once they *)
(* are past every threshold the code compares them with.                   *)
(***************************************************************************)
EXTENDS Integers, SequencesExt, LeaderboardDB

CONSTANTS
  Cars,            \* car ids a kiosk or the dashboard may pick
  Tracks,          \* values of a group's race settings
  Modes,           \* modes POST /rigs/{id}/mode is called with
  SledStatuses,    \* statuses a sled's HTTP heartbeat carries
  KioskStatuses,   \* statuses a web kiosk posts
  UdpStatuses,     \* statuses of UDP heartbeats; {} when nobody sends any
  Actions,         \* actions of POST /command...
  LapCounts,       \* telemetry.completed_laps of a heartbeat that has telemetry
  LapTimes,        \* telemetry.last_lap_time, parsed
  SledIp,          \* the address a rig's sled reports
  WebKiosk,        \* "web-kiosk", the pseudo address of a browser kiosk
  AdminHost,       \* the dashboard's own host, seen when a post names no ip
  NoRig,           \* _rigs.get(id) is None
  NoGroup,         \* _groups.get(id) is None
  StaleTimeout,    \* HEARTBEAT_TIMEOUT_SEC
  KillGuard,       \* seconds a KILL_RACE blocks promotions to racing
  DowngradeWindow, \* seconds within which a downgrade is "too soon"
  MaxBatches,      \* bound: requests whose dispatches are still pending
  MaxLaps          \* bound: rows of the laps table

Ips == {SledIp, WebKiosk, AdminHost}
Random == "Random"     \* the empty car selection of the dashboard
RigStatus == {"idle", "setup", "ready", "racing", "syncing"}
Action == {"SETUP_MODE", "KILL_RACE", "LAUNCH_RACE", "SYNC_MODS", "UPDATE"}

\* DowngradeWindow is smaller than the reaper's timeout (3 against 10), so
\* an age of StaleTimeout + 1 is past both.
ASSUME RegistryAssumption ==
  /\ StaleTimeout \in Nat /\ KillGuard \in Nat \ {0}
  /\ DowngradeWindow \in 1..StaleTimeout
  /\ SledStatuses \cup KioskStatuses \cup UdpStatuses \subseteq RigStatus
  /\ Actions \subseteq Action \ {"UPDATE"}
  /\ LapCounts \subseteq Nat \ {0} /\ LapTimes \subseteq Nat
  /\ MaxBatches \in Nat /\ MaxLaps \in Nat
  /\ Random \notin Cars /\ None \notin Cars /\ None \notin RigStatus

VARIABLES
  rigs,     \* AppState._rigs: rig id -> record, NoRig when absent
  groups,   \* AppState._groups and data/groups.json: group id -> record
  tasks     \* pending BackgroundTasks, one batch per request

registryVars == <<rigs, groups, tasks>>
vars == <<rigs, groups, tasks, laps, session_best>>

Rig ==
  [status: RigStatus, mode: Modes \cup {"lockout"}, ip: Ips \cup {None},
   last_seen: 0..StaleTimeout + 1, kill_requested_at: 0..KillGuard \cup {None},
   selected_car: Cars \cup {None}, driver_name: Drivers \cup {None},
   group_id: GroupIds \cup {None}, last_lap_count: LapCounts \cup {0}]
Group == [rig_ids: Seq(RigIds), track: Tracks]

\* A rig or group record and the null record are different values.
ASSUME NullAssumption == NoRig \notin Rig /\ NoGroup \notin Group

\* One queued call dispatch_command(ip, COMMAND_PORT, payload).
Task == [rig_id: RigIds, ip: {SledIp, AdminHost}, action: Action,
         car: Cars \cup {None}]
\* What a request's worker still has to do: the dispatches in any order, and
\* for POST /update the two tasks that follow them.
Batch == [dispatch: SUBSET Task, after: {"end", "send_updates", "restart"}]

Known(r) == rigs[r] # NoRig
Exists(g) == groups[g] # NoGroup
KnownRigs == {r \in RigIds : Known(r)}
Member(r, g) == Exists(g) /\ r \in Range(groups[g].rig_ids)

\* next((g for g in state.get_groups() if rig_id in g.rig_ids), None)
GroupOf(r) ==
  IF \E g \in GroupIds : Member(r, g)
    THEN CHOOSE g \in GroupIds : Member(r, g) ELSE None
------------------------------------------------------------------------------
(***************************************************************************)
(* upsert_rig and the status handler.                                      *)
(***************************************************************************)
FreshRig ==
  [status |-> "idle", mode |-> "lockout", ip |-> None, last_seen |-> 0,
   kill_requested_at |-> None, selected_car |-> None, driver_name |-> None,
   group_id |-> None, last_lap_count |-> 0]

\* The record upsert_rig leaves for r, before the caller's fields are added.
Upserted(r) ==
  IF Known(r) THEN [rigs[r] EXCEPT !.last_seen = 0] ELSE FreshRig

\* The precedence rules of update_rig_status on an already upserted record.
\* Faulty variant: a guard does not expire.
GuardForever(rig) == rig.kill_requested_at # None
GuardActive(rig) == rig.kill_requested_at \in 0..KillGuard - 1
Downgrade(old, new) == old \in {"racing", "ready"} /\ new \in {"idle", "setup"}
\* Faulty variant: the kill guard only compares, it no longer blocks.
WithStatusUnguarded(rig, new) ==
  CASE new = None -> rig
    [] Downgrade(rig.status, new) /\ rig.last_seen < DowngradeWindow -> rig
    [] OTHER -> [rig EXCEPT !.status = new]
WithStatus(rig, new) ==
  CASE new = None -> rig
    [] new = "racing" /\ rig.kill_requested_at # None ->
         IF GuardActive(rig) THEN rig
         ELSE [rig EXCEPT !.kill_requested_at = None, !.status = new]
    [] Downgrade(rig.status, new) ->
         IF rig.last_seen < DowngradeWindow THEN rig
         ELSE [rig EXCEPT !.kill_requested_at = None, !.status = new]
    [] OTHER -> [rig EXCEPT !.status = new]

\* Faulty variant: the empty pick is stored as it came.
WithCarAsPosted(rig, car) ==
  IF car = None THEN rig ELSE [rig EXCEPT !.selected_car = car]
\* Heartbeats never carry a pick; an empty pick clears the selection.
WithCar(rig, car) ==
  IF car = None THEN rig
  ELSE [rig EXCEPT !.selected_car = IF car = Random THEN None ELSE car]

WithLapCount(rig, completed) ==
  IF completed > rig.last_lap_count
    THEN [rig EXCEPT !.last_lap_count = completed] ELSE rig

\* What clients post: a sled's heartbeat, a kiosk's check-in or pick, the
\* dashboard's pick.  completed_laps is 0 without telemetry.
Heartbeats ==
  [status: SledStatuses, ip: {SledIp}, selected_car: {None},
   completed_laps: LapCounts \cup {0}, last_lap_time: LapTimes \cup {None}]
KioskPosts ==
  [status: KioskStatuses \cup {None}, ip: {WebKiosk},
   selected_car: Cars \cup {None}, completed_laps: {0}, last_lap_time: {None}]
DashboardPicks ==
  [status: {None}, ip: {AdminHost}, selected_car: Cars \cup {Random},
   completed_laps: {0}, last_lap_time: {None}]
StatusUpdates == Heartbeats \cup KioskPosts \cup DashboardPicks

\* The rig's record after POST /rigs/{r}/status with body u.
Updated(r, u) ==
  WithLapCount(
    WithCar(WithStatus([Upserted(r) EXCEPT !.ip = u.ip], u.status),
            u.selected_car),
    u.completed_laps)

\* The laps row for a lap the handler has just noticed.
LapRow(r, u) ==
  [rig_id |-> r, driver_name |-> Upserted(r).driver_name,
   session_id |-> GroupOf(r), lap |-> u.completed_laps,
   lap_time_ms |-> u.last_lap_time]

\* POST /rigs/{rig_id}/status.  The record counts the lap before the lap is
\* stored; if storing it raises, the record stays as it is here.
UpdateRigStatus(r, u) ==
  /\ rigs' = [rigs EXCEPT ![r] = Updated(r, u)]
  /\ IF u.completed_laps > Upserted(r).last_lap_count
       THEN Len(laps) < MaxLaps /\ Record(LapRow(r, u))
       ELSE UNCHANGED dbVars
  /\ UNCHANGED <<groups, tasks>>

\* HeartbeatProtocol.datagram_received: an upsert, no precedence rules.
UdpHeartbeat(r, status) ==
  /\ rigs' = [rigs EXCEPT ![r] =
                [Upserted(r) EXCEPT !.ip = SledIp, !.status = status]]
  /\ UNCHANGED <<groups, tasks, laps, session_best>>

\* POST /rigs/{rig_id}/mode.
SetRigMode(r, mode) ==
  /\ Known(r)
  /\ rigs' = [rigs EXCEPT ![r].mode = mode]
  /\ UNCHANGED <<groups, tasks, laps, session_best>>

\* POST /rigs/{rig_id}/driver_name, which registers an unknown rig.
SetDriverName(r, name) ==
  /\ rigs' = [rigs EXCEPT ![r] =
                [(IF Known(r) THEN rigs[r] ELSE FreshRig)
                   EXCEPT !.driver_name = name]]
  /\ UNCHANGED <<groups, tasks, laps, session_best>>
------------------------------------------------------------------------------
(***************************************************************************)
(* Commands.                                                               *)
(***************************************************************************)
StatusOf(action) ==
  CASE action = "SETUP_MODE" -> "setup"
    [] action = "KILL_RACE" -> "idle"
    [] OTHER -> None
StatusOfOrIdle(action) ==
  IF StatusOf(action) = None THEN "idle" ELSE StatusOf(action)

\* Faulty variant: a launch leaves the guard set.
WithKillStampOnly(rig, action) ==
  IF action = "KILL_RACE" THEN [rig EXCEPT !.kill_requested_at = 0] ELSE rig
WithKillStamp(rig, action) ==
  CASE action = "KILL_RACE" -> [rig EXCEPT !.kill_requested_at = 0]
    [] action = "LAUNCH_RACE" -> [rig EXCEPT !.kill_requested_at = None]
    [] OTHER -> rig
WithoutPick(rig, action) ==
  IF action = "SETUP_MODE" THEN [rig EXCEPT !.selected_car = None] ELSE rig

\* A rig's record after a command addressed to it; status is None when the
\* single-rig endpoint has no status for the action.
Commanded(rig, action, status) ==
  LET stamped == WithoutPick(WithKillStamp(rig, action), action)
  IN IF status = None THEN stamped ELSE [stamped EXCEPT !.status = status]

\* Web kiosks have no TCP listener; the payload carries the rig's own pick.
TasksFor(S, action) ==
  {[rig_id |-> r, ip |-> rigs[r].ip, action |-> action,
    car |-> WithoutPick(rigs[r], action).selected_car] :
     r \in {s \in S : rigs[s].ip \notin {WebKiosk, None}}}
\* The fleet-wide payloads carry no car.
WithoutCar(S) == {[t EXCEPT !.car = None] : t \in S}
Queue(batch) ==
  tasks' = IF batch.dispatch = {} /\ batch.after = "end"
             THEN tasks ELSE Append(tasks, batch)
CanQueue == Len(tasks) < MaxBatches

\* The loop over the addressed rigs S comes to its end: each of them is
\* updated and, unless it is a web kiosk, gets a dispatch.
CommandAll(S, action, status) ==
  /\ CanQueue
  /\ \A r \in S : rigs[r].ip # None
  /\ rigs' = [r \in RigIds |-> IF r \in S
                THEN Commanded(rigs[r], action, status) ELSE rigs[r]]
  /\ Queue([dispatch |-> TasksFor(S, action), after |-> "end"])
  /\ UNCHANGED <<groups, laps, session_best>>

\* rig["ip"] raises KeyError at a rig that never reported an address.  The
\* rigs of the loop up to and including that one keep their update, the rest
\* only get what precedes the loop, and no task of the request ever runs.
CommandRaises(reached, action, status, before) ==
  /\ rigs' = [r \in RigIds |-> IF r \in reached
                THEN Commanded(rigs[r], action, status) ELSE before[r]]
  /\ UNCHANGED <<groups, tasks, laps, session_best>>

\* POST /command, to one rig.
SendCommand(r, action) ==
  /\ Known(r)
  /\ \/ CommandAll({r}, action, StatusOf(action))
     \/ /\ rigs[r].ip = None
        /\ CommandRaises({r}, action, StatusOf(action), rigs)

\* POST /command/global, in the order the rigs registered.
SendGlobalCommand(action) ==
  \/ CommandAll(KnownRigs, action, StatusOfOrIdle(action))
  \/ \E r \in KnownRigs, earlier \in SUBSET KnownRigs :
       /\ rigs[r].ip = None /\ \A s \in earlier : rigs[s].ip # None
       /\ CommandRaises(earlier \cup {r}, action, StatusOfOrIdle(action), rigs)

\* POST /command/group/{group_id}: KILL_RACE and LAUNCH_RACE stamp every
\* member first, then the loop runs over the registered ones in list order.
GroupRigs(g) == {r \in Range(groups[g].rig_ids) : Known(r)}
GroupStamped(g, action, r) ==
  IF r \notin GroupRigs(g) THEN rigs[r]
  ELSE IF action = "KILL_RACE"
    THEN [WithKillStamp(rigs[r], action) EXCEPT !.status = "idle"]
    ELSE WithKillStamp(rigs[r], action)
SendGroupCommand(g, action) ==
  /\ Exists(g)
  /\ \/ CommandAll(GroupRigs(g), action, StatusOfOrIdle(action))
     \/ \E i \in DOMAIN groups[g].rig_ids :
          LET upTo == {groups[g].rig_ids[j] : j \in 1..i} \cap KnownRigs
              before == [r \in RigIds |-> GroupStamped(g, action, r)]
          IN /\ {r \in upTo : rigs[r].ip = None} = {groups[g].rig_ids[i]}
             /\ CommandRaises(upTo, action, StatusOfOrIdle(action), before)

\* POST /sync: SYNC_MODS to every sled, no status change.
SyncAllRigs ==
  /\ CanQueue
  /\ Queue([dispatch |-> WithoutCar(TasksFor(KnownRigs, "SYNC_MODS")),
            after |-> "end"])
  /\ UNCHANGED <<rigs, groups, laps, session_best>>

\* POST /update: every rig idle, KILL_RACE to the sleds, then the two tasks
\* that send UPDATE and restart the orchestrator.
FullSystemUpdate ==
  /\ CanQueue
  /\ rigs' = [r \in RigIds |->
                IF Known(r) THEN [rigs[r] EXCEPT !.status = "idle"] ELSE NoRig]
  /\ Queue([dispatch |-> WithoutCar(TasksFor(KnownRigs, "KILL_RACE")),
            after |-> "send_updates"])
  /\ UNCHANGED <<groups, laps, session_best>>
------------------------------------------------------------------------------
(***************************************************************************)
(* The worker threads that run the batches.                                *)
(***************************************************************************)

\* One dispatch_command call returns.  It swallows every error, so the
\* registry does not learn whether the rig was reached.
Dispatched(i, t) ==
  LET rest == [tasks[i] EXCEPT !.dispatch = @ \ {t}]
  IN tasks' = IF rest.dispatch = {} /\ rest.after = "end"
                THEN RemoveAt(tasks, i) ELSE [tasks EXCEPT ![i] = rest]
RunDispatch(i) ==
  /\ \E t \in tasks[i].dispatch : Dispatched(i, t)
  /\ UNCHANGED <<rigs, groups, laps, session_best>>

\* _send_updates_sync: the rigs are read again, after the kills.
SendUpdates(i) ==
  /\ tasks[i].dispatch = {} /\ tasks[i].after = "send_updates"
  /\ tasks' = [tasks EXCEPT ![i] =
                 [dispatch |-> WithoutCar(TasksFor(KnownRigs, "UPDATE")),
                  after |-> "restart"]]
  /\ UNCHANGED <<rigs, groups, laps, session_best>>

\* The process starts again: the registry and the pending tasks are gone, the
\* groups come back from groups.json, which _save_groups rewrites in place: if
\* the process stopped half-way through a write, _load_persisted starts fresh.
Restart ==
  /\ rigs' = [r \in RigIds |-> NoRig]
  /\ groups' \in {groups, [g \in GroupIds |-> NoGroup]}
  /\ tasks' = <<>>
  /\ UNCHANGED dbVars

\* _run_admin_update ends the process with os._exit, unless there is no
\* script to run or the pull fails.
AdminUpdate(i) ==
  /\ tasks[i].dispatch = {} /\ tasks[i].after = "restart"
  /\ \/ Restart
     \/ tasks' = RemoveAt(tasks, i)
        /\ UNCHANGED <<rigs, groups, laps, session_best>>
------------------------------------------------------------------------------
(***************************************************************************)
(* Groups.                                                                 *)
(***************************************************************************)
\* Faulty variant: the rig stays in the list.
WithoutRigForgotten(group, r) == group
WithoutRig(group, r) == [group EXCEPT !.rig_ids = RemoveFirst(@, r)]
SetGroupId(S, id) ==
  rigs' = [r \in RigIds |-> IF r \in S /\ Known(r)
             THEN [rigs[r] EXCEPT !.group_id = id] ELSE rigs[r]]

\* A group id is a fresh uuid: no lap row names it.
FreshGroupId(g) == ~Exists(g) /\ ~SessionUsed(g)

\* POST /groups/.
CreateGroup(g, track) ==
  /\ FreshGroupId(g)
  /\ groups' = [groups EXCEPT ![g] = [rig_ids |-> <<>>, track |-> track]]
  /\ UNCHANGED <<rigs, tasks, laps, session_best>>

\* PUT /groups/{group_id}: race settings only.
UpdateGroup(g, track) ==
  /\ Exists(g)
  /\ groups' = [groups EXCEPT ![g].track = track]
  /\ UNCHANGED <<rigs, tasks, laps, session_best>>

\* Faulty variant: the members' records keep the id of the deleted group.
DeleteGroupOnly(g) ==
  /\ Exists(g)
  /\ groups' = [groups EXCEPT ![g] = NoGroup]
  /\ UNCHANGED <<rigs, tasks, laps, session_best>>

\* DELETE /groups/{group_id}.
DeleteGroup(g) ==
  /\ Exists(g)
  /\ SetGroupId(Range(groups[g].rig_ids), None)
  /\ groups' = [groups EXCEPT ![g] = NoGroup]
  /\ UNCHANGED <<tasks, laps, session_best>>

\* Faulty variant: appended without leaving the previous group.
AddRigToGroupToo(g, r) ==
  /\ Exists(g) /\ ~Member(r, g)
  /\ groups' = [groups EXCEPT ![g].rig_ids = Append(@, r)]
  /\ SetGroupId({r}, g)
  /\ UNCHANGED <<tasks, laps, session_best>>

\* POST /groups/{group_id}/rigs: out of any group first, then appended.
AddRigToGroup(g, r) ==
  /\ Exists(g)
  /\ groups' = [h \in GroupIds |->
       LET left == IF Exists(h) THEN WithoutRig(groups[h], r) ELSE NoGroup
       IN IF h = g THEN [left EXCEPT !.rig_ids = Append(@, r)] ELSE left]
  /\ SetGroupId({r}, g)
  /\ UNCHANGED <<tasks, laps, session_best>>

\* DELETE /groups/{group_id}/rigs/{rig_id}.
RemoveRigFromGroup(g, r) ==
  /\ Member(r, g)
  /\ groups' = [groups EXCEPT ![g] = WithoutRig(@, r)]
  /\ SetGroupId({r}, None)
  /\ UNCHANGED <<tasks, laps, session_best>>
------------------------------------------------------------------------------
(***************************************************************************)
(* The reaper and the clock.                                               *)
(***************************************************************************)

\* Faulty variant: a rig shown racing is never stale.
RemoveStaleRigsNotRacing ==
  /\ rigs' = [r \in RigIds |->
                IF Known(r) /\ rigs[r].last_seen > StaleTimeout
                     /\ rigs[r].status # "racing"
                  THEN NoRig ELSE rigs[r]]
  /\ UNCHANGED <<groups, tasks, laps, session_best>>

\* remove_stale_rigs, called by stale_rig_reaper.
RemoveStaleRigs ==
  /\ rigs' = [r \in RigIds |->
                IF Known(r) /\ rigs[r].last_seen > StaleTimeout
                  THEN NoRig ELSE rigs[r]]
  /\ UNCHANGED <<groups, tasks, laps, session_best>>

\* A unit of time passes.
Older(age, limit) == IF age < limit THEN age + 1 ELSE limit
Aged(rig) ==
  [rig EXCEPT !.last_seen = Older(@, StaleTimeout + 1),
              !.kill_requested_at =
                 IF @ = None THEN None ELSE Older(@, KillGuard)]
Tick ==
  /\ rigs' = [r \in RigIds |-> IF Known(r) THEN Aged(rigs[r]) ELSE NoRig]
  /\ UNCHANGED <<groups, tasks, laps, session_best>>
------------------------------------------------------------------------------
Init ==
  /\ rigs = [r \in RigIds |-> NoRig]
  /\ groups = [g \in GroupIds |-> NoGroup]
  /\ tasks = <<>>
  /\ DBInit

RigRequest(r) ==
  \/ \E u \in StatusUpdates : UpdateRigStatus(r, u)
  \/ \E status \in UdpStatuses : UdpHeartbeat(r, status)
  \/ \E mode \in Modes : SetRigMode(r, mode)
  \/ \E name \in Drivers : SetDriverName(r, name)
  \/ \E action \in Actions : SendCommand(r, action)
GroupRequest(g) ==
  \/ \E track \in Tracks : CreateGroup(g, track) \/ UpdateGroup(g, track)
  \/ DeleteGroup(g)
  \/ \E r \in RigIds : AddRigToGroup(g, r) \/ RemoveRigFromGroup(g, r)
  \/ \E action \in Actions : SendGroupCommand(g, action)
FleetRequest ==
  \/ \E action \in Actions : SendGlobalCommand(action)
  \/ SyncAllRigs
  \/ FullSystemUpdate
Worker(i) == RunDispatch(i) \/ SendUpdates(i) \/ AdminUpdate(i)

Next ==
  \/ FleetRequest
  \/ \E g \in GroupIds : GroupRequest(g)
  \/ \E r \in RigIds : RigRequest(r)
  \/ \E i \in DOMAIN tasks : Worker(i)
  \/ RemoveStaleRigs
  \/ Tick
  \/ Restart

Spec == Init /\ [][Next]_vars

\* Time passes and the reaper's loop keeps running.
Fairness == WF_vars(Tick) /\ WF_vars(RemoveStaleRigs)
FairSpec == Spec /\ Fairness
------------------------------------------------------------------------------
(***************************************************************************)
(* Properties.                                                             *)
(***************************************************************************)

\* Every variable holds what the code stores in it.
TypeOK ==
  /\ rigs \in [RigIds -> Rig \cup {NoRig}]
  /\ groups \in [GroupIds -> Group \cup {NoGroup}]
  /\ tasks \in Seq(Batch)
  /\ DBTypeOK

\* add_rig_to_group "removes from previous group automatically"
\* (routers/groups.py:53): no rig is listed twice, in one group or in two.
\* list.remove drops one occurrence only and next(g for g in groups ...)
\* takes the first group, so both rely on it.
GroupsPartition ==
  \A g, h \in GroupIds : Exists(g) /\ Exists(h) =>
    \A i \in DOMAIN groups[g].rig_ids, j \in DOMAIN groups[h].rig_ids :
      groups[g].rig_ids[i] = groups[h].rig_ids[j] => g = h /\ i = j

\* A registered rig never names a group that does not list it: the copy of
\* the assignment kept in the rig's record is never ahead of the groups.
GroupIdAgrees ==
  \A r \in RigIds : Known(r) /\ rigs[r].group_id # None =>
    Member(r, rigs[r].group_id)

\* routers/rigs.py:110-113: while the kill guard of a rig is armed and no
\* older than KillGuard, the dashboard does not show the rig racing, however
\* sled heartbeats, kiosk posts, commands and updates interleave.
KillGuardHolds ==
  \A r \in RigIds : Known(r) /\ GuardActive(rigs[r]) =>
    rigs[r].status # "racing"

\* session_best invents nothing (leaderboard_db.py:66-126): the time and the
\* lap count of a row are those of laps stored for its rig and session,
\* however captures are cut short, restarted and counted again.
LapsOf(r, g) ==
  {laps[i] : i \in {j \in DOMAIN laps :
                      laps[j].rig_id = r /\ laps[j].session_id = g}}
BestWasDriven ==
  \A r \in RigIds, g \in GroupIds :
    LET row == session_best[<<r, g>>]
    IN row # None =>
         /\ \E e \in LapsOf(r, g) : e.lap_time_ms = row.lap_time_ms
         /\ \E e \in LapsOf(r, g) : e.lap = row.lap

\* A rig nobody hears from does not stay on the dashboard: it is heard from
\* again and again, or it is removed.  Commands to a dead rig do not count.
SilentRigsRemoved ==
  \A r \in RigIds : []<>(~Known(r) \/ rigs[r].last_seen = 0)

\* The registry implements GroupAssignment: only group requests move a rig
\* between groups, and moving it is one step.
Assignment == INSTANCE GroupAssignment WITH
  open <- {g \in GroupIds : Exists(g)},
  assigned <- [r \in RigIds |-> GroupOf(r)]
ImplementsAssignment == Assignment!ASpec
==============================================================================
