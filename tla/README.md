# A TLA+ verification of Ridge-Link

Ridge-Link (this repository) controls a room of Assetto Corsa rigs from one
admin machine. This directory holds TLA+ modules translated from its source,
TLC configurations that check them on small instances, and TLAPS proofs of the
properties that matter most. Source references are `path:line` under `src/`;
`orchestrator/` abbreviates `apps/orchestrator/`, `sled/` abbreviates `apps/sled/`.

## 1. The system

| Component | State | Operations | Hard behaviour |
|---|---|---|---|
| Rig registry (`orchestrator/state.py`, `routers/rigs.py`) | `_rigs`: id -> record with status, ip, last_seen, kill_requested_at, selected_car, driver_name, group_id, last_lap_count | status posts of sleds, kiosks and the dashboard, mode, driver name | three writers per rig, precedence rules on time stamps, records that vanish and come back |
| Groups (`state.py`, `routers/groups.py`) | `_groups`, `groups.json` | create, update, delete, add, remove | a second copy of the assignment in each rig record; torn file on a crash |
| Commands (`routers/commands.py`, `routers/settings.py`) | queued background tasks | to one rig, to all, to a group, /sync, /update | the loop can raise half-way; tasks of different requests run concurrently |
| Dispatcher (`services/dispatcher.py`) | none | three attempts over TCP | duplicates, delays past the kill guard, overtaking |
| Heartbeat listener, reaper (`services/heartbeat.py`) | none | UDP upsert, removal of silent rigs | bypasses the precedence rules |
| Leaderboard (`services/leaderboard_db.py`, `routers/leaderboard.py`) | SQLite `laps`, `session_best` | capture, upsert, queries, delete, clear | one table derived from the other, in a commit of its own |
| AC servers (`services/acserver.py`, `routers/server.py`) | `_servers`, `server_status`, child processes | start with health check, stop, stop all | ports, crashes, a blocking call on the event loop |
| Spectator (`services/spectator.py`) | process, `video.ini` and its backup | launch, kill | a process that ends by itself |
| Mumble (`services/mumble_service.py`) | connection, assignments | assign, unassign, reconnect loop | snapshot against concurrent change |
| Sled (`sled/agent.py`, `command_handler.py`, `heartbeat.py`) | status, selected_car, AC process, standalone flag | watchdog, command listener and heartbeat threads | three threads and no lock over one status |
| Telemetry (`sled/telemetry.py`, `sidecar.py`) | last data, connections | fallback chain | stale data of the previous race |
| Launcher (`sled/launcher.py`) | `race.ini`, `video.ini` | generate, patch, start AC | defaults that replace legal zeros |
| Splash (`sled/splash.py`) | mode, local unlock flag | polls, unlock, report | a poll that races with the report or with another poll |
| Pages (`frontend/src`) | React state | posts of kiosk, dashboard, session timer | overwrite the sled's fields |

How they interact. A sled posts its status ten times a second while racing,
once a second otherwise, and pulls its record back now and then
(`sled/heartbeat.py:74-119`). The dashboard and the kiosk post to the same
endpoint. A command handler changes the registry at once and leaves the TCP
dispatch to a background task; the sled's next posts confirm or contradict it.
The handlers of the orchestrator are coroutines that never await, so they run
one at a time on the event loop, together with the UDP callback and the reaper;
FastAPI runs the background tasks of one request one after the other on a
worker thread, those of different requests concurrently. `AppState` takes a
lock per operation, so the only interleavings with the worker threads are at
the single call `state.get_rigs()` of `/update`.

What makes each component correct, in short:

* registry: the precedence rules hold whatever order posts arrive in; a dead rig leaves;
* groups: a rig is in at most one group; copies agree; only the operator moves a rig;
* commands: every addressed rig gets its dispatch, and the registry says what was sent;
* leaderboard: the derived table shows nothing that was not driven until a record
  is deleted, and never less than the best lap that is left and whose own upsert
  was committed;
* AC servers: distinct ports for distinct live servers; the status tells the truth;
* spectator: the operator's `video.ini` outlives every failure but a cut write of its
  own backup, and its own lines stay;
* mumble: users end up where the last assignment says;
* sled: the status follows the AC process, commands are carried out in order, at most one race runs;
* splash: a locked idle desktop is covered, a race is not, and the admin's lock arrives.

## 2. Modules

* `RigRegistry` - `AppState._rigs`, `_groups`, the queued dispatches, and one
  action for every handler, callback and coroutine that changes them.
* `LeaderboardDB` - the two SQLite tables and the upsert; extended by `RigRegistry`,
  whose status handler is what captures laps.
* `Leaderboard` - the registry with the maintenance of the two tables.
* `GroupAssignment` - the abstract specification of group membership.
* `MCRigRegistry` - the instance TLC checks (symmetry sets; the rest is in the `.cfg` files).
* `RigRegistryProofs` - theorems about the registry and their proofs.
* `Sled` - the agent of one rig: its three threads, its main thread, the game processes.
* `SledProofs` - theorems about the agent and their proofs.
* `RigControl` - one rig end to end: `RigRegistry` and an instance of `Sled` joined
  by HTTP posts that are lost or late and by TCP dispatches that are retried.
* `ACServers` - the groups' dedicated servers: the manager, the handlers that use it,
  the server processes and the rigs that join them.
* `ServerLeases` - the abstract specification of the manager: ports as leases.
* `VideoIni` - the line-by-line rewriting of `video.ini` and what it promises.
* `Spectator` - the spectator service over the admin PC's `video.ini`, its backup and
  `race.ini`; it uses `VideoIni`.
* `VideoFiles` - the instance: both machines' files, the spectator and the rig's launches.
* `Splash` - the lock window of one rig with its poll threads, the orchestrator's
  record and the player.
* `Mumble` - voice assignments, the service's thread, the Mumble server and clients.
* `RigControlProofs`, `LeaderboardProofs`, `ServersProofs`, `SpectatorProofs`,
  `SplashProofs`, `MumbleProofs` - theorems about these and their proofs; the first
  extends `RigRegistryProofs` and instantiates `SledProofs`, the second extends
  `RigRegistryProofs`.

### The registry

State. `rigs[r]` is the record of `_rigs` or `NoRig`. Fields no handler branches
on (cpu_temp, telemetry, connection flags, mod_version) are left out. A key a
Python record lacks (`ip` after `set_driver_name`, `kill_requested_at`) is `None`.
`groups[g]` keeps the ordered `rig_ids` and one race setting. `tasks` is the
sequence of batches of `BackgroundTasks`, one per request.

Time. The code compares `time.time()` with `last_seen` and `kill_requested_at`.
The model keeps the age of each stamp; `Tick` adds one to every age, and an age
stops growing once it is past every threshold. Where the code writes
`time.time()` the age becomes 0. The thresholds are constants in the order of the
code's (3 <= 10).

Atomicity. Every handler is one action (no await). `UpdateRigStatus` includes the
lap it captures, with the points where the capture can be cut (`Record`); `DeleteGroup` the members it releases; a command the status of
every addressed rig and the tasks it queues. Worker-thread steps are actions of
their own (`RunDispatch`, `SendUpdates`, `AdminUpdate`). The payloads of /sync and
/update carry no car (`WithoutCar`).

Failure. `CommandRaises` is the `KeyError` of `rig["ip"]`: the rigs before it keep
their update and no task runs. `Restart` loses the registry and the tasks; the
groups survive, or are lost when the process stopped inside `_save_groups`, which
truncates `groups.json` before it writes. A dispatch returns whatever happened.

Inputs. `Heartbeats`, `KioskPosts` and `DashboardPicks` are the bodies the clients
in this repository send: heartbeats carry cpu_temp and never a pick, kiosks and
the dashboard send picks and never telemetry. UDP heartbeats have no sender here
but the listener is live (the README of the repository documents port 5001), so
`UdpStatuses` is a parameter.

### The agent

| `Sled` | code |
|---|---|
| `status`, `selected_car`, `current_process` | the fields of `RigAgent` that its threads share |
| `ac`, `race_car` | the game processes on the machine; the car `race.ini` names |
| `inbox`, `listening`, `command`, `todo` | the port's backlog; the listener thread, its command and what is left of it |
| `watchdog` | where `_process_watchdog` is, and the answer of `_is_ac_running` it holds |
| `heartbeat`, `fail_count`, `standalone_mode` | `HeartbeatService._loop`: where it is, the payload it sent, the record it pulled |
| `main` | the signal handler, which runs `kill_race` beside the daemon threads |

Granularity. No lock protects the shared fields, so a step is one read or one
write of them, or one effect on the processes: `Accept` chooses the branch and
reads `status` for a relaunch; `todo` lists the steps that remain, so that the
second `kill_race` sleeps between "set_idle" and "kill" is a point where the other
threads run. The watchdog looks, compares and writes in three steps; its three
branches assign what the code assigns, `current_process` included. A pull holds the
record it received while commands change the agent. The watchdog and the heartbeat
thread forget what they saw, sent and pulled when a round is over (`Looking`,
`BeforePost`): nothing reads it again. `Shutdown` guards no other action: the daemon
threads go on until the process is gone, which is a `Restart`.

Abstractions. `is_racing` only selects periods and time-outs; every period is
possible. `Start` is `launch_ac`: a process, or one of its two kinds of `None`
(before or after `race.ini` was written). `KillProcesses` takes the kill by handle
and by name to succeed; the code ignores errors there. A manual start by the
driver (`agent.py:321` mentions it) is switched on by `ManualStarts`. Mumble start,
spectate key presses, auto-drive, and the files `selected_car.json` and
`kiosk_data.json` are left out: none of them is read back by these threads.

### One rig under control

`RigControl` owns two variables. `late` holds the statuses of posts whose sender
has given up and which the orchestrator may still read, in any order, or never
(a restart of the orchestrator forgets them);
`attempts` counts the failed attempts of the dispatch each batch is working on.
`PostAnswered` is the sled's post and the registry's handler in one step;
`PostTimesOut` and `LatePost` are the two halves of a post that is not answered in
time. A dispatch attempt that raises after the command was written has both
arrived and failed (`DispatchArrives` with `Retry`). `Dispatch` is `RunDispatch` of
the registry, resolved attempt by attempt. The composition keeps what bears on one
rig's race: status posts, single and global commands, the reaper, restarts. POST
/sync, POST /update, groups, laps and the UDP listener stay with the registry alone,
reset connections and the shutdown by a signal with the agent alone.

### The leaderboard

A captured lap is two calls, `add_leaderboard_entry` and `upsert_session_best`
(`rigs.py:188-190`, `routers/leaderboard.py:92-93`), each with a connection and a
commit of its own (`leaderboard_db.py:85`, `:125`). `Record` therefore stores nothing,
the lap alone, or the lap and its best: a database that is locked or full raises in
either call, and the process may end between them (the restart is a step of its own).
The handlers run one at a time, so no other handler sees the state in between.

`Leaderboard` adds to the registry's steps `DeleteRecord` (from `laps` only),
`ClearLeaderboard` (both tables in one commit; the error that follows, from assigning
to a property without a setter, changes nothing) and `AddTestLap`. `deleted` and `lost`
are history variables: a record was deleted since the board was last cleared; the rows
of `laps` whose second commit never happened. The queries are left out. The lobby's TV
and the dashboard read `session_best` (`App.tsx:315`, `routers/leaderboard.py:36`, `:99`);
no page asks for the rows of `laps`.

### The AC servers

| `ACServers` | code |
|---|---|
| `servers` | `ACServerManager._servers`: port offset and process of each group |
| `server_status` | `AppState.server_status`, the copy the dashboard shows |
| `starting` | the `start_server` call that sleeps in its health check |
| `procs` | acServer processes; `child` until the orchestrator that started it is gone |
| `launches`, `game` | commands on their way, and the server a group's rigs play on |

A start is cut once: `StartSpawns` stops the old server, chooses the offset and starts
the process; `StartSucceeds` and `StartFails` are the end of the health check,
which blocks the event loop. `Idle` keeps every other handler out in between,
while processes end and rigs join. `StartRefused` stands for the five error
returns before the process exists. `Stop`, `StopAll`, `UpdateStopsAll` and
`GetServerStatus` differ in what they make of the status, as the code does. Two
processes with one port are possible (`ServerExits` covers the one that cannot
bind). A command without an address makes the sled use port 9600
(`DefaultOffset`); the dashboard's launch of a single rig never has one. The
contents of the server's configuration files are left out.

### video.ini

A line is `<<"[", section>>` or `<<key, value>>`; `Merge` is the loop of both programs
over the lines, parameterised by the forced values: two of Pure's eight
`[POST_PROCESS]` keys and two of the spectator's thirteen `[VIDEO]` keys stand for all,
because a key is only looked up. Comments are keys nobody forces. `AfterLine` is the
state of the loop after each line. `MergedFrom` states the promise without the
loop: the lines nobody forces (`KeptAt`) are matched one to one and in order
(`KeepsLines`), and every section that was there has every forced key with its value,
at most once more per section than the owner wrote it. A file ends with an end of
line. `Lines` is the set of lines the theorems range over; an instance may choose
any that contains the forced ones.

`Spectator` cuts a launch where the process can die between two file operations:
the backup is there (`LaunchBegins`), `video.ini` is rewritten (`WriteLowQuality`),
and one of three ends: an error return that restores nothing (`LaunchGivesUp`),
`Popen` fails (`LaunchFails`, with `Restore`), the game runs. Errors while reading,
writing and copying are caught and logged by the code; every such step may fail. The
backup, `video.ini` and the copy that puts it back are written in place, so each of the
three writes can also be cut short after any line (`BackUpCut`, `WriteLowQuality`,
`Restore`; a line cut in its middle is not told apart). The next launch finds a cut
backup like any other. `backup_cut` and `video_cut` are history variables. The rig's
own rewriting of `video.ini` (`LaunchAC`) writes the file whole or not at all. `stray` is the game of an earlier orchestrator
process, which `taskkill` by name ends too. `Kill` is what the service offers (see
section 4).

### The splash screen

The Tk thread runs callbacks, timers and key presses one at a time (`ApplyMode`,
`ApplyRacing`, `ApplyOther`, `HideForRacing`, `EnterUnlockedMode`); a poll is a thread
of its own, cut where it waits for the network, writes a log line or hands a
callback to Tk: `CompareMode`, `ClearUnlocked`, `WriteMode`, `QueueMode`, `CompareStatus`,
`WriteStatus`, `QueueStatus`. `root.after`, called outside Tk's thread, waits for Tk
before the callback is queued, so that two polls can write in one order and queue in
the other. An answer is read from the record when it is sent (`PollAnswered`) and
applied whenever it arrives; a poll that fails leaves no trace. An unlock is reported
by a thread that tries twice (`ReportAttempt`). A rig the orchestrator does not know is
answered "lockout" and "unknown", which the window treats as idle. `applied_mode` (the
mode Tk has last applied) and `by_status` (a status has shown the window, and perhaps
a race has been applied since) are history variables. The developer key, which hides
and shows the window by hand, and the window's place in the stack are left out, as are
drawing, key counting, the timer's display and the boot.

### Mumble

`assign_rig` and `unassign_rig` are cut between the stored assignment and the move
(`RequestMoves`): the thread runs in between. A save that raises ends the request with
the assignment in memory alone, so a restart may find any older assignments in the
file, or, if the write was cut, none (`OrchestratorRestart`). The thread's loop is cut at each move:
it applies `todo`, a copy of the assignments, in any order, while requests change
the original. `bot` is the link pymumble keeps: it may be lost and come back by
itself, or its thread ends, which is what the watchdog looks for. Channels are
made once per connection, any subset of them. The server, its clients and
pymumble are external: clients arrive in the lobby, roam and leave.

## 3. Runs

| Run | Instance | Shows |
|---|---|---|
| `registry_timing` | 1 rig, 1 group, all statuses and commands, timeouts 3/3/2, one pending request, under `FairSpec` | `TypeOK`, `KillGuardHolds`, `SilentRigsRemoved` |
| `registry_groups` | 3 rigs, 2 groups, rigs come and go | `GroupsPartition`, `GroupIdAgrees`, refinement of `GroupAssignment` |
| `registry_laps` | 1 rig, 1 group, 1 driver, two laps with and without a time, captures that are cut, test laps | `DrivenUntilDeleted`, `BestIsNoWorse` |
| `sled_races` | every command, pulls of idle and ready, resets, restarts, no manual start | `TypeOK`, `OneRace`, `KillEndsRace` |
| `sled_status` | kill, launch and setup, manual starts, threshold 2, under `FairSpec` | `RacingEnds`, `RacingShown`, `StandaloneTracksOrchestrator` |
| `control_kill` | 1 rig, requests one after the other, two attempts, one late post, dispatches reach the sled | `ControlTypeOK`, `StoppedAfterKill` |
| `control_shown` | 1 rig, kills, manual starts, check-ins, picks and the kiosk's ready and setup, restarts of the orchestrator, posts and dispatches can be lost, under `FairControl` | `DashboardShowsRace` |
| `servers` | 2 groups, 3 processes, deletions, restarts, under `FairSpec` | `TypeOK`, `NoStrayServer`, `NoPortClash`, `OfflineIsTrue`, `CrashNoticed`, refinement of `ServerLeases` |
| `servers_join` | 2 groups, 2 processes | violation: `NoStrangers` |
| `spectator` | every file of up to 3 lines, 2 groups, one rig | `FilesTypeOK`, `SettingsRecoverable`, `ReducedFromOwners`, `RigKeepsOwnSettings`, `WatchesActiveGroup` |
| `splash` | 2 polls in flight, 1 pending hide, idle and racing, under `FairSpec` | `TypeOK`, `LockedIsCovered`, `RaceIsUncovered`, `LockoutTakesHold` |
| `mumble` | 2 rigs, 2 rooms, under `FairSpec` | `TypeOK`, `AssignedSettles`, `StaysInRoom` |

Bounds. `MaxBatches` bounds the requests whose dispatches are pending; a request
beyond it waits. Handlers never read the pending tasks, so one batch suffices
for what they do to the registry. `MaxLaps` bounds the laps table; two rows are
a first lap and a faster, slower or untimed one, and a deleted record makes room for
the next. Ages are bounded by construction. With one
group a rig can be assigned, released and assigned again; two groups and three
rigs give lists of several members and moves between them. Rig and group
identifiers are interchangeable, hence the symmetry of `registry_groups`
(safety only); the liveness runs use none.

`MaxInbox` bounds connections waiting for the listener: what matters is that one
can wait while a command is carried out. `MaxProcesses` bounds the games a driver
opens by hand. `Threshold` is 2 where standalone mode is the question and 1 elsewhere.
`MaxRetries` is 2 or 1 instead of 3: two attempts are what a duplicate needs.
`MaxLate` bounds the posts on their way, one status suffices to contradict a
newer one. The timers of the registry are 1 in the composition.

Three server processes for two groups leave one for a server that outlived its
orchestrator, or for a start beside two that run. Files of three lines have a
section with a key, the section twice, a key before or after its section, and none;
the number of launches and rewritings is not bounded. In `splash`
setup and ready are to the window as idle, which the code's branches show, and
syncing is one more status that is not racing; a new poll starts only when Tk has run
its callbacks (`MaxPending` is 0), one delayed hide can be due (`MaxHides`; the next race
is applied after it, with the flag as it left it), and a
second unlock waits until the first has been reported. The proofs are for every
number of polls, hides and queued callbacks and for all statuses. Two rigs and two rooms
let a stale copy name another room than the assignment, and one rig be moved
while another waits.

What the composition's properties leave open. `StoppedAfterKill` is about
requests that are sent one after the other and not lost: with two pending requests
nothing in the code orders their dispatches, and a lost kill leaves the game
running with the guard set. `RacingShown` and `DashboardShowsRace` say that
"racing" comes back again and again, not that it stays: a pulled "ready" or a
command overwrites it until the next look of the watchdog. `DashboardShowsRace`
excludes one thing, by name (`ReadyOverRacing`): a driver's ready that is pulled again and
again over a racing the watchdog has just set, and posted back before the watchdog
looks again, keeps the dashboard on "ready" (section 4). `control_shown` has no restarts
of the agent, which the property excludes in the long run; they are in `sled_races` and
`sled_status`.

`BestIsNoWorse` leaves out the laps whose own second commit never happened; that they
are few, or ever made up for, nothing in the code provides. `SettingsRecoverable` leaves
out what follows a cut write of the backup. `LockedIsCovered` and `LockoutTakesHold` leave
out a freeuse queued across a lockout (`Crossed`), `RaceIsUncovered` an
idle that was written before a race and queued behind it: it speaks of windows shown
before the race was applied. Each is described in section 4.

Fairness. `FairSpec` assumes that time passes and that the reaper's loop runs
again: it is a task of the event loop that sleeps 5 seconds between two rounds
(`services/heartbeat.py:68-72`). No fairness is assumed of clients. `Sled!FairSpec`
assumes weak fairness of the listener, the watchdog and the heartbeat thread: each is
an endless loop of a daemon thread with bounded sleeps and time-outs. A run of the
agent that is shut down or restarted again and again is allowed; the
properties that need a process to live long enough say so (`NewAgent`).
`FairControl` adds that the clock goes on and that posts are answered again and
again (strong fairness of `PostAnswered`), however many are lost in between; a
network that loses every post shows nothing on any dashboard.

`ACServers!Fairness`: the health check is a loop of six sleeps (weak fairness), and the
dashboard asks for the status again and again (`App.tsx:176`); a request that finds
the event loop blocked waits in its queue and is served before later ones, so
starts do not put it off for ever (strong fairness). `Splash!Fairness`: Tk runs its
callbacks and timers and a thread goes on; polls are answered again and again
(strong fairness), however many fail. `Mumble!Fairness`: the thread goes on and a
request ends; a connection or a move that is possible again and again
succeeds at last (strong fairness). Nothing is assumed of admins, players and clients:
the properties speak of those that hold still (`Undisturbed`, or the second disjunct
of a leads-to).

## 4. Disagreements with the source's own words

One is a run whose property TLC violates:

* *A group without a server joins another group's race* (`servers_join`).
  `commands.py:150` says "no running server found! Rigs will launch offline", but the
  payload still says `use_server`, and the sled fills in the orchestrator's address and
  port 9600 (`sled/command_handler.py:84-87`), which is where the first server listens.

The others are modelled as the code has them and have no run of their own; the
models' steps show them.

* *Downgrades never happen.* `rigs.py:129` says "Normal downgrade - allow unless very
  rapid", but `upsert_rig` (line 103) has just refreshed the `last_seen` that line 131
  tests. A rig whose driver leaves the game stays "racing" on the dashboard until a
  command is sent.
* *A rig known by its driver name only breaks global and group commands*
  (`CommandRaises`; `rigs.py:245`, `commands.py:114` and `209`).
* *The best time of a session can carry the wrong name* (`UpsertedBest`;
  `leaderboard_db.py:107` against `state.py:392`).
* *One reset connection ends the command listener* (`ListenerDies`;
  `sled/command_handler.py:44` is outside the `try` of line 51).
* *A command can miss the sled because a page has just posted*: every status post
  replaces the rig's address (`rigs.py:94-103`, `commands.py:59`).
* *The spectator cannot be stopped through the API*: `POST /spectate/stop`
  (`routers/server.py:230`) is matched by `POST /spectate/{group_id}` (line 188), so the
  operator's settings are only put back when a launch fails. `Kill` is the service's
  operation; `SettingsRecoverable` does not depend on it.
* *A dashboard launch of one rig with `use_server` always goes to port 9600*
  (`GroupManager.tsx:416-436`; `LaunchRig`), whichever server its group has.
* *Servers outlive the orchestrator*: after a restart nothing knows their ports, and
  the first start tries one that is taken (`OrchestratorRestart`).
* *A lap can be missing from the pages for good*: the lap and its session best are two
  commits (`rigs.py:188-190`); if the second fails or the process ends before it, nothing
  derives the best row again (`Record`).
* *A cut backup is taken for the operator's settings*: `spectator.py:186` only asks whether
  the file exists, so one that was cut while it was written is kept, and
  `spectator.py:297` copies it over `video.ini` (`BackUpCut`).
* *A kiosk's ready can hide a race*: `commands.py:33-35` says that the sled determines
  racing by the game process, but the sled also takes "ready" from its own record
  (`sled/heartbeat.py:116`), and posts it back. The record leaves "ready" when a post falls
  between the watchdog's promotion and the next pull (`ReadyOverRacing`).
* *A locked rig can stay open when two polls overlap*: one writes freeuse and the other
  lockout, and they queue their callbacks the other way round (`splash.py:531-532`). Tk
  applies the freeuse last, and no later poll differs (`Crossed`).
* *A race can stay covered when two polls overlap*: one writes idle and the other racing,
  and they queue their callbacks the other way round (`splash.py:537-539`). When the flag
  says that a hide is due although it was carried out in an earlier race, the racing
  callback does nothing and the idle one shows the window over the race (`ApplyRacing`,
  `ApplyOther`).
* *Clearing the leaderboard answers with an error* (`routers/leaderboard.py:51`).
* *A lap of whole seconds can become a record*: `_parse_lap_time_ms` reads
  "00:02:13" as minutes, seconds and milliseconds (`rigs.py:51-54`).
* *Legal zeros are replaced by defaults* (`commands.py:188`): not modelled.
* *A freeuse mode can be ignored after a local unlock*: two polls between which the
  flag is read and the mode written (`splash.py:525-531`) can leave the flag set in
  lockout; the next lockout clears it.
* *A client that was unassigned can be moved back* by the copy being applied
  (`mumble_service.py:502`), and nothing moves it again.
* `/update` kills without arming the kill guard (`settings.py:207-211` against
  `rigs.py:110-113`; `FullSystemUpdate`).
* A group kill misses members that are not registered (`commands.py:154-158`, while
  `update_rig_field` ignores them; `GroupStamped`).
* A cleared car is never pulled (`sled/heartbeat.py:111` against line 109; `SyncCar`):
  after the dashboard's Random pick the sled launches the previous driver's car.
* A relaunch kills the old game in the open: the splash screen follows the
  orchestrator's status, which stays racing (`sled/agent.py:444-445`).

## 5. Proofs

`RigRegistryProofs` proves, for every value of the constants that satisfies the
named assumptions of the modules:

* `TypeCorrect` - one lemma per kind of step over `TypeOK`, which is inductive.
* `GroupsPartitionAlways` - inductive together with `TypeOK`. The step that needs
  an argument is `AddRigToGroup`: removing the first occurrence from every list
  leaves none, because a list has at most one; then one is appended to one list.
* `GroupIdAlwaysAgrees` - needs the partition: releasing a rig from one list must
  not leave it named by another, and a group that is deleted must be the one its
  members name.
* `KillGuardAlwaysHolds` - assumes that no UDP heartbeat reports racing, because
  `datagram_received` has no precedence rules. Inductive with `TypeOK`: the only
  step that sets a rig racing is a status post, and it checks the guard.
* `BestAlwaysDriven` - inductive: `UpsertedBest` takes time and lap count from the new lap
  or from the old row, and the new lap is in `laps` by then, whether the capture is cut
  after it or not; no step of the registry removes a lap.
* `RegistryImplementsAssignment` - uses `GroupsPartition`: `GroupOf` is a choice in
  general and a function of the lists only when a rig is in one list at most.

`SledProofs` proves, under the assumption that names the constants of `Sled`:

* `SledTypeCorrect`, `OneRaceAlways`, `KillAlwaysEndsRace` - all from one inductive
  invariant, `IInv`. Neither property is inductive alone: that a launch starts the only
  game depends on the kill that precedes it in the same command. `StartsLast` says
  that "start" can only be the last step left; `KillAhead` that a game runs only while
  a kill is still ahead of the next start, or no start is left, and that a command
  that kills has its kill still to come while a game runs. The lemmas
  `StepsOfCommand` and `StepsAfterHead` establish both for each list of steps.

`RigControlProofs` proves, under the assumptions of both components and
`ControlAssumption`:

* `ControlImplementsRegistry`, `ControlImplementsAgent` - a step of the composition
  is a step of the registry or leaves it alone, and a step of the agent or leaves it
  alone. That needs `CtrlInv`, the types of both: a post carries a status the
  registry accepts, a dispatch carries a command the agent knows, and a pull finds
  a record the agent can hold. What `RigRegistryProofs` and `SledProofs` prove
  holds of a rig under control.
* `ControlTypeCorrect` - with a bound on the late posts and on the attempts.
* `StoppedAlwaysAfterKill` - assumes what the run `control_kill` assumes (one request
  at a time, none lost, no page posts, manual starts or agent restarts), for any
  number of attempts, late posts, cars and timeouts. `StoppedAfterKill` only speaks
  of the moment when nothing is pending; the invariant `StopInv` follows a kill on its
  way: while the guard is set, the last launch or kill among the pending task, the
  backlog and the command being carried out is a kill, or no game runs (`Quiet`). A
  delivery appends to the backlog (`AppendQuiet`), a duplicate included; the listener
  takes from its head (`TailQuiet`); a launch can only be appended after its
  request has cleared the guard. That a late post re-arms nothing is `PostedRecord`.

`LeaderboardProofs` proves under the registry's assumptions:

* `AlwaysDrivenUntilDeleted`, `BestIsAlwaysNoWorse` - inductive together with `TypeOK`
  (`BoardInv`). That the best row is no slower than a lap is kept by the upsert of one row:
  the time it stores is no slower than the old row's and the lap's (`BestTimeBounds`,
  `UpsertCovers`), and no slower than no slower is no slower (`CoversTransitive`). A
  record that is cut after its first commit adds its lap to `lost`, which the invariant
  does not speak of (`WithBestNoWorse`, `RecordNoWorse`); a deletion leaves rows that were
  there before (`DeleteInv`). Every registry step that writes the tables is a `Record`
  (`TablesStep`, `RegistryInv`).

`ServersProofs` proves under `ServersAssumption` (finitely many groups, any processes):

* `ServersTypeCorrect`, `NoStrayServerEver`, `OfflineIsAlwaysTrue` - from one inductive
  invariant, `IInv`, that adds what a start in its health check (`StartingInv`) and an
  entry of the registry (`RegisteredInv`) say of the processes: the group being started
  has no entry, its offset is free, entries have distinct offsets and processes, and a
  process that runs under an entry is the one that was started for it.
  That the search for the lowest offset ends below the number of groups is
  `SomeOffsetFree` (the registered servers cannot hold more offsets than there are
  of them, by a surjection) and `LowestIsFree` (the least of a set of naturals).
* `NoPortClashEver` - follows from it: running children are registered or starting.
* `ServersImplementLeases` - `StartSucceeds` is a grant, a stop or the start of a
  start a release, everything else a stutter.

`SpectatorProofs` proves, for owners' files of any length over any set `Lines` that
contains the forced lines (`FilesAssumption`):

* `SettingsAlwaysRecoverable`, `AlwaysWatchesActiveGroup` - from an invariant that adds
  what holds between the steps of a launch (`LaunchingInv`): before `video.ini` is
  rewritten the backup is the operator's file, unless it was cut while it was written,
  and no game runs while `race.ini` changes. What `LowQuality` makes of a file does not
  matter, nor where the other writes are cut.
* `ReducedIsFromOwners`, `RigAlwaysKeepsOwnSettings`, `FilesTypeCorrect` - from
  `RewrittenOnce`: a file is the owner's, or the owner's rewritten once, however often
  it is launched, restored or forgotten, unless a write was cut. That is inductive because of two facts about
  `Merge`, proved for every file and every table of forced values (`TableOK`):
  `MergeKeepsPromise`, a rewritten file is `MergedFrom` the old one, and `MergeTwice`, to
  rewrite it again changes nothing.

Both are inductions over the lines of a file. The library's induction theorems take
a predicate and cannot be used; `FromZero` is the same fact about a set of numbers
(the set where something fails would have a least element, `LeastNumber`), and
`AfterUnfold` and `MissingUnfold` show that the two recursive functions are the
ones their equations describe. The invariants of the loop are then

* for the promise (`LoopInv`): every forced key written so far has its forced value
  (`ValuesForced`), a section that was left has all its keys (`SectionsFull`), a key noted
  as written is there (`NotedIsThere`), and the kept lines so far match the old ones with
  no more forced lines than allowed (`MadeOf`). The count has to leave room for the one
  line a section still open may add, which is why `MadeOf` takes the open section;
* for the second rewriting (`Idle`): the lines so far have been copied and their forced
  keys noted (`Seen`), so nothing is missing where a section ends (`NothingMissing`).
  That the two programs differ in what they note does not matter to either.

`SplashProofs` proves under `SplashAssumption`, for any number of polls in flight,
pending hides and queued callbacks:

* `SplashTypeCorrect`, `LockedIsAlwaysCovered`, `RaceIsAlwaysUncovered`. The two are about
  the moment when Tk has nothing left to do; the invariant says what the callbacks that
  are `Pending` will make of the window: those in the queue and those a poll has written
  the value of and is about to queue (`InHand`), in no particular order. `CoverInv`: the
  window of a locked idle rig is shown, or a pending callback shows it, or the mode Tk
  last applied is freeuse. `HideInv`: a hide that is noted as due is due, and it is noted
  once a race has been applied after the status that showed the window, unless another
  race is still pending. `AppendQueued`, `TailQueued` and `OthersKeep` follow a callback
  from the poll's hand through the queue; `SettledPending` says that a settled window has
  none left.

`MumbleProofs` proves, for any rigs and rooms:

* `MumbleTypeCorrect`, and `ClientsStayInRooms`, the action property `StaysInRoom`: once
  the copy and the request that were under way when a rig was assigned are done with,
  no step of the service moves its client out of its room.

Only model-checked: liveness (`SilentRigsRemoved`, `RacingEnds`, `RacingShown`,
`StandaloneTracksOrchestrator`, `DashboardShowsRace`, `CrashNoticed`, `LockoutTakesHold`,
`AssignedSettles`), which is out of the prover's reach, as is anything
with ENABLED. Every invariant and every refinement the passing runs check is proved.

## 6. Plan

1. *(done)* registry, groups, commands, lap capture, refinement, proofs.
2. *(done)* `Sled`, `RigControl` and their proofs.
3. *(done)* `Leaderboard`, `ACServers`, `Spectator` and the `video.ini` rewriting, with
   proofs; `Splash` and `Mumble`.
4. *(done)* theorems about `Splash`, `Mumble` and the contents of `video.ini`.
5. Open: which laps the telemetry of successive races reports (`LapCapture`), the
   session timer with its automatic kill, the race parameters from a group to
   `race.ini`.

The runs of one component are merged where one instance answers several
questions, so that the project stays quick to check as a whole.

## 7. Not modelled

The content scanner, catalogue endpoints, drawing, window placement, key presses,
certificate handling, bootstrap and maintenance scripts: pure input/output with no
state another component depends on. The decoding of telemetry (`sled/telemetry.py`,
`sidecar.py`) keeps only connection flags; what a heartbeat may say of laps is an input of
the registry. The race parameters on their way to `race.ini` and the contents of the
servers' configuration are data no step of a model depends on. Presets, branding,
pools and settings are stores that nothing else acts on. The session timer acts
through the same kill command as the admin, at a time of its own. Names, colours, log lines
and file layouts are abstracted everywhere, but for `video.ini`.
