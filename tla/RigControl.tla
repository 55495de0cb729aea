----------------------------- MODULE RigControl ------------------------------
(***************************************************************************)
(* One rig under control: the orchestrator's registry (RigRegistry), the   *)
(* rig's agent (Sled) and the network between them.                        *)
(*                                                                         *)
(* A status post that times out on the sled may still be read by the       *)
(* orchestrator later, after newer posts, or never.  A dispatch makes up   *)
(* to MaxRetries attempts; an attempt that raises after the command was    *)
(* written is repeated although the sled has the command.                  *)
(***************************************************************************)
EXTENDS RigRegistry

CONSTANTS
  Me,             \* the rig
  DefaultCar, ManualStarts, Threshold, MaxInbox, MaxProcesses,
  MaxRetries,     \* MAX_RETRIES of the dispatcher
  Lossy,          \* a dispatch can fail in all of its attempts
  SledRestarts,   \* the agent can crash and be restarted
  Pages,          \* the kiosk and the dashboard post check-ins and picks
  MaxLate         \* bound: posts that timed out and are still on their way

ASSUME ControlAssumption ==
  /\ SledStatuses = RigStatus
  /\ None \notin Action /\ DefaultCar \in Cars \cup {None}
  /\ ManualStarts \in BOOLEAN /\ Threshold \in Nat \ {0}
  /\ MaxInbox \in Nat /\ MaxProcesses \in Nat
  /\ SledIp \notin {WebKiosk, AdminHost, None}
  /\ Me \in RigIds /\ MaxRetries \in Nat \ {0} /\ MaxLate \in Nat
  /\ Lossy \in BOOLEAN /\ SledRestarts \in BOOLEAN
  /\ Pages \in BOOLEAN

VARIABLES
  status, selected_car, current_process, ac, race_car, inbox, listening,
  command, todo, watchdog, heartbeat, fail_count, standalone_mode, main,
  late,      \* statuses of posts that timed out and are still on their way
  attempts   \* failed attempts of the dispatch each batch is working on

sledVars == <<status, selected_car, current_process, ac, race_car, inbox,
              listening, command, todo, watchdog, heartbeat, fail_count,
              standalone_mode, main>>
allVars == <<vars, sledVars, late, attempts>>

Agent == INSTANCE Sled WITH
  Actions <- Action, PulledStatuses <- RigStatus, Resets <- FALSE
------------------------------------------------------------------------------
(***************************************************************************)
(* Heartbeats and pulls.                                                   *)
(***************************************************************************)
Body(s) ==
  [status |-> s, ip |-> SledIp, selected_car |-> None,
   completed_laps |-> 0, last_lap_time |-> None]

\* The handler runs and its answer arrives in time.
PostAnswered ==
  /\ Agent!PostSucceeds
  /\ UpdateRigStatus(Me, Body(heartbeat.sent))
  /\ UNCHANGED <<late, attempts>>

\* The post is lost, or the sled gives up waiting for the answer.
PostTimesOut ==
  /\ Agent!PostFails
  /\ \/ UNCHANGED late
     \/ /\ Cardinality(late \cup {heartbeat.sent}) <= MaxLate
        /\ late' = late \cup {heartbeat.sent}
  /\ UNCHANGED <<vars, attempts>>

\* The orchestrator reads a post whose sender has given up.
LatePost ==
  /\ \E s \in late : UpdateRigStatus(Me, Body(s)) /\ late' = late \ {s}
  /\ UNCHANGED <<sledVars, attempts>>

PullAnswered ==
  /\ Known(Me)
  /\ Agent!Pull([status |-> rigs[Me].status,
                 selected_car |-> rigs[Me].selected_car])
  /\ UNCHANGED <<vars, late, attempts>>
------------------------------------------------------------------------------
(***************************************************************************)
(* dispatch_command.                                                       *)
(***************************************************************************)
CommandOf(t) ==
  [action |-> t.action,
   car |-> IF t.action = "LAUNCH_RACE" THEN t.car ELSE None]

\* Faulty variant: the failures of a task count against the next one.
DoneUncounted(i, t) == Dispatched(i, t) /\ UNCHANGED attempts
\* The task is done: the batch goes on with its next task, or is over.
Done(i, t) ==
  /\ Dispatched(i, t)
  /\ attempts' = IF Len(tasks') < Len(tasks) THEN RemoveAt(attempts, i)
                 ELSE [attempts EXCEPT ![i] = 0]
RetriesLeft(i) == attempts[i] + 1 < MaxRetries
Retry(i) ==
  /\ RetriesLeft(i)
  /\ attempts' = [attempts EXCEPT ![i] = @ + 1]
  /\ UNCHANGED tasks

\* The sled has the command; an exception while closing repeats it.
DispatchArrives(i, t) ==
  /\ t.ip = SledIp
  /\ Agent!Deliver(CommandOf(t))
  /\ Done(i, t) \/ Retry(i)

\* No connection, or another host at that address.
DispatchFails(i, t) ==
  /\ Retry(i) \/ (~RetriesLeft(i) /\ (Lossy \/ t.ip # SledIp) /\ Done(i, t))
  /\ UNCHANGED sledVars

Dispatch(i) ==
  /\ \E t \in tasks[i].dispatch : DispatchArrives(i, t) \/ DispatchFails(i, t)
  /\ UNCHANGED <<rigs, groups, laps, session_best, late>>
------------------------------------------------------------------------------
(***************************************************************************)
(* The composition.                                                        *)
(***************************************************************************)

\* The threads of the agent between two messages, its driver and its host.
ListenerStep == Agent!Listener /\ UNCHANGED <<vars, late, attempts>>
WatchdogStep == Agent!Watchdog /\ UNCHANGED <<vars, late, attempts>>
HeartbeatStep ==
  /\ \/ Agent!HeartbeatPost \/ Agent!PullFails
     \/ Agent!SyncCar \/ Agent!SyncReady
  /\ UNCHANGED <<vars, late, attempts>>
SledEvent ==
  /\ \/ Agent!GameExits \/ Agent!ManualStart
     \/ SledRestarts /\ Agent!Restart
  /\ UNCHANGED <<vars, late, attempts>>

\* Requests of the kiosk and the dashboard.
Request ==
  /\ \/ Pages /\ \E u \in KioskPosts \cup DashboardPicks : UpdateRigStatus(Me, u)
     \/ \E action \in Actions : SendCommand(Me, action)
     \/ \E action \in Actions : SendGlobalCommand(action)
  /\ attempts' = IF Len(tasks') > Len(tasks) THEN Append(attempts, 0)
                 ELSE attempts
  /\ UNCHANGED <<sledVars, late>>

OrchestratorRestart ==
  /\ Restart /\ attempts' = <<>> /\ late' = {}
  /\ UNCHANGED sledVars
Reaper == RemoveStaleRigs /\ UNCHANGED <<sledVars, late, attempts>>
Clock == Tick /\ UNCHANGED <<sledVars, late, attempts>>

CInit == Init /\ Agent!Init /\ late = {} /\ attempts = <<>>
CNext ==
  \/ ListenerStep \/ WatchdogStep \/ HeartbeatStep \/ SledEvent
  \/ PostAnswered \/ PostTimesOut \/ LatePost \/ PullAnswered
  \/ Request
  \/ \E i \in DOMAIN tasks : Dispatch(i)
  \/ OrchestratorRestart \/ Reaper \/ Clock
CSpec == CInit /\ [][CNext]_allVars

\* The agent's threads and the clock go on; posts are answered again and
\* again, however many are lost in between.
ControlFairness ==
  /\ WF_allVars(ListenerStep) /\ WF_allVars(WatchdogStep)
  /\ WF_allVars(HeartbeatStep \/ PostTimesOut)
  /\ SF_allVars(PostAnswered)
  /\ WF_allVars(Clock)
FairControl == CSpec /\ ControlFairness
------------------------------------------------------------------------------
(***************************************************************************)
(* Properties.                                                             *)
(***************************************************************************)

\* The variables of the composition itself hold what the code stores.
ControlTypeOK ==
  /\ TypeOK /\ Agent!TypeOK
  /\ late \subseteq RigStatus /\ Cardinality(late) <= MaxLate
  /\ attempts \in Seq(0..MaxRetries - 1) /\ Len(attempts) = Len(tasks)

\* What the kill guard stands for (routers/rigs.py:110): if requests are sent
\* one after the other and none is lost, then a rig whose guard is set runs
\* no game once its commands have been carried out, also when a launch or a
\* kill arrived twice and whatever posts were late.
StoppedAfterKill ==
  /\ Known(Me) /\ rigs[Me].kill_requested_at # None
  /\ tasks = <<>> /\ inbox = <<>> /\ todo = <<>>
  => ac = 0

\* commands.py:33, the dashboard learns of a race from the game process only:
\* while a game stays open, and nobody kills it or restarts the agent, the
\* dashboard shows the rig racing again and again, through lost posts, check-ins
\* and picks of the pages, reaped records, expired guards and restarts of the
\* orchestrator.  A driver's ready (Kiosk.tsx:130) is the one exception: it
\* comes back from the record with the next pull, and while every pull falls
\* between the watchdog's promotion and the post of it the record stays ready.
ArmsGuard == rigs'[Me] # NoRig /\ rigs'[Me].kill_requested_at = 0
ReadyOverRacing == status = "racing" /\ status' = "ready"
DashboardShowsRace ==
  /\ <>[](ac > 0)
  /\ <>[][~ArmsGuard /\ ~Agent!NewAgent /\ ~ReadyOverRacing]_allVars
  => []<>(Known(Me) /\ rigs[Me].status = "racing")
==============================================================================
