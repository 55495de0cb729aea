-------------------------------- MODULE Sled ---------------------------------
(***************************************************************************)
(* The agent of one rig (sled/agent.py, command_handler.py, heartbeat.py): *)
(* a command listener, a process watchdog and a heartbeat thread that      *)
(* share the status and the car of RigAgent without a lock, the signal     *)
(* handler of the main thread, and the Assetto Corsa processes they start  *)
(* and kill.                                                               *)
(*                                                                         *)
(* A step is what a thread does between two points where another thread    *)
(* can matter: one read or one write of the shared fields, or one effect   *)
(* on the processes.  The orchestrator is open here: any command may       *)
(* arrive, a post may fail, a pull may return any status and car.          *)
(***************************************************************************)
EXTENDS Integers, Sequences

CONSTANTS
  Cars,          \* car ids
  DefaultCar,    \* config.default_car
  None,          \* Python's None
  Actions,       \* commands the orchestrator sends
  PulledStatuses,\* statuses a pull may find in the orchestrator's record
  ManualStarts,  \* the driver can start the game from the desktop
  Resets,        \* a connection can be reset before its command was read
  Threshold,     \* STANDALONE_THRESHOLD
  MaxInbox,      \* bound: connections that wait for the listener
  MaxProcesses   \* bound: game processes the driver may have open

Status == {"idle", "setup", "ready", "racing", "syncing"}
Action == {"SETUP_MODE", "KILL_RACE", "LAUNCH_RACE", "SYNC_MODS", "UPDATE"}

ASSUME SledAssumption ==
  /\ None \notin Cars \cup Action /\ DefaultCar \in Cars \cup {None}
  /\ Actions \subseteq Action /\ PulledStatuses \subseteq Status
  /\ ManualStarts \in BOOLEAN /\ Resets \in BOOLEAN
  /\ Threshold \in Nat \ {0}
  /\ MaxInbox \in Nat /\ MaxProcesses \in Nat

VARIABLES
  status,           \* RigAgent.status
  selected_car,     \* RigAgent.selected_car
  current_process,  \* whether RigAgent.current_process holds a handle
  ac,               \* game processes that run on the rig
  race_car,         \* the car race.ini was last written for
  inbox,            \* accepted or queued connections of the command port
  listening,        \* the listener thread is alive
  command,          \* the command being dispatched, or the last one that was
  todo,             \* its remaining steps
  watchdog,         \* where the watchdog is, and what it saw
  heartbeat,        \* where the heartbeat thread is, and what it holds
  fail_count,       \* HeartbeatService._fail_count
  standalone_mode,  \* config.standalone_mode
  main              \* the main thread: run, kill, exit

agentVars == <<ac, race_car, selected_car>>
listenerVars == <<inbox, listening, command, todo>>
heartbeatVars == <<heartbeat, fail_count, standalone_mode>>
vars == <<status, selected_car, current_process, ac, race_car, inbox,
          listening, command, todo, watchdog, heartbeat, fail_count,
          standalone_mode, main>>

\* Only LAUNCH_RACE carries a car the sled reads.
Command ==
  {c \in [action: Actions, car: Cars \cup {None}] :
     c.car # None => c.action = "LAUNCH_RACE"}
NoCommand == [action |-> None, car |-> None]
Reset == [action |-> "reset", car |-> None]
Step == {"set_idle", "kill", "resolve_car", "start", "set_setup", "clear_car",
         "set_syncing", "sync", "exit"}
Pulled == [status: PulledStatuses, selected_car: Cars \cup {None}]
NothingPulled == [status |-> None, selected_car |-> None]
\* The watchdog between two rounds, and the heartbeat thread: neither keeps
\* what it saw, sent or pulled in a round that is over.
Looking == [pc |-> "look", running |-> FALSE]
BeforePost == [pc |-> "post", sent |-> "idle", rig |-> NothingPulled]
BeforePull == [BeforePost EXCEPT !.pc = "pull"]
------------------------------------------------------------------------------
(***************************************************************************)
(* The command listener.                                                   *)
(***************************************************************************)

\* kill_race is "set_idle", and "kill" a second later; launch_race begins
\* with it, and so does a LAUNCH_RACE that finds the rig racing.
StepsOfOther(action) ==
  CASE action = "KILL_RACE" -> <<"set_idle", "kill">>
    [] action = "SETUP_MODE" -> <<"set_setup", "clear_car">>
    [] action = "SYNC_MODS" -> <<"set_syncing", "sync", "set_idle">>
    [] action = "UPDATE" -> <<"set_idle", "kill", "exit">>
\* Faulty variant: a rig that is not shown racing needs no kill.
StepsTrustingStatus(action) ==
  CASE action = "LAUNCH_RACE" /\ status = "racing" ->
         <<"set_idle", "kill", "resolve_car", "start">>
    [] action = "LAUNCH_RACE" /\ status # "racing" ->
         <<"resolve_car", "start">>
    [] OTHER -> StepsOfOther(action)
StepsOf(action) ==
  CASE action = "LAUNCH_RACE" /\ status = "racing" ->
         <<"set_idle", "kill", "resolve_car", "set_idle", "kill", "start">>
    [] action = "LAUNCH_RACE" /\ status # "racing" ->
         <<"resolve_car", "set_idle", "kill", "start">>
    [] OTHER -> StepsOfOther(action)

\* The dispatcher connects and writes a command.
Deliver(c) ==
  /\ Len(inbox) < MaxInbox
  /\ inbox' = Append(inbox, c)
  /\ UNCHANGED <<status, selected_car, current_process, ac, race_car,
                 listening, command, todo, watchdog, heartbeatVars, main>>

\* accept, recv and the choice of the branch.
Accept ==
  /\ listening /\ todo = <<>> /\ inbox # <<>> /\ Head(inbox) # Reset
  /\ command' = Head(inbox)
  /\ todo' = StepsOf(Head(inbox).action)
  /\ inbox' = Tail(inbox)
  /\ UNCHANGED <<status, selected_car, current_process, ac, race_car,
                 listening, watchdog, heartbeatVars, main>>

\* recv raises outside of any try: the thread ends, the process goes on.
ListenerDies ==
  /\ listening /\ todo = <<>> /\ inbox # <<>> /\ Head(inbox) = Reset
  /\ listening' = FALSE
  /\ inbox' = Tail(inbox)
  /\ UNCHANGED <<status, selected_car, current_process, ac, race_car,
                 command, todo, watchdog, heartbeatVars, main>>

StatusAfter(step) ==
  CASE step = "set_idle" -> "idle"
    [] step = "set_setup" -> "setup"
    [] step = "set_syncing" -> "syncing"
    [] OTHER -> status
SetStatus ==
  /\ Head(todo) \in {"set_idle", "set_setup", "set_syncing"}
  /\ status' = StatusAfter(Head(todo))
  /\ UNCHANGED <<selected_car, current_process, ac, race_car, command>>

ClearCar ==
  /\ Head(todo) = "clear_car"
  /\ selected_car' = None
  /\ UNCHANGED <<status, current_process, ac, race_car, command>>

\* Faulty variant: only the process the agent has a handle of is killed.
KillByHandle ==
  /\ ac' = IF current_process THEN 0 ELSE ac
  /\ current_process' = FALSE
\* Faulty variant: one process is killed, and there is always one.
KillOne == ac' = ac - 1 /\ current_process' = FALSE
\* The handle's process, then every process with the name of the game.
KillProcesses == ac' = 0 /\ current_process' = FALSE
Kill ==
  /\ Head(todo) = "kill"
  /\ KillProcesses
  /\ UNCHANGED <<status, selected_car, race_car, command>>

\* payload > agent selection > None.
ResolveCar ==
  /\ Head(todo) = "resolve_car"
  /\ command' = [command EXCEPT !.car = IF @ = None THEN selected_car ELSE @]
  /\ UNCHANGED <<status, selected_car, current_process, ac, race_car>>

\* launch_ac returns a process, or None when the game is not found, race.ini
\* cannot be written or the process does not start.
Start ==
  /\ Head(todo) = "start"
  /\ \/ ac' = ac + 1 /\ current_process' = TRUE /\ race_car' = command.car
     \/ UNCHANGED <<current_process, ac, race_car>>
     \/ UNCHANGED <<current_process, ac>> /\ race_car' = command.car
  /\ UNCHANGED <<status, selected_car, command>>

\* The mods are copied, or the pull or the restart script fails: the agent's
\* fields stay as they are.
Pass ==
  /\ Head(todo) \in {"sync", "exit"}
  /\ UNCHANGED <<status, selected_car, current_process, ac, race_car, command>>

CommandStep ==
  /\ todo # <<>>
  /\ SetStatus \/ ClearCar \/ Kill \/ ResolveCar \/ Start \/ Pass
  /\ todo' = Tail(todo)
  /\ UNCHANGED <<inbox, listening, watchdog, heartbeatVars, main>>
------------------------------------------------------------------------------
(***************************************************************************)
(* The process watchdog: look at the process list, read the status, write  *)
(* it.                                                                     *)
(***************************************************************************)

WatchdogLook ==
  /\ watchdog.pc = "look"
  /\ watchdog' = [pc |-> "compare", running |-> ac > 0]
  /\ UNCHANGED <<status, current_process, agentVars, listenerVars,
                 heartbeatVars, main>>

\* Faulty variant: a rig that is getting ready is not promoted.
CompareIdleOnly ==
  /\ watchdog.pc = "compare"
  /\ watchdog' = IF \/ watchdog.running = (status = "racing")
                    \/ watchdog.running /\ status # "idle"
                   THEN Looking ELSE [watchdog EXCEPT !.pc = "write"]
  /\ UNCHANGED <<status, current_process, agentVars, listenerVars,
                 heartbeatVars, main>>
\* Faulty variant: only a game the agent has a handle of is missed.
CompareWithHandle ==
  /\ watchdog.pc = "compare"
  /\ watchdog' = IF \/ watchdog.running = (status = "racing")
                    \/ ~watchdog.running /\ ~current_process
                   THEN Looking ELSE [watchdog EXCEPT !.pc = "write"]
  /\ UNCHANGED <<status, current_process, agentVars, listenerVars,
                 heartbeatVars, main>>
WatchdogCompare ==
  /\ watchdog.pc = "compare"
  /\ watchdog' = IF watchdog.running = (status = "racing") THEN Looking
                 ELSE [watchdog EXCEPT !.pc = "write"]
  /\ UNCHANGED <<status, current_process, agentVars, listenerVars,
                 heartbeatVars, main>>

WatchdogWrite ==
  /\ watchdog.pc = "write"
  /\ \/ /\ watchdog.running
        /\ status' = "racing"
        /\ UNCHANGED current_process
     \/ /\ ~watchdog.running
        /\ status' = "idle"
        /\ current_process' = FALSE
  /\ watchdog' = Looking
  /\ UNCHANGED <<agentVars, listenerVars, heartbeatVars, main>>

Watchdog == WatchdogLook \/ WatchdogCompare \/ WatchdogWrite
------------------------------------------------------------------------------
(***************************************************************************)
(* The heartbeat thread: post the status; in some of the rounds, unless in *)
(* standalone mode, pull the rig's record and apply its car, then its      *)
(* status.                                                                 *)
(***************************************************************************)
heartbeatRest == <<status, selected_car, current_process, ac, race_car,
                   listenerVars, watchdog, main>>

\* The payload reads the status before the request leaves.
HeartbeatPost ==
  /\ heartbeat.pc = "post"
  /\ heartbeat' = [heartbeat EXCEPT !.pc = "answer", !.sent = status]
  /\ UNCHANGED <<fail_count, standalone_mode, heartbeatRest>>

\* Only every n-th round pulls; n depends on the status.
AfterPost(standalone) ==
  heartbeat' \in IF standalone THEN {BeforePost} ELSE {BeforePost, BeforePull}
PostSucceeds ==
  /\ heartbeat.pc = "answer"
  /\ fail_count' = 0 /\ standalone_mode' = FALSE
  /\ AfterPost(FALSE)
  /\ UNCHANGED heartbeatRest

\* The count stops at Threshold here: beyond it nothing changes.
MoreFailures == IF fail_count < Threshold THEN fail_count + 1 ELSE fail_count
\* Faulty variant: standalone mode needs one failure more than are counted.
PostFailsPatiently ==
  /\ heartbeat.pc = "answer"
  /\ fail_count' = MoreFailures
  /\ standalone_mode' = (standalone_mode \/ fail_count' > Threshold)
  /\ AfterPost(standalone_mode')
  /\ UNCHANGED heartbeatRest
PostFails ==
  /\ heartbeat.pc = "answer"
  /\ fail_count' = MoreFailures
  /\ standalone_mode' = (standalone_mode \/ fail_count' >= Threshold)
  /\ AfterPost(standalone_mode')
  /\ UNCHANGED heartbeatRest

Pull(rig) ==
  /\ heartbeat.pc = "pull"
  /\ heartbeat' = [heartbeat EXCEPT !.pc = "car", !.rig = rig]
  /\ UNCHANGED <<fail_count, standalone_mode, heartbeatRest>>

\* A request that fails, or an answer without this rig.
PullFails ==
  /\ heartbeat.pc = "pull"
  /\ heartbeat' = BeforePost
  /\ UNCHANGED <<fail_count, standalone_mode, heartbeatRest>>

\* An empty selection is not pulled.
SyncCar ==
  /\ heartbeat.pc = "car"
  /\ selected_car' = IF heartbeat.rig.selected_car = None THEN selected_car
                     ELSE heartbeat.rig.selected_car
  /\ heartbeat' = [heartbeat EXCEPT !.pc = "ready"]
  /\ UNCHANGED <<status, current_process, ac, race_car, listenerVars,
                 watchdog, fail_count, standalone_mode, main>>

SyncReady ==
  /\ heartbeat.pc = "ready"
  /\ status' = IF heartbeat.rig.status = "ready" THEN "ready" ELSE status
  /\ heartbeat' = BeforePost
  /\ UNCHANGED <<selected_car, current_process, ac, race_car, listenerVars,
                 watchdog, fail_count, standalone_mode, main>>
------------------------------------------------------------------------------
(***************************************************************************)
(* The driver, the main thread and the process itself.                     *)
(***************************************************************************)

\* A game process ends: the driver leaves it, or it crashes.
GameExits ==
  /\ ac > 0
  /\ ac' = ac - 1
  /\ UNCHANGED <<status, current_process, race_car, selected_car,
                 listenerVars, watchdog, heartbeatVars, main>>

\* In free use the driver starts the game from the desktop.
ManualStart ==
  /\ ManualStarts /\ ac < MaxProcesses
  /\ ac' = ac + 1
  /\ UNCHANGED <<status, current_process, race_car, selected_car,
                 listenerVars, watchdog, heartbeatVars, main>>

\* SIGINT or SIGTERM: the main thread runs kill_race beside the other threads,
\* then ends the process.
Shutdown ==
  /\ \/ /\ main = "run" /\ status' = "idle" /\ main' = "kill"
        /\ UNCHANGED <<ac, current_process>>
     \/ /\ main = "kill" /\ KillProcesses /\ main' = "exit"
        /\ UNCHANGED status
  /\ UNCHANGED <<race_car, selected_car, listenerVars, watchdog, heartbeatVars>>

\* A new agent process: the game processes and race.ini outlive the old one,
\* its connections do not.
NewAgent ==
  /\ status' = "idle" /\ selected_car' = DefaultCar
  /\ current_process' = FALSE
  /\ inbox' = <<>> /\ listening' = TRUE
  /\ command' = NoCommand /\ todo' = <<>>
  /\ watchdog' = Looking
  /\ heartbeat' = BeforePost
  /\ fail_count' = 0 /\ standalone_mode' = FALSE
  /\ main' = "run"
\* By a crash, a signal or UPDATE, at any time.
Restart == NewAgent /\ UNCHANGED <<ac, race_car>>

Init ==
  /\ status = "idle" /\ selected_car = DefaultCar
  /\ current_process = FALSE /\ ac = 0 /\ race_car = None
  /\ inbox = <<>> /\ listening = TRUE
  /\ command = NoCommand /\ todo = <<>>
  /\ watchdog = Looking
  /\ heartbeat = BeforePost
  /\ fail_count = 0 /\ standalone_mode = FALSE
  /\ main = "run"

Listener ==
  \/ Accept
  \/ ListenerDies
  \/ CommandStep
Heartbeat ==
  \/ HeartbeatPost
  \/ PostSucceeds
  \/ PostFails
  \/ \E rig \in Pulled : Pull(rig)
  \/ PullFails
  \/ SyncCar
  \/ SyncReady
Surroundings ==
  \/ \E c \in Command : Deliver(c)
  \/ Resets /\ Deliver(Reset)
  \/ GameExits
  \/ ManualStart
  \/ Shutdown
  \/ Restart

Next == Listener \/ Watchdog \/ Heartbeat \/ Surroundings
Spec == Init /\ [][Next]_vars

\* The three threads of the agent keep running.
Fairness == WF_vars(Listener) /\ WF_vars(Watchdog) /\ WF_vars(Heartbeat)
FairSpec == Spec /\ Fairness
------------------------------------------------------------------------------
(***************************************************************************)
(* Properties.                                                             *)
(***************************************************************************)

\* Every variable holds what the code stores in it.
TypeOK ==
  /\ status \in Status
  /\ selected_car \in Cars \cup {None} /\ race_car \in Cars \cup {None}
  /\ current_process \in BOOLEAN /\ ac \in Nat
  /\ inbox \in Seq(Command \cup {Reset}) /\ listening \in BOOLEAN
  /\ command \in [action: Actions \cup {None}, car: Cars \cup {None}]
  /\ todo \in Seq(Step)
  /\ watchdog \in [pc: {"look", "compare", "write"}, running: BOOLEAN]
  /\ heartbeat \in [pc: {"post", "answer", "pull", "car", "ready"},
                    sent: Status, rig: Pulled \cup {NothingPulled}]
  /\ fail_count \in 0..Threshold /\ standalone_mode \in BOOLEAN
  /\ main \in {"run", "kill", "exit"}

\* launch_race, "Kill any running process and launch AC" (agent.py:400): as
\* long as drivers do not start the game themselves, a rig runs one game at
\* most, whatever commands are repeated and wherever the agent was restarted.
OneRace == ~ManualStarts => ac <= 1

\* command_handler.py:97: when KILL_RACE or UPDATE was the last command and
\* has been carried out, no game runs, also a game whose handle the agent
\* lost to the watchdog or to a restart.
KillEndsRace ==
  ~ManualStarts /\ todo = <<>> /\ command.action \in {"KILL_RACE", "UPDATE"}
    => ac = 0

\* agent.py:320, "This makes 'racing' state reflect whether AC is actually
\* open": a rig without a game does not stay racing.
RacingEnds == <>[](ac = 0) => <>[](status # "racing")

\* agent.py:320 again, "regardless of how it was launched": while a game
\* stays open the status comes back to racing, whatever overwrites it.
RacingShown ==
  <>[](ac > 0) /\ <>[][~NewAgent]_vars => []<>(status = "racing")

\* README.md:80, "If the admin PC is down, sleds auto-enter local standalone
\* mode", and heartbeat.py:84: they leave it once posts succeed again.
StandaloneTracksOrchestrator ==
  /\ <>[][~PostSucceeds /\ ~NewAgent]_vars => <>[]standalone_mode
  /\ <>[][~PostFails /\ ~NewAgent]_vars => <>[]~standalone_mode
==============================================================================
