----------------------------- MODULE SledProofs ------------------------------
(***************************************************************************)
(* What the agent of a rig guarantees for every set of cars, commands and  *)
(* bounds: its types, one race at a time, and that a kill ends the race.   *)
(***************************************************************************)
EXTENDS Sled, TLAPS

\* The last step of a launch starts a game, right after a kill; no other
\* command starts one.
StartsLast(steps, action) ==
  \A i \in 1..Len(steps) : steps[i] = "start" =>
    /\ action = "LAUNCH_RACE" /\ i = Len(steps)
    /\ i > 1 => steps[i - 1] = "kill"
KillAhead(steps) == \E i \in 1..Len(steps) : steps[i] = "kill"

\* With no manual starts there is no game at the point where a launch starts
\* one, nor after the kill of a KILL_RACE or an UPDATE.
RaceInv ==
  /\ StartsLast(todo, command.action)
  /\ ~ManualStarts =>
       /\ ac <= 1
       /\ todo # <<>> /\ Head(todo) = "start" => ac = 0
       /\ command.action \in {"KILL_RACE", "UPDATE"} /\ ~KillAhead(todo) => ac = 0
IInv == TypeOK /\ RaceInv
------------------------------------------------------------------------------
\* What the watchdog and the heartbeat thread hold between two rounds.
LEMMA RestingTyped ==
  /\ Looking \in [pc: {"look", "compare", "write"}, running: BOOLEAN]
  /\ {BeforePost, BeforePull} \subseteq
       [pc: {"post", "answer", "pull", "car", "ready"},
        sent: Status, rig: Pulled \cup {NothingPulled}]
  BY DEF Looking, BeforePost, BeforePull, Status

LEMMA InitInv == SledAssumption /\ Init => IInv
<1> SUFFICES ASSUME SledAssumption, Init PROVE IInv
  OBVIOUS
<1> USE DEF Init
<1>1. status \in Status /\ ac \in Nat /\ fail_count \in 0..Threshold
  BY DEF SledAssumption, Status
<1>2. selected_car \in Cars \cup {None} /\ race_car \in Cars \cup {None}
  BY DEF SledAssumption
<1>3. inbox \in Seq(Command \cup {Reset}) /\ todo \in Seq(Step)
  OBVIOUS
<1>4. command \in [action: Actions \cup {None}, car: Cars \cup {None}]
  BY DEF NoCommand
<1>5. /\ current_process \in BOOLEAN /\ listening \in BOOLEAN
      /\ standalone_mode \in BOOLEAN /\ main \in {"run", "kill", "exit"}
      /\ watchdog \in [pc: {"look", "compare", "write"}, running: BOOLEAN]
  BY RestingTyped, Zenon
<1>6. heartbeat \in [pc: {"post", "answer", "pull", "car", "ready"},
                     sent: Status, rig: Pulled \cup {NothingPulled}]
  BY RestingTyped
<1>7. TypeOK
  BY <1>1, <1>2, <1>3, <1>4, <1>5, <1>6, Zenon DEF TypeOK
<1>8. command.action = None /\ todo = <<>> /\ ac = 0
  BY DEF NoCommand
<1>9. RaceInv
  BY <1>8 DEF RaceInv, StartsLast, KillAhead, SledAssumption, Action
<1> QED
  BY <1>7, <1>9 DEF IInv

\* What the steps of a command are like when it is accepted.
LEMMA StepsOfCommand ==
  ASSUME NEW action \in Action
  PROVE  /\ StepsOf(action) \in Seq(Step)
         /\ StartsLast(StepsOf(action), action)
         /\ Head(StepsOf(action)) # "start"
         /\ action \in {"KILL_RACE", "UPDATE"} => KillAhead(StepsOf(action))
<1> DEFINE Good(steps) ==
      /\ steps \in Seq(Step)
      /\ StartsLast(steps, action)
      /\ Head(steps) # "start"
      /\ action \in {"KILL_RACE", "UPDATE"} => KillAhead(steps)
<1>1. CASE action = "LAUNCH_RACE"
  <2>1. Good(<<"resolve_car", "set_idle", "kill", "start">>)
    BY <1>1 DEF Step, StartsLast
  <2>2. Good(<<"set_idle", "kill", "resolve_car", "set_idle", "kill", "start">>)
    BY <1>1 DEF Step, StartsLast
  <2>3. StepsOf(action) \in
          {<<"resolve_car", "set_idle", "kill", "start">>,
           <<"set_idle", "kill", "resolve_car", "set_idle", "kill", "start">>}
    BY <1>1, Zenon DEF StepsOf
  <2> QED
    BY <2>1, <2>2, <2>3, Zenon
<1>2. CASE action # "LAUNCH_RACE"
  <2>1. StepsOf(action) = StepsOfOther(action)
    BY <1>2, Zenon DEF StepsOf
  <2>2. action \in {"SETUP_MODE", "KILL_RACE", "SYNC_MODS", "UPDATE"}
    BY <1>2 DEF Action
  <2>3. CASE action = "SETUP_MODE"
    <3>1. Good(<<"set_setup", "clear_car">>)
      BY <2>3 DEF Step, StartsLast
    <3> QED
      BY <2>1, <2>3, <3>1 DEF StepsOfOther
  <2>4. CASE action = "KILL_RACE"
    <3>1. Good(<<"set_idle", "kill">>)
      BY <2>4 DEF Step, StartsLast, KillAhead
    <3> QED
      BY <2>1, <2>4, <3>1 DEF StepsOfOther
  <2>5. CASE action = "SYNC_MODS"
    <3>1. Good(<<"set_syncing", "sync", "set_idle">>)
      BY <2>5 DEF Step, StartsLast
    <3> QED
      BY <2>1, <2>5, <3>1 DEF StepsOfOther
  <2>6. CASE action = "UPDATE"
    <3>1. Good(<<"set_idle", "kill", "exit">>)
      BY <2>6 DEF Step, StartsLast, KillAhead
    <3> QED
      BY <2>1, <2>6, <3>1 DEF StepsOfOther
  <2> QED
    BY <2>2, <2>3, <2>4, <2>5, <2>6
<1> QED
  BY <1>1, <1>2

\* What the rest of a command is like after its first step.
LEMMA StepsAfterHead ==
  ASSUME NEW steps \in Seq(Step), steps # <<>>, NEW action,
         StartsLast(steps, action)
  PROVE  /\ Tail(steps) \in Seq(Step)
         /\ StartsLast(Tail(steps), action)
         /\ Tail(steps) # <<>> /\ Head(Tail(steps)) = "start" => Head(steps) = "kill"
         /\ KillAhead(steps) => Head(steps) = "kill" \/ KillAhead(Tail(steps))
<1>1. /\ Tail(steps) \in Seq(Step) /\ Len(Tail(steps)) = Len(steps) - 1
      /\ Len(steps) \in Nat \ {0} /\ Head(steps) = steps[1]
      /\ \A i \in 1..Len(steps) - 1 : Tail(steps)[i] = steps[i + 1]
  OBVIOUS
<1>2. StartsLast(Tail(steps), action)
  <2> SUFFICES ASSUME NEW i \in 1..Len(Tail(steps)), Tail(steps)[i] = "start"
               PROVE  /\ action = "LAUNCH_RACE" /\ i = Len(Tail(steps))
                      /\ i > 1 => Tail(steps)[i - 1] = "kill"
    BY DEF StartsLast
  <2>1. i + 1 \in 1..Len(steps) /\ steps[i + 1] = "start" /\ i + 1 > 1
    BY <1>1
  <2>2. /\ action = "LAUNCH_RACE" /\ i + 1 = Len(steps)
        /\ steps[(i + 1) - 1] = "kill"
    BY <2>1, Zenon DEF StartsLast
  <2>3. i = Len(steps) - 1 /\ steps[i] = "kill"
    <3>1. i \in Nat /\ Len(steps) \in Nat
      BY <1>1
    <3>2. i = Len(steps) - 1 /\ (i + 1) - 1 = i
      BY <3>1, <2>2
    <3> QED
      BY <2>2, <3>2, Zenon
  <2>4. i > 1 => i - 1 \in 1..Len(steps) - 1 /\ (i - 1) + 1 = i
    BY <1>1
  <2>5. i > 1 => Tail(steps)[i - 1] = "kill"
    <3> SUFFICES ASSUME i > 1 PROVE Tail(steps)[i - 1] = "kill"
      OBVIOUS
    <3>1. Tail(steps)[i - 1] = steps[(i - 1) + 1]
      BY <1>1, <2>4, Zenon
    <3> QED
      BY <2>3, <2>4, <3>1, Zenon
  <2> QED
    BY <1>1, <2>2, <2>3, <2>5, Zenon
<1>3. Tail(steps) # <<>> /\ Head(Tail(steps)) = "start" => Head(steps) = "kill"
  <2> SUFFICES ASSUME Tail(steps) # <<>>, Head(Tail(steps)) = "start"
               PROVE  Head(steps) = "kill"
    OBVIOUS
  <2>1. 2 \in 1..Len(steps) /\ steps[2] = "start"
    BY <1>1
  <2>2. steps[2 - 1] = "kill"
    BY <2>1 DEF StartsLast
  <2> QED
    BY <1>1, <2>2
<1>4. KillAhead(steps) => Head(steps) = "kill" \/ KillAhead(Tail(steps))
  <2> SUFFICES ASSUME NEW i \in 1..Len(steps), steps[i] = "kill", i # 1
               PROVE  KillAhead(Tail(steps))
    BY <1>1 DEF KillAhead
  <2>1. i - 1 \in 1..Len(Tail(steps)) /\ Tail(steps)[i - 1] = "kill"
    BY <1>1
  <2> QED
    BY <2>1 DEF KillAhead
<1> QED
  BY <1>1, <1>2, <1>3, <1>4

\* A step that leaves the commands and the games alone keeps RaceInv.
LEMMA RaceUnchanged ==
  RaceInv /\ UNCHANGED <<todo, command, ac>> => RaceInv'
  BY DEF RaceInv, StartsLast, KillAhead

LEMMA DeliverInv ==
  ASSUME SledAssumption, IInv, NEW c \in Command \cup {Reset}, Deliver(c)
  PROVE  IInv'
<1>1. TypeOK'
  BY DEF IInv, TypeOK, Deliver, heartbeatVars
<1>2. RaceInv'
  BY RaceUnchanged DEF IInv, Deliver
<1> QED
  BY <1>1, <1>2 DEF IInv

LEMMA AcceptInv ==
  ASSUME SledAssumption, IInv, Accept
  PROVE  IInv'
<1>1. /\ inbox \in Seq(Command \cup {Reset}) /\ inbox # <<>>
      /\ Head(inbox) # Reset
  BY DEF IInv, TypeOK, Accept
<1>2. Head(inbox) \in Command /\ Tail(inbox) \in Seq(Command \cup {Reset})
  BY <1>1
<1>3. Head(inbox).action \in Action
  BY <1>2 DEF Command, SledAssumption
<1>4. TypeOK'
  <2>1. todo' \in Seq(Step)
    BY <1>3, StepsOfCommand DEF Accept
  <2>2. command' \in [action: Actions \cup {None}, car: Cars \cup {None}]
    BY <1>2 DEF Accept, Command
  <2>3. inbox' \in Seq(Command \cup {Reset})
    BY <1>2 DEF Accept
  <2>4. UNCHANGED <<status, selected_car, current_process, ac, race_car,
                    listening, watchdog, heartbeat, fail_count,
                    standalone_mode, main>>
    BY DEF Accept, heartbeatVars
  <2> QED
    BY <2>1, <2>2, <2>3, <2>4, SMT DEF IInv, TypeOK
<1>5. RaceInv'
  <2> DEFINE a == Head(inbox).action
  <2>1. /\ StartsLast(StepsOf(a), a) /\ Head(StepsOf(a)) # "start"
        /\ a \in {"KILL_RACE", "UPDATE"} => KillAhead(StepsOf(a))
    BY <1>3, StepsOfCommand
  <2>2. todo' = StepsOf(a) /\ command'.action = a /\ UNCHANGED ac
    BY DEF Accept
  <2> QED
    BY <2>1, <2>2, Zenon DEF IInv, RaceInv
<1> QED
  BY <1>4, <1>5 DEF IInv

LEMMA ListenerDiesInv ==
  ASSUME SledAssumption, IInv, ListenerDies
  PROVE  IInv'
<1>1. TypeOK'
  <2>1. inbox' \in Seq(Command \cup {Reset})
    BY DEF IInv, TypeOK, ListenerDies
  <2>2. UNCHANGED <<status, selected_car, current_process, ac, race_car,
                    command, todo, watchdog, heartbeat, fail_count,
                    standalone_mode, main>>
    BY DEF ListenerDies, heartbeatVars
  <2>3. listening' \in BOOLEAN
    BY Zenon DEF ListenerDies
  <2> QED
    BY <2>1, <2>2, <2>3, SMT DEF IInv, TypeOK
<1>2. RaceInv'
  BY RaceUnchanged DEF IInv, ListenerDies
<1> QED
  BY <1>1, <1>2 DEF IInv

LEMMA CommandStepInv ==
  ASSUME SledAssumption, IInv, CommandStep
  PROVE  IInv'
<1> USE DEF IInv
<1>1. todo \in Seq(Step) /\ todo # <<>> /\ todo' = Tail(todo)
  BY DEF TypeOK, CommandStep
<1>2. /\ todo' \in Seq(Step)
      /\ StartsLast(todo', command.action)
      /\ todo' # <<>> /\ Head(todo') = "start" => Head(todo) = "kill"
      /\ KillAhead(todo) => Head(todo) = "kill" \/ KillAhead(todo')
  BY <1>1, StepsAfterHead DEF RaceInv
<1>3. /\ command' \in [action: Actions \cup {None}, car: Cars \cup {None}]
      /\ command'.action = command.action
  <2>1. CASE ResolveCar
    <3>1. Head(todo) = "resolve_car" /\ selected_car \in Cars \cup {None}
      BY <2>1 DEF ResolveCar, TypeOK
    <3> QED
      BY <2>1, <3>1 DEF ResolveCar, TypeOK
  <2>2. CASE UNCHANGED command
    BY <2>2 DEF TypeOK
  <2> QED
    BY <2>1, <2>2, Zenon
       DEF CommandStep, SetStatus, ClearCar, Kill, ResolveCar, Start, Pass
<1>4. /\ status' \in Status
      /\ selected_car' \in Cars \cup {None} /\ race_car' \in Cars \cup {None}
  BY DEF CommandStep, SetStatus, ClearCar, Kill, ResolveCar, Start, Pass,
         TypeOK, StatusAfter, Status
<1>5. ac' \in Nat /\ current_process' \in BOOLEAN
  <2>1. ac' \in {ac, ac + 1, 0} /\ current_process' \in {current_process, TRUE, FALSE}
    BY Zenon DEF CommandStep, SetStatus, ClearCar, Kill, KillProcesses,
                 ResolveCar, Start, Pass
  <2>2. ac \in Nat /\ current_process \in BOOLEAN
    BY Zenon DEF TypeOK
  <2>3. ac' \in Nat
    BY <2>1, <2>2
  <2> QED
    BY <2>1, <2>2, <2>3, Zenon
<1>6. TypeOK'
  <2>1. /\ inbox' = inbox /\ listening' = listening /\ watchdog' = watchdog
        /\ heartbeat' = heartbeat /\ fail_count' = fail_count
        /\ standalone_mode' = standalone_mode /\ main' = main
    BY DEF CommandStep, heartbeatVars
  <2> QED
    BY <1>2, <1>3, <1>4, <1>5, <2>1, Zenon DEF TypeOK
<1>7. ASSUME ~ManualStarts
      PROVE  /\ ac' <= 1
             /\ todo' # <<>> /\ Head(todo') = "start" => ac' = 0
             /\ command'.action \in {"KILL_RACE", "UPDATE"} /\ ~KillAhead(todo')
                  => ac' = 0
  <2>1. CASE Kill
    <3>1. ac' = 0
      BY <2>1 DEF Kill, KillProcesses
    <3> QED
      BY <3>1
  <2>2. CASE Start
    <3>1. Head(todo) = "start" /\ ac = 0 /\ ac' \in {0, 1}
      BY <1>1, <1>7, <2>2 DEF Start, RaceInv
    <3>2. command.action = "LAUNCH_RACE"
      <4>1. 1 \in 1..Len(todo) /\ todo[1] = "start"
        BY <1>1, <3>1
      <4> QED
        BY <4>1, Zenon DEF RaceInv, StartsLast
    <3> QED
      BY <1>2, <1>3, <3>1, <3>2
  <2>3. CASE SetStatus \/ ClearCar \/ ResolveCar \/ Pass
    <3>1. ac' = ac /\ Head(todo) # "kill"
      BY <2>3 DEF SetStatus, ClearCar, ResolveCar, Pass
    <3> QED
      BY <1>2, <1>3, <1>7, <3>1, Zenon DEF RaceInv
  <2> QED
    BY <2>1, <2>2, <2>3 DEF CommandStep
<1>8. RaceInv'
  BY <1>2, <1>3, <1>7, Zenon DEF RaceInv
<1> QED
  BY <1>6, <1>8

LEMMA WatchdogInv ==
  ASSUME SledAssumption, IInv, Watchdog
  PROVE  IInv'
<1>1. UNCHANGED <<ac, race_car, selected_car, inbox, listening, command, todo,
                  heartbeat, fail_count, standalone_mode, main>>
  BY DEF Watchdog, WatchdogLook, WatchdogCompare, WatchdogWrite, agentVars,
         listenerVars, heartbeatVars
<1>2. status' \in Status
  BY DEF Watchdog, WatchdogLook, WatchdogCompare, WatchdogWrite, IInv, TypeOK,
         Status
<1>3. current_process' \in BOOLEAN
  BY Zenon DEF Watchdog, WatchdogLook, WatchdogCompare, WatchdogWrite, IInv, TypeOK
<1>4. watchdog' \in [pc: {"look", "compare", "write"}, running: BOOLEAN]
  <2>1. watchdog \in [pc: {"look", "compare", "write"}, running: BOOLEAN]
    BY DEF IInv, TypeOK
  <2>2. CASE WatchdogLook
    BY <2>2 DEF WatchdogLook
  <2>3. CASE WatchdogCompare
    BY <2>1, <2>3, RestingTyped DEF WatchdogCompare
  <2>4. CASE WatchdogWrite
    BY <2>1, <2>4, RestingTyped DEF WatchdogWrite
  <2> QED
    BY <2>2, <2>3, <2>4 DEF Watchdog
<1>5. TypeOK'
  BY <1>1, <1>2, <1>3, <1>4, SMT DEF IInv, TypeOK
<1>6. RaceInv'
  BY <1>1, RaceUnchanged DEF IInv
<1> QED
  BY <1>5, <1>6 DEF IInv

LEMMA HeartbeatInv ==
  ASSUME SledAssumption, IInv, Heartbeat
  PROVE  IInv'
<1> DEFINE HeartbeatType ==
      [pc: {"post", "answer", "pull", "car", "ready"},
       sent: Status, rig: Pulled \cup {NothingPulled}]
<1>1. /\ heartbeat \in HeartbeatType /\ status \in Status
      /\ selected_car \in Cars \cup {None}
      /\ fail_count \in 0..Threshold
  BY DEF IInv, TypeOK
<1>2. UNCHANGED <<current_process, ac, race_car, inbox, listening, command,
                  todo, watchdog, main>>
  BY Zenon DEF Heartbeat, HeartbeatPost, PostSucceeds, PostFails, Pull, PullFails,
         SyncCar, SyncReady, heartbeatRest, listenerVars
<1>3. heartbeat' \in HeartbeatType
  <2>1. CASE HeartbeatPost
    BY <1>1, <2>1 DEF HeartbeatPost
  <2>2. CASE PostSucceeds \/ PostFails
    BY <1>1, <2>2, RestingTyped DEF PostSucceeds, PostFails, AfterPost
  <2>3. ASSUME NEW rig \in Pulled, Pull(rig) PROVE heartbeat' \in HeartbeatType
    BY <1>1, <2>3 DEF Pull
  <2>4. CASE PullFails \/ SyncCar \/ SyncReady
    BY <1>1, <2>4, RestingTyped DEF PullFails, SyncCar, SyncReady
  <2> QED
    BY <2>1, <2>2, <2>3, <2>4 DEF Heartbeat
<1>4. status' \in Status /\ selected_car' \in Cars \cup {None}
  <2>1. CASE SyncCar
    <3>1. heartbeat.rig.selected_car \in Cars \cup {None}
      BY <1>1 DEF Pulled, NothingPulled
    <3> QED
      BY <1>1, <2>1, <3>1 DEF SyncCar
  <2>2. CASE SyncReady
    BY <1>1, <2>2 DEF SyncReady, Status
  <2>3. CASE UNCHANGED <<status, selected_car>>
    BY <1>1, <2>3
  <2> QED
    BY <2>1, <2>2, <2>3, Zenon
       DEF Heartbeat, HeartbeatPost, PostSucceeds, PostFails, Pull, PullFails,
           heartbeatRest
<1>5. fail_count' \in 0..Threshold
  <2>1. fail_count' \in {fail_count, 0, MoreFailures}
    BY Zenon DEF Heartbeat, HeartbeatPost, PostSucceeds, PostFails, Pull,
                 PullFails, SyncCar, SyncReady
  <2> QED
    BY <1>1, <2>1 DEF MoreFailures, SledAssumption
<1>6. standalone_mode' \in BOOLEAN
  <2>1. standalone_mode \in BOOLEAN
    BY Zenon DEF IInv, TypeOK
  <2> QED
    BY <2>1, Zenon DEF Heartbeat, HeartbeatPost, PostSucceeds, PostFails, Pull,
                       PullFails, SyncCar, SyncReady
<1>7. TypeOK'
  BY <1>2, <1>3, <1>4, <1>5, <1>6, Zenon DEF IInv, TypeOK
<1>8. RaceInv'
  BY <1>2, RaceUnchanged DEF IInv
<1> QED
  BY <1>7, <1>8 DEF IInv

LEMMA SurroundingsInv ==
  ASSUME SledAssumption, IInv, Surroundings
  PROVE  IInv'
<1>1. CASE \E c \in Command : Deliver(c)
  BY <1>1, DeliverInv
<1>2. CASE Deliver(Reset)
  BY <1>2, DeliverInv
<1>3. CASE GameExits
  <2>1. /\ UNCHANGED <<status, selected_car, current_process, race_car, inbox,
                       listening, command, todo, watchdog, heartbeat,
                       fail_count, standalone_mode, main>>
        /\ ac > 0 /\ ac' = ac - 1 /\ ac \in Nat
    BY <1>3 DEF GameExits, listenerVars, heartbeatVars, IInv, TypeOK
  <2>2. ac' \in Nat /\ ac' <= ac /\ (ac = 0 => ac' = 0)
    BY <2>1
  <2>3. TypeOK'
    BY <2>1, <2>2, SMT DEF IInv, TypeOK
  <2>4. RaceInv'
    BY <2>1, <2>2 DEF IInv, RaceInv, StartsLast, KillAhead
  <2> QED
    BY <2>3, <2>4 DEF IInv
<1>4. CASE ManualStart
  <2>1. /\ UNCHANGED <<status, selected_car, current_process, race_car, inbox,
                       listening, command, todo, watchdog, heartbeat,
                       fail_count, standalone_mode, main>>
        /\ ManualStarts /\ ac' = ac + 1 /\ ac \in Nat
    BY <1>4 DEF ManualStart, listenerVars, heartbeatVars, IInv, TypeOK
  <2>2. ac' \in Nat
    BY <2>1
  <2>3. TypeOK'
    BY <2>1, <2>2, SMT DEF IInv, TypeOK
  <2>4. RaceInv'
    BY <2>1 DEF IInv, RaceInv, StartsLast
  <2> QED
    BY <2>3, <2>4 DEF IInv
<1>5. CASE Shutdown
  <2>1. /\ UNCHANGED <<selected_car, race_car, inbox, listening, command, todo,
                       watchdog, heartbeat, fail_count, standalone_mode>>
        /\ ac' \in {ac, 0} /\ ac \in Nat
        /\ status' \in Status /\ main' \in {"run", "kill", "exit"}
    BY <1>5 DEF Shutdown, KillProcesses, listenerVars, heartbeatVars, IInv,
                TypeOK, Status
  <2>2. current_process' \in BOOLEAN
    BY <1>5, Zenon DEF Shutdown, KillProcesses, IInv, TypeOK
  <2>3. ac' \in Nat /\ ac' <= ac /\ (ac = 0 => ac' = 0)
    BY <2>1
  <2>4. TypeOK'
    BY <2>1, <2>2, <2>3, SMT DEF IInv, TypeOK
  <2>5. RaceInv'
    BY <2>1, <2>3 DEF IInv, RaceInv, StartsLast, KillAhead
  <2> QED
    BY <2>4, <2>5 DEF IInv
<1>6. CASE Restart
  <2>1. ac' = ac /\ ac \in Nat /\ race_car' = race_car
    BY <1>6 DEF Restart, IInv, TypeOK
  <2>2. TypeOK'
    <3> USE <1>6 DEF Restart, NewAgent
    <3>1. status' \in Status /\ fail_count' \in 0..Threshold
      BY DEF SledAssumption, Status
    <3>2. selected_car' \in Cars \cup {None} /\ race_car' \in Cars \cup {None}
      BY <2>1 DEF SledAssumption, IInv, TypeOK
    <3>3. inbox' \in Seq(Command \cup {Reset}) /\ todo' \in Seq(Step)
      OBVIOUS
    <3>4. command' \in [action: Actions \cup {None}, car: Cars \cup {None}]
      BY DEF NoCommand
    <3>5. /\ current_process' \in BOOLEAN /\ listening' \in BOOLEAN
          /\ standalone_mode' \in BOOLEAN /\ main' \in {"run", "kill", "exit"}
          /\ watchdog' \in [pc: {"look", "compare", "write"}, running: BOOLEAN]
      BY RestingTyped, Zenon
    <3>6. heartbeat' \in [pc: {"post", "answer", "pull", "car", "ready"},
                          sent: Status, rig: Pulled \cup {NothingPulled}]
      BY RestingTyped
    <3> QED
      BY <2>1, <3>1, <3>2, <3>3, <3>4, <3>5, <3>6, Zenon DEF TypeOK
  <2>3. RaceInv'
    <3>1. todo' = <<>> /\ command'.action = None
      BY <1>6 DEF Restart, NewAgent, NoCommand
    <3> QED
      BY <2>1, <3>1 DEF RaceInv, StartsLast, IInv, SledAssumption, Action
  <2> QED
    BY <2>2, <2>3 DEF IInv
<1> QED
  BY <1>1, <1>2, <1>3, <1>4, <1>5, <1>6, Zenon DEF Surroundings

LEMMA StepInv == SledAssumption /\ IInv /\ [Next]_vars => IInv'
<1> SUFFICES ASSUME SledAssumption, IInv, [Next]_vars PROVE IInv'
  OBVIOUS
<1>1. CASE Listener
  BY <1>1, AcceptInv, ListenerDiesInv, CommandStepInv DEF Listener
<1>2. CASE Watchdog
  BY <1>2, WatchdogInv
<1>3. CASE Heartbeat
  BY <1>3, HeartbeatInv
<1>4. CASE Surroundings
  BY <1>4, SurroundingsInv
<1>5. CASE UNCHANGED vars
  <2>1. UNCHANGED <<status, selected_car, current_process, ac, race_car, inbox,
                    listening, command, todo, watchdog, heartbeat, fail_count,
                    standalone_mode, main>>
    BY <1>5 DEF vars
  <2>2. TypeOK'
    BY <2>1, SMT DEF IInv, TypeOK
  <2>3. RaceInv'
    BY <2>1, RaceUnchanged DEF IInv
  <2> QED
    BY <2>2, <2>3 DEF IInv
<1> QED
  BY <1>1, <1>2, <1>3, <1>4, <1>5 DEF Next

LEMMA InvAlways == Spec => []IInv
  BY SledAssumption, InitInv, StepInv, PTL DEF Spec
------------------------------------------------------------------------------
\* Every reachable state is well typed, for any cars, commands and bounds.
THEOREM SledTypeCorrect == Spec => []TypeOK
<1>1. IInv => TypeOK
  BY DEF IInv
<1> QED
  BY <1>1, InvAlways, PTL

\* launch_race "Kill any running process and launch AC" (agent.py:400): an
\* agent never runs two games, whatever it is told and wherever it stops.
THEOREM OneRaceAlways == Spec => []OneRace
<1>1. IInv => OneRace
  BY DEF IInv, RaceInv, OneRace
<1> QED
  BY <1>1, InvAlways, PTL

\* command_handler.py:97: no game outlives a KILL_RACE or an UPDATE that has
\* been carried out, even when the agent no longer holds the game's handle.
THEOREM KillAlwaysEndsRace == Spec => []KillEndsRace
<1>1. IInv => KillEndsRace
  <2> SUFFICES ASSUME IInv, ~ManualStarts, todo = <<>>,
                      command.action \in {"KILL_RACE", "UPDATE"}
               PROVE  ac = 0
    BY DEF KillEndsRace
  <2>1. ~KillAhead(todo)
    BY DEF KillAhead
  <2> QED
    BY <2>1 DEF IInv, RaceInv
<1> QED
  BY <1>1, InvAlways, PTL
==============================================================================
