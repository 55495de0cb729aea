--------------------------- MODULE RigControlProofs ---------------------------
(***************************************************************************)
(* The composition of RigControl, for every value of its constants: each   *)
(* of its steps is a step of the registry or leaves the registry alone,    *)
(* and a step of the agent or leaves the agent alone.  What is proved of   *)
(* the two modules therefore holds of a rig under control.                 *)
(***************************************************************************)
EXTENDS RigControl, RigRegistryProofs, FiniteSetTheorems

SledThms == INSTANCE SledProofs WITH
  Actions <- Action, PulledStatuses <- RigStatus, Resets <- FALSE
------------------------------------------------------------------------------
LEMMA SledConstants == SledThms!SledAssumption
  BY ControlAssumption, RegistryAssumption
  DEF SledThms!SledAssumption, SledThms!Status, SledThms!Action, Action, RigStatus

LEMMA SameInit == Agent!Init <=> SledThms!Init
  BY DEF Agent!Init, SledThms!Init, Agent!NoCommand, SledThms!NoCommand,
     Agent!NothingPulled, SledThms!NothingPulled, Agent!Looking,
     SledThms!Looking, Agent!BeforePost, SledThms!BeforePost

LEMMA SameNext == [Agent!Next]_Agent!vars <=> [SledThms!Next]_SledThms!vars
  BY Zenon
  DEF Agent!agentVars, SledThms!agentVars, Agent!listenerVars,
     SledThms!listenerVars, Agent!heartbeatVars, SledThms!heartbeatVars,
     Agent!Command, SledThms!Command, Agent!Reset, SledThms!Reset,
     Agent!Pulled, SledThms!Pulled, Agent!NoCommand, SledThms!NoCommand,
     Agent!NothingPulled, SledThms!NothingPulled, Agent!Looking,
     SledThms!Looking, Agent!BeforePost, SledThms!BeforePost,
     Agent!BeforePull, SledThms!BeforePull, Agent!heartbeatRest,
     SledThms!heartbeatRest, Agent!StepsOfOther, SledThms!StepsOfOther,
     Agent!StepsOf, SledThms!StepsOf, Agent!Deliver, SledThms!Deliver,
     Agent!Accept, SledThms!Accept, Agent!ListenerDies,
     SledThms!ListenerDies, Agent!StatusAfter, SledThms!StatusAfter,
     Agent!SetStatus, SledThms!SetStatus, Agent!ClearCar,
     SledThms!ClearCar, Agent!KillProcesses, SledThms!KillProcesses,
     Agent!Kill, SledThms!Kill, Agent!ResolveCar, SledThms!ResolveCar,
     Agent!Start, SledThms!Start, Agent!Pass, SledThms!Pass,
     Agent!CommandStep, SledThms!CommandStep, Agent!WatchdogLook,
     SledThms!WatchdogLook, Agent!WatchdogCompare,
     SledThms!WatchdogCompare, Agent!WatchdogWrite, SledThms!WatchdogWrite,
     Agent!Watchdog, SledThms!Watchdog, Agent!HeartbeatPost,
     SledThms!HeartbeatPost, Agent!AfterPost, SledThms!AfterPost,
     Agent!PostSucceeds, SledThms!PostSucceeds, Agent!MoreFailures,
     SledThms!MoreFailures, Agent!PostFails, SledThms!PostFails,
     Agent!Pull, SledThms!Pull, Agent!PullFails, SledThms!PullFails,
     Agent!SyncCar, SledThms!SyncCar, Agent!SyncReady, SledThms!SyncReady,
     Agent!GameExits, SledThms!GameExits, Agent!ManualStart,
     SledThms!ManualStart, Agent!Shutdown, SledThms!Shutdown,
     Agent!NewAgent, SledThms!NewAgent, Agent!Restart, SledThms!Restart,
     Agent!Listener, SledThms!Listener, Agent!Heartbeat,
     SledThms!Heartbeat, Agent!Surroundings, SledThms!Surroundings,
     Agent!Next, SledThms!Next, Agent!vars, SledThms!vars
------------------------------------------------------------------------------
(***************************************************************************)
(* What a step of the composition needs to know to be one of the           *)
(* components' steps: the types of both, and that a late post carries a    *)
(* status.                                                                 *)
(***************************************************************************)
CtrlInv == TypeOK /\ SledThms!IInv /\ late \subseteq RigStatus

LEMMA SentStatus == SledThms!IInv => heartbeat.sent \in RigStatus
  BY DEF SledThms!IInv, SledThms!TypeOK, SledThms!Status, RigStatus

\* A post of the sled is one of the registry's heartbeats.
LEMMA PostIsRequest ==
  ASSUME NEW s \in RigStatus, UpdateRigStatus(Me, Body(s))
  PROVE  Next
<1>1. Body(s) \in Heartbeats
  BY ControlAssumption DEF Body, Heartbeats
<1>2. RigRequest(Me)
  BY <1>1 DEF RigRequest, StatusUpdates
<1> QED
  BY <1>2, ControlAssumption DEF Next

LEMMA RequestIsStep == Request => Next
<1> SUFFICES ASSUME Request PROVE Next
  OBVIOUS
<1>1. CASE \E u \in KioskPosts \cup DashboardPicks : UpdateRigStatus(Me, u)
  <2>1. RigRequest(Me)
    BY <1>1 DEF RigRequest, StatusUpdates
  <2> QED
    BY <2>1, ControlAssumption DEF Next
<1>2. CASE \E action \in Actions : SendCommand(Me, action)
  <2>1. RigRequest(Me)
    BY <1>2 DEF RigRequest
  <2> QED
    BY <2>1, ControlAssumption DEF Next
<1>3. CASE \E action \in Actions : SendGlobalCommand(action)
  BY <1>3 DEF Next, FleetRequest
<1> QED
  BY <1>1, <1>2, <1>3 DEF Request

\* An attempt that ends its task is the registry's dispatch; one that will be
\* repeated is nothing the registry sees.
LEMMA DispatchIsStep ==
  ASSUME NEW i \in DOMAIN tasks, Dispatch(i)
  PROVE  Next \/ UNCHANGED vars
<1>1. PICK t \in tasks[i].dispatch : DispatchArrives(i, t) \/ DispatchFails(i, t)
  BY DEF Dispatch
<1>2. UNCHANGED <<rigs, groups, laps, session_best>>
  BY DEF Dispatch
<1>3. Done(i, t) \/ Retry(i)
  BY <1>1 DEF DispatchArrives, DispatchFails
<1>4. CASE Done(i, t)
  <2>1. RunDispatch(i)
    BY <1>2, <1>4 DEF RunDispatch, Done
  <2> QED
    BY <2>1 DEF Worker, Next
<1>5. CASE Retry(i)
  BY <1>2, <1>5 DEF Retry, vars
<1> QED
  BY <1>3, <1>4, <1>5

LEMMA RegistryStep == CtrlInv /\ [CNext]_allVars => [Next]_vars
<1> SUFFICES ASSUME CtrlInv, [CNext]_allVars PROVE Next \/ UNCHANGED vars
  OBVIOUS
<1>1. CASE ListenerStep \/ WatchdogStep \/ HeartbeatStep \/ SledEvent
  BY <1>1 DEF ListenerStep, WatchdogStep, HeartbeatStep, SledEvent
<1>2. CASE PostTimesOut \/ PullAnswered
  BY <1>2 DEF PostTimesOut, PullAnswered
<1>3. CASE PostAnswered
  BY <1>3, SentStatus, PostIsRequest DEF CtrlInv, PostAnswered
<1>4. CASE LatePost
  BY <1>4, PostIsRequest DEF CtrlInv, LatePost
<1>5. CASE Request
  BY <1>5, RequestIsStep
<1>6. CASE \E i \in DOMAIN tasks : Dispatch(i)
  BY <1>6, DispatchIsStep
<1>7. CASE OrchestratorRestart \/ Reaper \/ Clock
  BY <1>7 DEF OrchestratorRestart, Reaper, Clock, Next
<1>8. CASE UNCHANGED allVars
  BY <1>8 DEF allVars
<1> QED
  BY <1>1, <1>2, <1>3, <1>4, <1>5, <1>6, <1>7, <1>8 DEF CNext
------------------------------------------------------------------------------
(***************************************************************************)
(* The agent's side.                                                       *)
(***************************************************************************)

\* The orchestrator's record is something a pull may find.
LEMMA RecordIsPulled ==
  ASSUME TypeOK, Known(Me)
  PROVE  [status |-> rigs[Me].status, selected_car |-> rigs[Me].selected_car]
           \in Agent!Pulled
<1>1. rigs[Me] \in Rig
  BY ControlAssumption DEF TypeOK, Known
<1> QED
  BY <1>1 DEF Rig, Agent!Pulled

\* What is dispatched is a command the sled understands.
LEMMA DispatchIsCommand ==
  ASSUME TypeOK, NEW i \in DOMAIN tasks, NEW t \in tasks[i].dispatch
  PROVE  CommandOf(t) \in Agent!Command
<1>1. tasks[i] \in Batch
  BY DEF TypeOK
<1>2. t \in Task
  BY <1>1 DEF Batch
<1> QED
  BY <1>2 DEF Task, CommandOf, Agent!Command

LEMMA AgentStep == CtrlInv /\ [CNext]_allVars => [Agent!Next]_Agent!vars
<1> SUFFICES ASSUME CtrlInv, [CNext]_allVars
             PROVE  Agent!Next \/ UNCHANGED Agent!vars
  OBVIOUS
<1>1. UNCHANGED sledVars => UNCHANGED Agent!vars
  BY DEF sledVars, Agent!vars
<1>2. CASE ListenerStep \/ WatchdogStep
  BY <1>2 DEF ListenerStep, WatchdogStep, Agent!Next
<1>3. CASE HeartbeatStep
  BY <1>3 DEF HeartbeatStep, Agent!Next, Agent!Heartbeat
<1>4. CASE SledEvent
  BY <1>4 DEF SledEvent, Agent!Next, Agent!Surroundings
<1>5. CASE PostAnswered \/ PostTimesOut
  BY <1>5 DEF PostAnswered, PostTimesOut, Agent!Next, Agent!Heartbeat
<1>6. CASE PullAnswered
  BY <1>6, RecordIsPulled
  DEF CtrlInv, PullAnswered, Agent!Next, Agent!Heartbeat
<1>7. CASE LatePost \/ Request \/ OrchestratorRestart \/ Reaper \/ Clock
  BY <1>1, <1>7 DEF LatePost, Request, OrchestratorRestart, Reaper, Clock
<1>8. ASSUME NEW i \in DOMAIN tasks, Dispatch(i)
      PROVE  Agent!Next \/ UNCHANGED Agent!vars
  <2>1. PICK t \in tasks[i].dispatch :
               DispatchArrives(i, t) \/ DispatchFails(i, t)
    BY <1>8 DEF Dispatch
  <2>2. CASE DispatchArrives(i, t)
    BY <2>2, DispatchIsCommand
    DEF CtrlInv, DispatchArrives, Agent!Next, Agent!Surroundings
  <2>3. CASE DispatchFails(i, t)
    BY <1>1, <2>3 DEF DispatchFails
  <2> QED
    BY <2>1, <2>2, <2>3
<1>9. CASE UNCHANGED allVars
  BY <1>1, <1>9 DEF allVars
<1> QED
  BY <1>2, <1>3, <1>4, <1>5, <1>6, <1>7, <1>8, <1>9 DEF CNext
------------------------------------------------------------------------------
(***************************************************************************)
(* The composition.                                                        *)
(***************************************************************************)
LEMMA LateStep == CtrlInv /\ [CNext]_allVars => (late \subseteq RigStatus)'
<1> SUFFICES ASSUME CtrlInv, [CNext]_allVars
             PROVE  (late \subseteq RigStatus)'
  OBVIOUS
<1>1. heartbeat.sent \in RigStatus /\ late \subseteq RigStatus
  BY SentStatus DEF CtrlInv
<1>2. \/ late' = late \/ late' = {} \/ late' = late \cup {heartbeat.sent}
      \/ \E s \in late : late' = late \ {s}
  BY DEF CNext, ListenerStep, WatchdogStep, HeartbeatStep, SledEvent,
     PostAnswered, PostTimesOut, LatePost, PullAnswered, Request, Dispatch,
     OrchestratorRestart, Reaper, Clock, allVars
<1> QED
  BY <1>1, <1>2

LEMMA CtrlInvAlways == CSpec => []CtrlInv
<1>1. CInit => CtrlInv
  BY InitType, SameInit, SledConstants, SledThms!InitInv DEF CInit, CtrlInv
<1>2. CtrlInv /\ [CNext]_allVars => CtrlInv'
  <2> SUFFICES ASSUME CtrlInv, [CNext]_allVars PROVE CtrlInv'
    OBVIOUS
  <2>1. TypeOK'
    BY RegistryStep, NextType DEF CtrlInv
  <2>2. SledThms!IInv'
    BY AgentStep, SameNext, SledConstants, SledThms!StepInv DEF CtrlInv
  <2> QED
    BY <2>1, <2>2, LateStep DEF CtrlInv
<1> QED
  BY <1>1, <1>2, PTL DEF CSpec

\* Orchestrator, network and sled: what the registry does in the composition
\* is what it does alone, so its theorems hold of a rig under control.
THEOREM ControlImplementsRegistry == CSpec => Spec
<1>1. CInit => Init
  BY DEF CInit
<1> QED
  BY <1>1, CtrlInvAlways, RegistryStep, PTL DEF CSpec, Spec

\* The commands, answers and records the orchestrator sends are among those
\* the agent was proved about.
THEOREM ControlImplementsAgent == CSpec => Agent!Spec
<1>1. CInit => Agent!Init
  BY DEF CInit
<1> QED
  BY <1>1, CtrlInvAlways, AgentStep, PTL DEF CSpec, Agent!Spec
------------------------------------------------------------------------------
(***************************************************************************)
(* The types of the composition.                                           *)
(***************************************************************************)
LateBounded == IsFiniteSet(late) /\ Cardinality(late) <= MaxLate
Attempted == attempts \in Seq(0..MaxRetries - 1) /\ Len(attempts) = Len(tasks)

LEMMA LateBoundedStep == LateBounded /\ [CNext]_allVars => LateBounded'
<1> SUFFICES ASSUME LateBounded, [CNext]_allVars PROVE LateBounded'
  OBVIOUS
<1>1. \/ late' = late \/ late' = {}
      \/ late' = late \cup {heartbeat.sent} /\ Cardinality(late') <= MaxLate
      \/ \E s \in late : late' = late \ {s}
  BY DEF CNext, ListenerStep, WatchdogStep, HeartbeatStep, SledEvent,
     PostAnswered, PostTimesOut, LatePost, PullAnswered, Request, Dispatch,
     OrchestratorRestart, Reaper, Clock, allVars
<1>2. CASE late' = late
  BY <1>2 DEF LateBounded
<1>3. CASE late' = {}
  BY <1>3, FS_EmptySet, ControlAssumption DEF LateBounded
<1>4. CASE late' = late \cup {heartbeat.sent} /\ Cardinality(late') <= MaxLate
  BY <1>4, FS_AddElement DEF LateBounded
<1>5. ASSUME NEW s \in late, late' = late \ {s} PROVE LateBounded'
  <2>1. IsFiniteSet(late') /\ Cardinality(late') = Cardinality(late) - 1
    BY <1>5, FS_RemoveElement, Zenon DEF LateBounded
  <2>2. Cardinality(late) \in Nat
    BY FS_CardinalityType DEF LateBounded
  <2> QED
    BY <2>1, <2>2, ControlAssumption DEF LateBounded
<1> QED
  BY <1>1, <1>2, <1>3, <1>4, <1>5

\* A request queues one batch or none.
LEMMA RequestQueues ==
  ASSUME TypeOK, Request
  PROVE  tasks' = tasks \/ Len(tasks') = Len(tasks) + 1
<1>1. ASSUME NEW S, NEW action, NEW st, CommandAll(S, action, st)
      PROVE  tasks' = tasks \/ Len(tasks') = Len(tasks) + 1
  BY <1>1 DEF CommandAll, Queue, TypeOK
<1> QED
  BY <1>1 DEF Request, UpdateRigStatus, SendCommand, SendGlobalCommand,
              CommandRaises

\* A dispatch keeps the number of batches, or ends the batch it works on.
LEMMA DispatchAttempts ==
  ASSUME TypeOK, Attempted, NEW i \in DOMAIN tasks, Dispatch(i)
  PROVE  Attempted'
<1>1. PICK t \in tasks[i].dispatch : Done(i, t) \/ Retry(i)
  BY DEF Dispatch, DispatchArrives, DispatchFails
<1>2. /\ tasks \in Seq(Batch) /\ attempts \in Seq(0..MaxRetries - 1)
      /\ i \in 1..Len(tasks) /\ i \in 1..Len(attempts)
      /\ Len(attempts) = Len(tasks) /\ Len(tasks) \in Nat
  BY DEF TypeOK, Attempted
<1>3. CASE Retry(i)
  <2>1. attempts[i] \in 0..MaxRetries - 1
    BY <1>2, ElementOfSeq, Zenon
  <2>2. attempts[i] + 1 \in 0..MaxRetries - 1
    BY <1>3, <2>1, ControlAssumption DEF Retry, RetriesLeft
  <2> QED
    BY <1>2, <1>3, <2>2 DEF Retry, Attempted
<1>4. CASE Done(i, t)
  <2>1. Len(RemoveAt(tasks, i)) = Len(tasks) - 1
    BY <1>2, RemoveAtProperties, Zenon
  <2>2. /\ RemoveAt(attempts, i) \in Seq(0..MaxRetries - 1)
        /\ Len(RemoveAt(attempts, i)) = Len(attempts) - 1
    BY <1>2, RemoveAtProperties, Zenon
  <2>3. \/ tasks' = RemoveAt(tasks, i)
        \/ Len(tasks') = Len(tasks)
    BY <1>2, <1>4 DEF Done, Dispatched
  <2>4. CASE Len(tasks') < Len(tasks)
    BY <1>2, <1>4, <2>1, <2>2, <2>3, <2>4 DEF Done, Attempted
  <2>5. CASE ~(Len(tasks') < Len(tasks))
    <3>1. Len(tasks') = Len(tasks) /\ attempts' = [attempts EXCEPT ![i] = 0]
      BY <1>2, <1>4, <2>1, <2>3, <2>5 DEF Done
    <3>2. 0 \in 0..MaxRetries - 1
      BY ControlAssumption
    <3> QED
      BY <1>2, <3>1, <3>2 DEF Attempted
  <2> QED
    BY <2>4, <2>5
<1> QED
  BY <1>1, <1>3, <1>4

LEMMA AttemptedStep == CtrlInv /\ Attempted /\ [CNext]_allVars => Attempted'
<1> SUFFICES ASSUME CtrlInv, Attempted, [CNext]_allVars PROVE Attempted'
  OBVIOUS
<1>1. CASE UNCHANGED <<tasks, attempts>>
  BY <1>1 DEF Attempted
<1>2. CASE ListenerStep \/ WatchdogStep \/ HeartbeatStep \/ SledEvent
           \/ PostTimesOut \/ PullAnswered
  BY <1>1, <1>2 DEF ListenerStep, WatchdogStep, HeartbeatStep, SledEvent,
                    PostTimesOut, PullAnswered, vars
<1>3. CASE PostAnswered \/ LatePost
  BY <1>1, <1>3 DEF PostAnswered, LatePost, UpdateRigStatus
<1>4. CASE Reaper \/ Clock
  BY <1>1, <1>4 DEF Reaper, Clock, RemoveStaleRigs, Tick
<1>5. CASE OrchestratorRestart
  BY <1>5 DEF OrchestratorRestart, Restart, Attempted
<1>6. CASE Request
  <2>1. tasks' = tasks \/ Len(tasks') = Len(tasks) + 1
    BY <1>6, RequestQueues DEF CtrlInv
  <2>2. Len(tasks) \in Nat /\ 0 \in 0..MaxRetries - 1
    BY ControlAssumption DEF CtrlInv, TypeOK
  <2>3. attempts' = IF Len(tasks') > Len(tasks) THEN Append(attempts, 0)
                    ELSE attempts
    BY <1>6 DEF Request
  <2>4. /\ Append(attempts, 0) \in Seq(0..MaxRetries - 1)
        /\ Len(Append(attempts, 0)) = Len(attempts) + 1
    BY <2>2, AppendProperties, Zenon DEF Attempted
  <2>5. CASE tasks' = tasks
    <3>1. ~(Len(tasks') > Len(tasks))
      BY <2>2, <2>5
    <3> QED
      BY <1>1, <2>3, <2>5, <3>1
  <2>6. CASE Len(tasks') = Len(tasks) + 1
    <3>1. Len(tasks') > Len(tasks)
      BY <2>2, <2>6
    <3> QED
      BY <2>3, <2>4, <2>6, <3>1 DEF Attempted
  <2> QED
    BY <2>1, <2>5, <2>6
<1>7. CASE \E i \in DOMAIN tasks : Dispatch(i)
  BY <1>7, DispatchAttempts DEF CtrlInv
<1>8. CASE UNCHANGED allVars
  BY <1>1, <1>8 DEF allVars, vars
<1> QED
  BY <1>2, <1>3, <1>4, <1>5, <1>6, <1>7, <1>8 DEF CNext

\* Every variable of registry, agent and network holds what the code stores in
\* it; in particular no dispatch is tried more than MaxRetries times.
THEOREM ControlTypeCorrect == CSpec => []ControlTypeOK
<1>1. CInit => LateBounded /\ Attempted
  BY FS_EmptySet, ControlAssumption
  DEF CInit, Init, LateBounded, Attempted
<1>2. CtrlInv /\ LateBounded /\ Attempted => ControlTypeOK
  <2> SUFFICES ASSUME CtrlInv, LateBounded, Attempted PROVE ControlTypeOK
    OBVIOUS
  <2>1. Agent!TypeOK
    BY DEF CtrlInv, SledThms!IInv, SledThms!TypeOK, Agent!TypeOK,
       SledThms!Command, Agent!Command, SledThms!Reset, Agent!Reset,
       SledThms!Status, Agent!Status, SledThms!Step, Agent!Step,
       SledThms!Pulled, Agent!Pulled, SledThms!NothingPulled,
       Agent!NothingPulled
  <2> QED
    BY <2>1 DEF CtrlInv, LateBounded, Attempted, ControlTypeOK
<1> QED
  BY <1>1, <1>2, CtrlInvAlways, LateBoundedStep, AttemptedStep, PTL DEF CSpec
------------------------------------------------------------------------------
(***************************************************************************)
(* StoppedAfterKill.  While the guard of the rig is set, the last launch   *)
(* or kill on its way to the rig's processes is a kill: it is the task of  *)
(* the pending request, or waits in the backlog with no launch behind it,  *)
(* or is being carried out, or has stopped the game already.               *)
(***************************************************************************)
Kills(c) == c.action \in {"KILL_RACE", "UPDATE"}
Launches(c) == c.action = "LAUNCH_RACE"
NoLaunch(box, k) == \A j \in k..Len(box) : ~Launches(box[j])
KillWaits(box) ==
  \E k \in 1..Len(box) : Kills(box[k]) /\ NoLaunch(box, k)
\* What is left of a command starts no game and leaves none.
EndsQuiet(steps, games) ==
  /\ \A j \in 1..Len(steps) : steps[j] # "start"
  /\ SledThms!KillAhead(steps) \/ games = 0
\* A backlog, the rest of a command and a number of games that end in no game.
Quiet(box, steps, games) ==
  KillWaits(box) \/ (NoLaunch(box, 1) /\ EndsQuiet(steps, games))

LEMMA AppendQuiet ==
  ASSUME NEW S, NEW box \in Seq(S), NEW c \in S, ~Launches(c),
         NEW steps, NEW games, Quiet(box, steps, games) \/ Kills(c)
  PROVE  Quiet(Append(box, c), steps, games)
<1> DEFINE more == Append(box, c)
<1>1. /\ Len(more) = Len(box) + 1 /\ Len(box) \in Nat
      /\ more[Len(more)] = c
      /\ \A j \in 1..Len(box) : more[j] = box[j]
  OBVIOUS
<1> HIDE DEF more
<1>2. ASSUME NEW k \in 1..Len(box), NoLaunch(box, k)
      PROVE  NoLaunch(more, k)
  <2> SUFFICES ASSUME NEW j \in k..Len(more) PROVE ~Launches(more[j])
    BY DEF NoLaunch
  <2>1. CASE j = Len(more)
    BY <1>1, <2>1
  <2>2. CASE j # Len(more)
    <3>1. j \in k..Len(box) /\ j \in 1..Len(box)
      BY <1>1, <2>2
    <3> QED
      BY <1>1, <1>2, <3>1, Zenon DEF NoLaunch
  <2> QED
    BY <2>1, <2>2
<1>3. CASE Kills(c)
  <2>1. /\ Len(more) \in 1..Len(more)
        /\ \A j \in Len(more)..Len(more) : j = Len(more)
    BY <1>1
  <2>2. Kills(more[Len(more)]) /\ NoLaunch(more, Len(more))
    BY <1>1, <1>3, <2>1, Zenon DEF NoLaunch
  <2> QED
    BY <2>1, <2>2, Zenon DEF Quiet, KillWaits, more
<1>4. CASE KillWaits(box)
  <2>1. PICK k \in 1..Len(box) : Kills(box[k]) /\ NoLaunch(box, k)
    BY <1>4 DEF KillWaits
  <2>2. k \in 1..Len(more) /\ Kills(more[k]) /\ NoLaunch(more, k)
    BY <1>1, <1>2, <2>1
  <2> QED
    BY <2>2, Zenon DEF Quiet, KillWaits, more
<1>5. CASE NoLaunch(box, 1) /\ EndsQuiet(steps, games)
  <2>1. NoLaunch(more, 1)
    <3>1. CASE Len(box) = 0
      <4>1. \A j \in 1..Len(more) : j = Len(more)
        BY <1>1, <3>1
      <4> QED
        BY <1>1, <4>1, Zenon DEF NoLaunch
    <3>2. CASE Len(box) # 0
      BY <1>1, <1>2, <1>5, <3>2
    <3> QED
      BY <3>1, <3>2
  <2> QED
    BY <1>5, <2>1 DEF Quiet, more
<1> QED
  BY <1>3, <1>4, <1>5 DEF Quiet

\* The listener takes the oldest connection; the steps that remain of the
\* command before it are none.
LEMMA TailQuiet ==
  ASSUME NEW S, NEW box \in Seq(S), box # <<>>, NEW games,
         Quiet(box, <<>>, games), NEW steps,
         ~Launches(Head(box)) => \A j \in 1..Len(steps) : steps[j] # "start",
         Kills(Head(box)) => SledThms!KillAhead(steps)
  PROVE  Quiet(Tail(box), steps, games)
<1> DEFINE rest == Tail(box)
<1>1. /\ Len(rest) = Len(box) - 1 /\ Len(box) \in Nat \ {0}
      /\ Head(box) = box[1]
      /\ \A j \in 1..Len(box) - 1 : rest[j] = box[j + 1]
  OBVIOUS
<1> HIDE DEF rest
<1>2. ASSUME NEW k \in 1..Len(box), NoLaunch(box, k), NEW m \in 1..Len(box),
             k <= m + 1
      PROVE  NoLaunch(rest, m)
  <2> SUFFICES ASSUME NEW j \in m..Len(rest) PROVE ~Launches(rest[j])
    BY DEF NoLaunch
  <2>1. j + 1 \in k..Len(box) /\ j \in 1..Len(box) - 1
    BY <1>1, <1>2
  <2> QED
    BY <1>1, <1>2, <2>1, Zenon DEF NoLaunch
<1>3. CASE KillWaits(box)
  <2>1. PICK k \in 1..Len(box) : Kills(box[k]) /\ NoLaunch(box, k)
    BY <1>3 DEF KillWaits
  <2>2. CASE k = 1
    <3>1. Kills(Head(box)) /\ ~Launches(Head(box))
      BY <1>1, <2>1, <2>2 DEF Kills, Launches
    <3>2. NoLaunch(rest, 1)
      BY <1>1, <1>2, <2>1, <2>2
    <3> QED
      BY <3>1, <3>2 DEF Quiet, EndsQuiet, rest
  <2>3. CASE k # 1
    <3>1. /\ k - 1 \in 1..Len(rest) /\ k - 1 \in 1..Len(box) - 1
          /\ k - 1 \in 1..Len(box) /\ k <= (k - 1) + 1 /\ (k - 1) + 1 = k
      BY <1>1, <2>3
    <3>2. NoLaunch(rest, k - 1)
      BY <1>2, <2>1, <3>1, Zenon
    <3>3. rest[k - 1] = box[k]
      BY <1>1, <3>1, Zenon
    <3> QED
      BY <2>1, <3>1, <3>2, <3>3, Zenon DEF Quiet, KillWaits, rest
  <2> QED
    BY <2>2, <2>3
<1>4. CASE NoLaunch(box, 1) /\ EndsQuiet(<<>>, games)
  <2>1. games = 0
    BY <1>4 DEF EndsQuiet, SledThms!KillAhead
  <2>2. ~Launches(Head(box))
    BY <1>1, <1>4 DEF NoLaunch
  <2>3. NoLaunch(rest, 1)
    BY <1>1, <1>2, <1>4
  <2> QED
    BY <2>1, <2>2, <2>3 DEF Quiet, EndsQuiet, rest
<1> QED
  BY <1>3, <1>4 DEF Quiet
------------------------------------------------------------------------------
(***************************************************************************)
(* The steps of the agent.                                                 *)
(***************************************************************************)
AgentQuiet == Quiet(inbox, todo, ac)

LEMMA AgentTypes ==
  ASSUME CtrlInv
  PROVE  /\ inbox \in Seq(SledThms!Command \cup {SledThms!Reset})
         /\ todo \in Seq(SledThms!Step) /\ ac \in Nat
BY DEF CtrlInv, SledThms!IInv, SledThms!TypeOK

LEMMA AcceptQuiet ==
  ASSUME CtrlInv, AgentQuiet, Agent!Accept
  PROVE  AgentQuiet'
<1> DEFINE a == Head(inbox).action
<1>1. /\ inbox # <<>> /\ todo = <<>> /\ UNCHANGED ac
      /\ inbox' = Tail(inbox) /\ todo' = Agent!StepsOf(a)
      /\ Head(inbox) # Agent!Reset
  BY DEF Agent!Accept
<1>2. Head(inbox) \in SledThms!Command
  BY <1>1, AgentTypes DEF Agent!Reset, SledThms!Reset
<1>3. a \in SledThms!Action
  BY <1>2, SledConstants DEF SledThms!Command, SledThms!Action, Action
<1>4. Agent!StepsOf(a) = SledThms!StepsOf(a)
  BY Zenon DEF Agent!StepsOf, SledThms!StepsOf,
               Agent!StepsOfOther, SledThms!StepsOfOther
<1>5. /\ SledThms!StartsLast(todo', a)
      /\ a \in {"KILL_RACE", "UPDATE"} => SledThms!KillAhead(todo')
  <2> HIDE DEF a
  <2>1. /\ SledThms!StartsLast(SledThms!StepsOf(a), a)
        /\ a \in {"KILL_RACE", "UPDATE"} =>
             SledThms!KillAhead(SledThms!StepsOf(a))
    BY <1>3, SledConstants, SledThms!StepsOfCommand
  <2>2. todo' = SledThms!StepsOf(a)
    BY <1>1, <1>4
  <2> QED
    BY <2>1, <2>2, Zenon
<1>6. ~Launches(Head(inbox)) => \A j \in 1..Len(todo') : todo'[j] # "start"
  BY <1>5 DEF Launches, SledThms!StartsLast
<1>7. Kills(Head(inbox)) => SledThms!KillAhead(todo')
  BY <1>5 DEF Kills
<1>8. Quiet(Tail(inbox), todo', ac)
  <2>1. Quiet(inbox, <<>>, ac)
    BY <1>1 DEF AgentQuiet
  <2> QED
    BY <1>1, <1>6, <1>7, <2>1, AgentTypes, TailQuiet
<1> QED
  BY <1>1, <1>8 DEF AgentQuiet

LEMMA ListenerDiesQuiet ==
  ASSUME CtrlInv, AgentQuiet, Agent!ListenerDies
  PROVE  AgentQuiet'
<1>1. /\ inbox # <<>> /\ todo = <<>> /\ UNCHANGED <<ac, todo>>
      /\ inbox' = Tail(inbox) /\ Head(inbox) = Agent!Reset
  BY DEF Agent!ListenerDies
<1>2. ~Kills(Head(inbox))
  BY <1>1 DEF Agent!Reset, Kills
<1>3. Quiet(inbox, <<>>, ac) /\ \A j \in 1..Len(<<>>) : <<>>[j] # "start"
  BY <1>1 DEF AgentQuiet
<1>4. Quiet(Tail(inbox), <<>>, ac)
  BY <1>1, <1>2, <1>3, AgentTypes, TailQuiet
<1> QED
  BY <1>1, <1>4 DEF AgentQuiet

LEMMA CommandStepQuiet ==
  ASSUME CtrlInv, AgentQuiet, Agent!CommandStep
  PROVE  AgentQuiet'
<1>1. todo # <<>> /\ todo' = Tail(todo) /\ inbox' = inbox
  BY DEF Agent!CommandStep
<1>2. CASE KillWaits(inbox)
  BY <1>1, <1>2 DEF AgentQuiet, Quiet
<1>3. CASE NoLaunch(inbox, 1) /\ EndsQuiet(todo, ac)
  <2>1. /\ Len(todo') = Len(todo) - 1 /\ Len(todo) \in Nat \ {0}
        /\ Head(todo) = todo[1]
        /\ \A j \in 1..Len(todo) - 1 : todo'[j] = todo[j + 1]
    BY <1>1, AgentTypes
  <2>2. Head(todo) # "start" /\ \A j \in 1..Len(todo') : todo'[j] # "start"
    <3>1. 1 \in 1..Len(todo) /\ \A j \in 1..Len(todo') : j + 1 \in 1..Len(todo)
      BY <2>1
    <3> QED
      BY <1>3, <2>1, <3>1 DEF EndsQuiet
  <2>3. SledThms!KillAhead(todo') \/ ac' = 0
    <3>1. CASE Agent!Kill
      BY <3>1 DEF Agent!Kill, Agent!KillProcesses
    <3>2. CASE ~Agent!Kill
      <4>1. ac' = ac /\ Head(todo) # "kill"
        BY <2>2, <3>2 DEF Agent!CommandStep, Agent!SetStatus, Agent!ClearCar,
           Agent!ResolveCar, Agent!Start, Agent!Pass
      <4>2. CASE ac = 0
        BY <4>1, <4>2
      <4>3. CASE SledThms!KillAhead(todo)
        <5>1. PICK j \in 1..Len(todo) : todo[j] = "kill"
          BY <4>3 DEF SledThms!KillAhead
        <5>2. j - 1 \in 1..Len(todo') /\ todo'[j - 1] = "kill"
          BY <2>1, <4>1, <5>1
        <5> QED
          BY <5>2 DEF SledThms!KillAhead
      <4> QED
        BY <1>3, <4>2, <4>3 DEF EndsQuiet
    <3> QED
      BY <3>1, <3>2
  <2> QED
    BY <1>1, <1>3, <2>2, <2>3 DEF AgentQuiet, Quiet, EndsQuiet
<1> QED
  BY <1>2, <1>3 DEF AgentQuiet, Quiet

\* No thread of the agent, and no game that ends, undoes a kill.
LEMMA AgentKeepsQuiet ==
  ASSUME CtrlInv, ~ManualStarts, ~SledRestarts, AgentQuiet,
         \/ ListenerStep \/ WatchdogStep \/ HeartbeatStep \/ SledEvent
         \/ PostTimesOut \/ PullAnswered \/ Agent!PostSucceeds
  PROVE  AgentQuiet'
<1>1. CASE ListenerStep
  BY <1>1, AcceptQuiet, ListenerDiesQuiet, CommandStepQuiet
  DEF ListenerStep, Agent!Listener
<1>2. CASE UNCHANGED <<inbox, todo, ac>>
  BY <1>2 DEF AgentQuiet
<1>3. CASE WatchdogStep
  BY <1>2, <1>3
  DEF WatchdogStep, Agent!Watchdog, Agent!WatchdogLook, Agent!WatchdogCompare,
      Agent!WatchdogWrite, Agent!agentVars, Agent!listenerVars
<1>4. CASE HeartbeatStep
  BY <1>2, <1>4
  DEF HeartbeatStep, Agent!HeartbeatPost, Agent!PullFails, Agent!SyncCar,
      Agent!SyncReady, Agent!heartbeatRest, Agent!listenerVars
<1>5. CASE PostTimesOut \/ PullAnswered \/ Agent!PostSucceeds
  BY <1>2, <1>5
  DEF PostTimesOut, PullAnswered, Agent!PostFails, Agent!PostSucceeds,
      Agent!Pull, Agent!heartbeatRest, Agent!listenerVars
<1>6. CASE SledEvent
  <2>1. ac > 0 /\ inbox' = inbox /\ todo' = todo
    BY <1>6 DEF SledEvent, Agent!GameExits, Agent!ManualStart,
                Agent!listenerVars
  <2>2. ac # 0
    BY <2>1, AgentTypes
  <2> QED
    BY <2>1, <2>2 DEF AgentQuiet, Quiet, EndsQuiet
<1> QED
  BY <1>1, <1>3, <1>4, <1>5, <1>6
------------------------------------------------------------------------------
(***************************************************************************)
(* The steps of the registry, and the theorem.                             *)
(***************************************************************************)
OnlyMe == \A r \in RigIds : rigs[r] # NoRig => r = Me /\ rigs[r].ip = SledIp
TaskAlone(t) == tasks = <<[dispatch |-> {t}, after |-> "end"]>>
GuardSet == rigs[Me] # NoRig /\ rigs[Me].kill_requested_at # None
\* A kill is pending, or no launch is and the agent ends in no game.
KillOnItsWay ==
  \/ tasks = <<>> /\ AgentQuiet
  \/ \E t \in Task : /\ TaskAlone(t) /\ ~Launches(t)
                     /\ Kills(t) \/ AgentQuiet
StopInv ==
  /\ OnlyMe
  /\ tasks = <<>> \/ \E t \in Task : TaskAlone(t) /\ t.ip = SledIp
  /\ GuardSet => KillOnItsWay

LEMMA StopUnchanged ==
  ASSUME StopInv, UNCHANGED <<rigs, tasks>>, AgentQuiet => AgentQuiet'
  PROVE  StopInv'
BY DEF StopInv, OnlyMe, GuardSet, KillOnItsWay, TaskAlone

\* A step that leaves the agent and the tasks alone and arms no guard.
LEMMA StopRigs ==
  ASSUME StopInv, UNCHANGED <<tasks, inbox, todo, ac>>, OnlyMe',
         GuardSet' => GuardSet
  PROVE  StopInv'
BY DEF StopInv, KillOnItsWay, TaskAlone, AgentQuiet

\* A post of the sled names its own address and arms no guard.
LEMMA PostedRecord ==
  ASSUME TypeOK, NEW s \in RigStatus
  PROVE  LET rig == Updated(Me, Body(s))
         IN /\ rig.ip = SledIp
            /\ rig.kill_requested_at # None =>
                 rigs[Me] # NoRig /\ rigs[Me].kill_requested_at # None
<1> DEFINE u == Body(s)
           a == [Upserted(Me) EXCEPT !.ip = u.ip]
           b == WithStatus(a, u.status)
           c == WithCar(b, u.selected_car)
           d == WithLapCount(c, u.completed_laps)
           Kept(x, y) == /\ x.ip = y.ip
                         /\ x.kill_requested_at \in {y.kill_requested_at, None}
<1>1. u \in StatusUpdates /\ u.ip = SledIp
  BY ControlAssumption DEF Body, StatusUpdates, Heartbeats
<1>2. /\ a \in Rig /\ a.ip = SledIp
      /\ a.kill_requested_at = Upserted(Me).kill_requested_at
  BY <1>1, UpsertedType, UpdateFields, ControlAssumption DEF Rig
<1>3. b \in Rig /\ Kept(b, a)
  <2>1. b \in Rig
    BY <1>1, <1>2, UpdateFields, WithStatusType
  <2> HIDE DEF a
  <2>2. \/ b = a
        \/ b = [a EXCEPT !.status = u.status]
        \/ b = [a EXCEPT !.kill_requested_at = None, !.status = u.status]
    BY <1>1, UpdateFields, RegistryAssumption
    DEF WithStatus, Downgrade, RigStatus
  <2> QED
    BY <1>2, <2>1, <2>2 DEF Rig
<1> HIDE DEF a, b
<1>4. c \in Rig /\ Kept(c, b)
  BY <1>1, <1>3, UpdateFields DEF WithCar, Rig
<1> HIDE DEF c
<1>5. Kept(d, c)
  BY <1>1, <1>4, UpdateFields DEF WithLapCount, Rig
<1>6. Updated(Me, Body(s)) = d
  BY DEF Updated, a, b, c
<1> HIDE DEF d, u
<1>7. d.ip = SledIp
  BY <1>2, <1>3, <1>4, <1>5
<1>8. d.kill_requested_at # None => Upserted(Me).kill_requested_at # None
  BY <1>2, <1>3, <1>4, <1>5
<1>9. Upserted(Me).kill_requested_at # None =>
        rigs[Me] # NoRig /\ rigs[Me].kill_requested_at # None
  <2>1. CASE Known(Me)
    BY <2>1, ControlAssumption DEF Upserted, Known, TypeOK, Rig
  <2>2. CASE ~Known(Me)
    BY <2>2 DEF Upserted, FreshRig
  <2> QED
    BY <2>1, <2>2
<1> QED
  BY <1>6, <1>7, <1>8, <1>9

LEMMA PostStop ==
  ASSUME CtrlInv, StopInv, NEW s \in RigStatus, UpdateRigStatus(Me, Body(s)),
         AgentQuiet => AgentQuiet'
  PROVE  StopInv'
<1>1. tasks' = tasks /\ rigs' = [rigs EXCEPT ![Me] = Updated(Me, Body(s))]
  BY DEF UpdateRigStatus
<1>2. rigs' \in [RigIds -> UNION {Rig \cup {NoRig}, {Updated(Me, Body(s))}}]
      /\ rigs'[Me] = Updated(Me, Body(s))
      /\ \A r \in RigIds \ {Me} : rigs'[r] = rigs[r]
  BY <1>1, ControlAssumption DEF CtrlInv, TypeOK
<1>3. OnlyMe' /\ (GuardSet' => GuardSet)
  BY <1>2, PostedRecord DEF CtrlInv, StopInv, OnlyMe, GuardSet
<1> QED
  BY <1>1, <1>3 DEF StopInv, KillOnItsWay, TaskAlone

\* A request that is dispatched as the only one.
LEMMA CommandStop ==
  ASSUME CtrlInv, StopInv, MaxBatches = 1, UNCHANGED <<inbox, todo, ac>>,
         NEW S \in SUBSET {Me}, S \subseteq KnownRigs, NEW action \in Actions,
         NEW st \in RigStatus \cup {None}, CommandAll(S, action, st)
  PROVE  StopInv'
<1>1. /\ tasks = <<>>
      /\ rigs' = [r \in RigIds |-> IF r \in S
                    THEN Commanded(rigs[r], action, st) ELSE rigs[r]]
      /\ Queue([dispatch |-> TasksFor(S, action), after |-> "end"])
  <2>1. Len(tasks) < 1
    BY DEF CommandAll, CanQueue
  <2>2. tasks \in Seq(Batch)
    BY DEF CtrlInv, TypeOK
  <2> QED
    BY <2>1, <2>2 DEF CommandAll
<1>2. AgentQuiet => AgentQuiet'
  BY DEF AgentQuiet
<1>3. CASE S = {}
  <2>1. TasksFor(S, action) = {} /\ tasks' = tasks
    BY <1>1, <1>3 DEF TasksFor, Queue
  <2>2. \A r \in RigIds : rigs'[r] = rigs[r]
    BY <1>1, <1>3
  <2>3. OnlyMe' /\ (GuardSet' => GuardSet)
    BY <2>2, ControlAssumption DEF StopInv, OnlyMe, GuardSet
  <2> QED
    BY <2>1, <2>3, StopRigs
<1>4. CASE S = {Me}
  <2> DEFINE t == [rig_id |-> Me, ip |-> rigs[Me].ip, action |-> action,
                   car |-> WithoutPick(rigs[Me], action).selected_car]
  <2>1. rigs[Me] # NoRig /\ rigs[Me] \in Rig /\ rigs[Me].ip = SledIp
    BY <1>4 DEF KnownRigs, Known, CtrlInv, TypeOK, StopInv, OnlyMe
  <2>2. TasksFor(S, action) = {t}
    BY <1>4, <2>1, ControlAssumption DEF TasksFor
  <2>3. t \in Task
    <3>1. action \in Action
      BY RegistryAssumption
    <3> QED
      BY <2>2, <3>1, TasksForType DEF CtrlInv
  <2>4. t.ip = SledIp /\ t.action = action
    BY <2>1
  <2>5. tasks' = <<[dispatch |-> {t}, after |-> "end"]>>
    <3>1. tasks' = Append(<<>>, [dispatch |-> {t}, after |-> "end"])
      BY <1>1, <2>2 DEF Queue
    <3> HIDE DEF t
    <3> QED
      BY <3>1
  <2> HIDE DEF t
  <2>6. rigs'[Me] = Commanded(rigs[Me], action, st)
    BY <1>1, <1>4, ControlAssumption
  <2>7. /\ rigs'[Me].ip = SledIp
        /\ action = "LAUNCH_RACE" => rigs'[Me].kill_requested_at = None
        /\ action # "KILL_RACE" /\ rigs'[Me].kill_requested_at # None =>
             rigs[Me].kill_requested_at # None
    BY <2>1, <2>6 DEF Commanded, WithoutPick, WithKillStamp, Rig
  <2>8. OnlyMe'
    BY <1>1, <1>4, <2>7 DEF StopInv, OnlyMe
  <2>9. GuardSet' => KillOnItsWay'
    <3> SUFFICES ASSUME GuardSet' PROVE KillOnItsWay'
      OBVIOUS
    <3>1. ~Launches(t)
      BY <2>4, <2>7 DEF GuardSet, Launches
    <3>2. CASE action = "KILL_RACE"
      BY <2>3, <2>4, <2>5, <3>1, <3>2 DEF KillOnItsWay, TaskAlone, Kills
    <3>3. CASE action # "KILL_RACE"
      <4>1. GuardSet
        BY <2>1, <2>7, <3>3 DEF GuardSet
      <4>2. AgentQuiet'
        BY <1>1, <1>2, <4>1 DEF StopInv, KillOnItsWay, TaskAlone
      <4> QED
        BY <2>3, <2>5, <3>1, <4>2 DEF KillOnItsWay, TaskAlone
    <3> QED
      BY <3>2, <3>3
  <2> QED
    BY <2>3, <2>4, <2>5, <2>8, <2>9 DEF StopInv, TaskAlone
<1> QED
  BY <1>3, <1>4

LEMMA RequestStop ==
  ASSUME CtrlInv, StopInv, ~Pages, MaxBatches = 1, Request
  PROVE  StopInv'
<1>1. UNCHANGED <<inbox, todo, ac>>
  BY DEF Request, sledVars
<1>2. /\ KnownRigs \in SUBSET {Me}
      /\ \A r \in KnownRigs : rigs[r].ip # None
  BY ControlAssumption DEF StopInv, OnlyMe, KnownRigs, Known
<1>3. ASSUME NEW action \in Actions, SendCommand(Me, action)
      PROVE  StopInv'
  <2>1. Me \in KnownRigs
    BY <1>3, ControlAssumption DEF SendCommand, KnownRigs
  <2>2. CommandAll({Me}, action, StatusOf(action))
    BY <1>2, <1>3, <2>1 DEF SendCommand
  <2>3. StatusOf(action) \in RigStatus \cup {None}
    BY StatusOfType
  <2> QED
    BY <1>1, <2>1, <2>2, <2>3, CommandStop
<1>4. ASSUME NEW action \in Actions, SendGlobalCommand(action)
      PROVE  StopInv'
  <2>1. CommandAll(KnownRigs, action, StatusOfOrIdle(action))
    BY <1>2, <1>4 DEF SendGlobalCommand
  <2>2. StatusOfOrIdle(action) \in RigStatus \cup {None}
    BY StatusOfType
  <2> QED
    BY <1>1, <1>2, <2>1, <2>2, CommandStop
<1> QED
  BY <1>3, <1>4 DEF Request

\* An attempt that reaches the sled appends the command, and the task is only
\* given up once the sled has it.
LEMMA DispatchStop ==
  ASSUME CtrlInv, StopInv, ~Lossy, NEW i \in DOMAIN tasks, Dispatch(i)
  PROVE  StopInv'
<1>1. PICK t \in Task : TaskAlone(t) /\ t.ip = SledIp
  BY DEF StopInv
<1>2. /\ i = 1 /\ tasks[1].dispatch = {t} /\ tasks[1].after = "end"
      /\ Len(tasks) = 1
  <2>1. tasks = <<[dispatch |-> {t}, after |-> "end"]>>
    BY <1>1 DEF TaskAlone
  <2> QED
    BY <2>1
<1>3. /\ DispatchArrives(1, t) \/ DispatchFails(1, t)
      /\ rigs' = rigs
  BY <1>2 DEF Dispatch
<1>4. CASE DispatchFails(1, t)
  <2>1. UNCHANGED <<rigs, tasks>> /\ UNCHANGED <<inbox, todo, ac>>
    BY <1>1, <1>3, <1>4 DEF DispatchFails, Retry, sledVars
  <2> QED
    BY <2>1, StopUnchanged DEF AgentQuiet
<1>5. CASE DispatchArrives(1, t)
  <2> DEFINE c == CommandOf(t)
  <2>1. /\ c \in SledThms!Command /\ c.action = t.action
    <3>1. c \in Agent!Command
      BY <1>2, DispatchIsCommand DEF CtrlInv
    <3> QED
      BY <3>1 DEF Agent!Command, SledThms!Command, CommandOf
  <2>2. inbox' = Append(inbox, c) /\ UNCHANGED <<todo, ac>>
    BY <1>5 DEF DispatchArrives, Agent!Deliver
  <2>3. tasks' = tasks \/ tasks' = <<>>
    <3>1. CASE Retry(1)
      BY <3>1 DEF Retry
    <3>2. CASE Done(1, t)
      <4>1. [tasks[1] EXCEPT !.dispatch = @ \ {t}].dispatch = {}
            /\ [tasks[1] EXCEPT !.dispatch = @ \ {t}].after = "end"
        BY <1>1 DEF TaskAlone
      <4>2. tasks' = RemoveAt(tasks, 1)
        BY <3>2, <4>1 DEF Done, Dispatched
      <4>3. /\ RemoveAt(tasks, 1) \in Seq(Batch)
            /\ Len(RemoveAt(tasks, 1)) = 0
        <5>1. tasks \in Seq(Batch) /\ 1 \in 1..Len(tasks)
          BY <1>2 DEF CtrlInv, TypeOK
        <5>2. /\ RemoveAt(tasks, 1) \in Seq(Batch)
              /\ Len(RemoveAt(tasks, 1)) = Len(tasks) - 1
          BY <5>1, RemoveAtProperties, Zenon
        <5> QED
          BY <1>2, <5>2
      <4> QED
        BY <4>2, <4>3
    <3> QED
      BY <1>5, <3>1, <3>2 DEF DispatchArrives
  <2>4. ~Launches(t) /\ (Kills(t) \/ AgentQuiet) => AgentQuiet'
    <3> HIDE DEF c
    <3> SUFFICES ASSUME ~Launches(t), Kills(t) \/ AgentQuiet
                 PROVE  AgentQuiet'
      OBVIOUS
    <3>1. ~Launches(c) /\ (Kills(c) \/ Quiet(inbox, todo, ac))
      BY <2>1 DEF Launches, Kills, AgentQuiet
    <3>2. Quiet(Append(inbox, c), todo, ac)
      BY <2>1, <3>1, AgentTypes, AppendQuiet
    <3> QED
      BY <2>2, <3>2 DEF AgentQuiet
  <2>5. GuardSet => ~Launches(t) /\ (Kills(t) \/ AgentQuiet)
    <3>1. \A u \in Task : TaskAlone(u) => u = t
      <4> SUFFICES ASSUME NEW u \in Task, TaskAlone(u) PROVE u = t
        OBVIOUS
      <4>1. tasks[1].dispatch = {u}
        BY DEF TaskAlone
      <4> QED
        BY <1>2, <4>1
    <3> QED
      BY <1>2, <3>1 DEF StopInv, KillOnItsWay
  <2> QED
    BY <1>1, <1>3, <2>3, <2>4, <2>5
    DEF StopInv, OnlyMe, GuardSet, KillOnItsWay, TaskAlone
<1> QED
  BY <1>3, <1>4, <1>5

\* The reaper, the clock and a restart of the orchestrator set no guard.
LEMMA RegistryOnlyStop ==
  ASSUME CtrlInv, StopInv, OrchestratorRestart \/ Reaper \/ Clock
  PROVE  StopInv'
<1>1. UNCHANGED <<inbox, todo, ac>>
  BY DEF OrchestratorRestart, Reaper, Clock, sledVars
<1>2. CASE OrchestratorRestart
  BY <1>2, ControlAssumption
  DEF OrchestratorRestart, Restart, StopInv, OnlyMe, GuardSet
<1>3. CASE Reaper
  <2>1. \A r \in RigIds : rigs'[r] # NoRig => rigs'[r] = rigs[r]
    BY <1>3 DEF Reaper, RemoveStaleRigs
  <2>2. OnlyMe' /\ (GuardSet' => GuardSet)
    BY <2>1, ControlAssumption DEF StopInv, OnlyMe, GuardSet
  <2> QED
    BY <1>1, <1>3, <2>2, StopRigs DEF Reaper, RemoveStaleRigs
<1>4. CASE Clock
  <2>1. ASSUME NEW r \in RigIds, rigs'[r] # NoRig
        PROVE  /\ rigs[r] # NoRig /\ rigs'[r].ip = rigs[r].ip
               /\ rigs[r].kill_requested_at = None =>
                    rigs'[r].kill_requested_at = None
    <3>1. rigs[r] # NoRig /\ rigs'[r] = Aged(rigs[r])
      BY <1>4, <2>1 DEF Clock, Tick, Known
    <3>2. rigs[r] \in Rig
      BY <3>1 DEF CtrlInv, TypeOK
    <3> QED
      BY <3>1, <3>2 DEF Aged, Rig
  <2>2. OnlyMe' /\ (GuardSet' => GuardSet)
    BY <2>1, ControlAssumption DEF StopInv, OnlyMe, GuardSet
  <2> QED
    BY <1>1, <1>4, <2>2, StopRigs DEF Clock, Tick
<1> QED
  BY <1>2, <1>3, <1>4

LEMMA StopStep ==
  ASSUME ~Lossy, ~SledRestarts, ~Pages, ~ManualStarts, MaxBatches = 1,
         CtrlInv, StopInv, [CNext]_allVars
  PROVE  StopInv'
<1>1. CASE ListenerStep \/ WatchdogStep \/ HeartbeatStep \/ SledEvent
           \/ PostTimesOut \/ PullAnswered
  <2>1. UNCHANGED <<rigs, tasks>>
    BY <1>1 DEF ListenerStep, WatchdogStep, HeartbeatStep, SledEvent,
                PostTimesOut, PullAnswered, vars
  <2>2. AgentQuiet => AgentQuiet'
    BY <1>1, AgentKeepsQuiet
  <2> QED
    BY <2>1, <2>2, StopUnchanged
<1>2. CASE PostAnswered
  <2>1. AgentQuiet => AgentQuiet'
    BY <1>2, AgentKeepsQuiet DEF PostAnswered
  <2>2. heartbeat.sent \in RigStatus
    BY SentStatus DEF CtrlInv
  <2> QED
    BY <1>2, <2>1, <2>2, PostStop DEF PostAnswered
<1>3. CASE LatePost
  <2>1. PICK s \in late : UpdateRigStatus(Me, Body(s))
    BY <1>3 DEF LatePost
  <2>2. s \in RigStatus
    BY DEF CtrlInv
  <2>3. AgentQuiet => AgentQuiet'
    BY <1>3 DEF LatePost, sledVars, AgentQuiet
  <2> QED
    BY <2>1, <2>2, <2>3, PostStop
<1>4. CASE Request
  BY <1>4, RequestStop
<1>5. CASE \E i \in DOMAIN tasks : Dispatch(i)
  BY <1>5, DispatchStop
<1>6. CASE OrchestratorRestart \/ Reaper \/ Clock
  BY <1>6, RegistryOnlyStop
<1>7. CASE UNCHANGED allVars
  <2>1. UNCHANGED <<rigs, tasks>> /\ UNCHANGED <<inbox, todo, ac>>
    BY <1>7 DEF allVars, vars, sledVars
  <2> QED
    BY <2>1, StopUnchanged DEF AgentQuiet
<1> QED
  BY <1>1, <1>2, <1>3, <1>4, <1>5, <1>6, <1>7 DEF CNext

\* What the kill guard stands for (routers/rigs.py:110): when the requests
\* come one after the other, each of them reaches the sled, and neither the
\* driver nor a restart of the agent interferes, a rig whose guard is set runs
\* no game once its commands have been carried out.
THEOREM StoppedAlwaysAfterKill ==
  ASSUME ~Lossy, ~SledRestarts, ~Pages, ~ManualStarts, MaxBatches = 1
  PROVE  CSpec => []StoppedAfterKill
<1>1. CInit => StopInv
  BY ControlAssumption DEF CInit, Init, StopInv, OnlyMe, GuardSet
<1>2. CtrlInv /\ StopInv /\ [CNext]_allVars => StopInv'
  BY StopStep
<1>3. StopInv => StoppedAfterKill
  <2> SUFFICES ASSUME StopInv, GuardSet, tasks = <<>>, inbox = <<>>,
                      todo = <<>>
               PROVE  ac = 0
    BY DEF StoppedAfterKill, GuardSet, Known
  <2>1. AgentQuiet
    <3>1. \A t \in Task : ~TaskAlone(t)
      BY DEF TaskAlone
    <3> QED
      BY <3>1 DEF StopInv, KillOnItsWay
  <2>2. Len(inbox) = 0 /\ Len(todo) = 0
    OBVIOUS
  <2> QED
    BY <2>1, <2>2
    DEF AgentQuiet, Quiet, KillWaits, EndsQuiet, SledThms!KillAhead
<1> QED
  BY <1>1, <1>2, <1>3, CtrlInvAlways, PTL DEF CSpec
==============================================================================
