------------------------------ MODULE ACServers -------------------------------
(***************************************************************************)
(* The dedicated servers of the multiplayer groups                         *)
(* (orchestrator/services/acserver.py, routers/server.py), the             *)
(* orchestrator that starts them as child processes, and the rigs that are *)
(* sent to them (routers/commands.py, sled/launcher.py).                   *)
(*                                                                         *)
(* Every handler runs on the event loop without an await, so handlers      *)
(* exclude each other, also during the health check of a start, which      *)
(* sleeps up to three seconds.  Processes end, commands reach the rigs and *)
(* the orchestrator dies whenever they like.                               *)
(***************************************************************************)
EXTENDS Integers, FiniteSets

CONSTANTS
  Groups,     \* group ids, all of multiplayer groups
  Pids,       \* operating-system processes of acServer.exe
  None,       \* Python's None
  Restarts,   \* the orchestrator can die and be started again
  Deletions   \* groups can be deleted

ASSUME ServersAssumption ==
  /\ IsFiniteSet(Groups)
  /\ None \notin Pids \cup Int
  /\ None \notin [offset : Int, pid : Pids]
  /\ None \notin [group : Groups, offset : Int, pid : Pids]
  /\ None \notin [group : Groups, offset : Int, child : BOOLEAN]
  /\ Restarts \in BOOLEAN /\ Deletions \in BOOLEAN

VARIABLES
  groups,         \* the groups that exist
  servers,        \* ACServerManager._servers
  server_status,  \* AppState.server_status
  starting,       \* the start_server call in its health check, or None
  procs,          \* the server processes that run
  launches,       \* LAUNCH_RACE commands on their way to a group's rigs
  game            \* the server process a group's rigs play on, or None

vars == <<groups, servers, server_status, starting, procs, launches, game>>

Offsets == 0..Cardinality(Groups)

TypeOK ==
  /\ groups \subseteq Groups
  /\ servers \in [Groups -> [offset : Offsets, pid : Pids] \cup {None}]
  /\ server_status \in {"online", "offline"}
  /\ starting \in [group : Groups, offset : Offsets, pid : Pids] \cup {None}
  /\ procs \in [Pids -> [group : Groups, offset : Offsets, child : BOOLEAN] \cup {None}]
  /\ launches \subseteq [group : Groups, offset : Offsets]
  /\ game \in [Groups -> Pids \cup {None}]

Init ==
  /\ groups = Groups
  /\ servers = [g \in Groups |-> None]
  /\ server_status = "offline"
  /\ starting = None
  /\ procs = [p \in Pids |-> None]
  /\ launches = {}
  /\ game = [g \in Groups |-> None]
------------------------------------------------------------------------------
(***************************************************************************)
(* Processes and the registry of the manager.                              *)
(***************************************************************************)
Registered == {g \in Groups : servers[g] # None}
Running(g) == servers[g] # None /\ procs[servers[g].pid] # None

\* A server process ends and the rigs that played on it lose the connection.
End(ps) ==
  /\ procs' = [p \in Pids |-> IF p \in ps THEN None ELSE procs[p]]
  /\ game' = [g \in Groups |-> IF game[g] \in ps THEN None ELSE game[g]]

\* Faulty variant: a server whose group was deleted is only forgotten.
StopKnownServers(gs) ==
  /\ servers' = [g \in Groups |-> IF g \in gs THEN None ELSE servers[g]]
  /\ End({servers[g].pid : g \in gs \cap Registered \cap groups})
\* stop_server of each group: the entry goes, the process is terminated.
StopServers(gs) ==
  /\ servers' = [g \in Groups |-> IF g \in gs THEN None ELSE servers[g]]
  /\ End({servers[g].pid : g \in gs \cap Registered})

\* Faulty variant: a server that crashed, and can be restarted, keeps nothing.
OffsetsInUse(g) == {servers[h].offset : h \in {k \in Groups \ {g} : Running(k)}}
\* Offsets of the registered servers, without the group that starts.
UsedOffsets(g) == {servers[h].offset : h \in Registered \ {g}}

\* Faulty variants: the number of the servers; one above the highest offset.
NextOffset(used) == Cardinality(used)
AboveHighest(used) ==
  CHOOSE o \in 0..(Cardinality(Groups) + 1) :
    /\ \A u \in used : u < o
    /\ o - 1 \in used \cup {-1}
LowestFree(used) ==
  CHOOSE o \in Offsets : o \notin used /\ \A p \in 0..(o - 1) : p \in used

\* What /server/status and /server/stop make of the registry.
StatusOf(running) == IF running # {} THEN "online" ELSE "offline"
------------------------------------------------------------------------------
(***************************************************************************)
(* Handlers of the server router and the group commands.                   *)
(***************************************************************************)
Idle == starting = None

\* The group's old server is stopped before anything can go wrong: no
\* acServer.exe, no valid car, the executable cannot be copied or started.
StartRefused(g) ==
  /\ Idle /\ g \in groups
  /\ StopServers({g})
  /\ UNCHANGED <<groups, server_status, starting, launches>>

\* The old server is stopped, a port chosen and the process started.
StartSpawns(g) ==
  /\ Idle /\ g \in groups
  /\ servers' = [servers EXCEPT ![g] = None]
  /\ \E p \in Pids :
       /\ procs[p] = None /\ \A h \in Registered : servers[h].pid # p
       /\ LET o == LowestFree(UsedOffsets(g))
              old == IF g \in Registered THEN {servers[g].pid} ELSE {}
          IN
          /\ starting' = [group |-> g, offset |-> o, pid |-> p]
          /\ procs' = [q \in Pids |->
                         IF q = p
                           THEN [group |-> g, offset |-> o, child |-> TRUE]
                         ELSE IF q \in old THEN None ELSE procs[q]]
          /\ game' = [h \in Groups |-> IF game[h] \in old THEN None ELSE game[h]]
  /\ UNCHANGED <<groups, server_status, launches>>

\* Still alive after the health check.
StartSucceeds ==
  /\ starting # None /\ procs[starting.pid] # None
  /\ servers' = [servers EXCEPT ![starting.group] =
                   [offset |-> starting.offset, pid |-> starting.pid]]
  /\ server_status' = "online"
  /\ starting' = None
  /\ UNCHANGED <<groups, procs, launches, game>>

\* It exited: nothing is registered and the status stays as it was.
StartFails ==
  /\ starting # None /\ procs[starting.pid] = None
  /\ starting' = None
  /\ UNCHANGED <<groups, servers, server_status, procs, launches, game>>

\* Faulty variant: offline without a look at the other servers.
StopShowsOffline(g) ==
  /\ Idle
  /\ StopServers({g})
  /\ server_status' = "offline"
  /\ UNCHANGED <<groups, starting, launches>>
\* The status is computed from the servers that are left.
Stop(g) ==
  /\ Idle
  /\ StopServers({g})
  /\ server_status' = StatusOf({h \in Groups \ {g} : Running(h)})
  /\ UNCHANGED <<groups, starting, launches>>

StopAll ==
  /\ Idle
  /\ StopServers(Groups)
  /\ server_status' = "offline"
  /\ UNCHANGED <<groups, starting, launches>>

\* POST /update stops the servers and does not touch the status.
UpdateStopsAll ==
  /\ Idle
  /\ StopServers(Groups)
  /\ UNCHANGED <<groups, server_status, starting, launches>>

\* Faulty variant: every registered server counts.
GetServerStatusRegistered ==
  /\ Idle
  /\ server_status' = StatusOf(Registered)
  /\ UNCHANGED <<groups, servers, starting, procs, launches, game>>
GetServerStatus ==
  /\ Idle
  /\ server_status' = StatusOf({g \in Groups : Running(g)})
  /\ UNCHANGED <<groups, servers, starting, procs, launches, game>>

\* delete_group does not ask the server manager anything.
DeleteGroup(g) ==
  /\ Idle /\ Deletions /\ g \in groups
  /\ groups' = groups \ {g}
  /\ UNCHANGED <<servers, server_status, starting, procs, launches, game>>

\* A command without server_port makes launcher.py use 9600, offset 0, of
\* the orchestrator's host.
DefaultOffset == 0
LaunchOffset(g) == IF Running(g) THEN servers[g].offset ELSE DefaultOffset

LaunchGroup(g) ==
  /\ Idle /\ g \in groups
  /\ launches' = launches \cup {[group |-> g, offset |-> LaunchOffset(g)]}
  /\ UNCHANGED <<groups, servers, server_status, starting, procs, game>>

\* The dashboard's launch of one rig of the group says use_server and carries
\* no address.
LaunchRig(g) ==
  /\ Idle
  /\ launches' = launches \cup {[group |-> g, offset |-> DefaultOffset]}
  /\ UNCHANGED <<groups, servers, server_status, starting, procs, game>>
------------------------------------------------------------------------------
(***************************************************************************)
(* The rigs, the server processes and the orchestrator's process.          *)
(***************************************************************************)
Listening(o) == {p \in Pids : procs[p] # None /\ procs[p].offset = o}

\* The rigs write race.ini with the port of the command and start the game,
\* which ends the one they played before.
Join(l) ==
  /\ l \in launches
  /\ launches' = launches \ {l}
  /\ \E p \in IF Listening(l.offset) = {} THEN {None} ELSE Listening(l.offset) :
       game' = [game EXCEPT ![l.group] = p]
  /\ UNCHANGED <<groups, servers, server_status, starting, procs>>

GameEnds(g) ==
  /\ game[g] # None
  /\ game' = [game EXCEPT ![g] = None]
  /\ UNCHANGED <<groups, servers, server_status, starting, procs, launches>>

\* A server crashes, or cannot bind its ports.
ServerExits(p) ==
  /\ procs[p] # None
  /\ End({p})
  /\ UNCHANGED <<groups, servers, server_status, starting, launches>>

\* The orchestrator dies and comes back: the registry and the commands not
\* yet sent are gone, the processes it started live on.
OrchestratorRestart ==
  /\ Restarts
  /\ servers' = [g \in Groups |-> None]
  /\ server_status' = "offline"
  /\ starting' = None
  /\ procs' = [p \in Pids |-> IF procs[p] = None THEN None
                              ELSE [procs[p] EXCEPT !.child = FALSE]]
  /\ launches' = {}
  /\ UNCHANGED <<groups, game>>

ServerHandlers ==
  \/ \E g \in Groups : \/ StartRefused(g) \/ StartSpawns(g) \/ Stop(g)
                       \/ DeleteGroup(g) \/ LaunchGroup(g) \/ LaunchRig(g)
  \/ StopAll \/ UpdateStopsAll \/ GetServerStatus

HealthCheck == StartSucceeds \/ StartFails

Outside ==
  \/ \E l \in launches : Join(l)
  \/ \E g \in Groups : GameEnds(g)
  \/ \E p \in Pids : ServerExits(p)

Next == ServerHandlers \/ HealthCheck \/ Outside \/ OrchestratorRestart

Spec == Init /\ [][Next]_vars

\* The health check is a loop of six sleeps.  The dashboard polls the status; a
\* poll that finds the event loop blocked waits in its queue and is served
\* before later requests, so it is not put off for ever by starts.
Fairness == WF_vars(HealthCheck) /\ SF_vars(GetServerStatus)
FairSpec == Spec /\ Fairness
------------------------------------------------------------------------------
(***************************************************************************)
(* Properties.                                                             *)
(***************************************************************************)

\* Every server process this orchestrator process has started and that still
\* runs is known to it: it is registered for its group or in its health
\* check, so stop_server and stop_all reach it (acserver.py:88-402).
NoStrayServer ==
  \A p \in Pids : procs[p] # None /\ procs[p].child =>
    \/ servers[procs[p].group] # None /\ servers[procs[p].group].pid = p
    \/ starting # None /\ starting.pid = p

\* Two running servers share a port only if one of them outlived the
\* orchestrator process that started it ("Assign unique ports",
\* acserver.py:114).
NoPortClash ==
  \A p, q \in Pids :
    /\ procs[p] # None /\ procs[q] # None /\ p # q
    /\ procs[p].child /\ procs[q].child
    => procs[p].offset # procs[q].offset

\* The status shown as offline is true: no registered server runs, however
\* starts, stops and polls are mixed (server.py:50-116).
OfflineIsTrue == server_status = "offline" => \A g \in Groups : ~Running(g)

\* A server that crashed is noticed: the status does not stay online without
\* a server, whatever the handlers that do not recompute it do
\* (server.py:50-61, App.tsx:176).
CrashNoticed ==
  (server_status = "online" /\ \A g \in Groups : ~Running(g))
    ~> (server_status = "offline" \/ \E g \in Groups : Running(g))

\* The manager's registry hands out ports as ServerLeases says.
Leases == INSTANCE ServerLeases WITH
  Ports <- Offsets,
  lease <- [g \in Groups |-> IF servers[g] = None THEN None ELSE servers[g].offset]
ImplementsLeases == Leases!LSpec

\* "no running server found! Rigs will launch offline" (commands.py:150): the
\* rigs of a group never end up on the server of another one.
NoStrangers == \A g \in Groups : game[g] # None => procs[game[g]].group = g
==============================================================================
