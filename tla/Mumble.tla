-------------------------------- MODULE Mumble --------------------------------
(***************************************************************************)
(* Voice rooms of the rigs (orchestrator/services/mumble_service.py,       *)
(* routers/mumble.py): assignments that are stored and a bot that moves    *)
(* the players' clients into their rooms.                                  *)
(*                                                                         *)
(* Requests run on the event loop, one at a time; the service's thread     *)
(* connects the bot and, every five seconds, applies a copy of the         *)
(* assignments, rig by rig.  The two interleave.  The Mumble server and    *)
(* its clients are external.                                               *)
(***************************************************************************)
EXTENDS FiniteSets

CONSTANTS
  Rigs,   \* rig ids, the names the clients log in with
  Rooms,  \* MUMBLE_CHANNELS
  Root,   \* MUMBLE_ROOT_CHANNEL, the parent of the rooms
  None    \* Python's None; not connected to the server

Lobby == "server root"  \* channel 0, where a client arrives
Places == Rooms \cup {Root, Lobby}

ASSUME MumbleAssumption ==
  /\ None \notin Places
  /\ Root \notin Rooms /\ Lobby \notin Rooms \cup {Root}

VARIABLES
  assignments,     \* AppState._mumble_assignments
  request,         \* the assign or unassign request in progress, or None
  at,              \* where the service's thread is in _run
  todo,            \* the copy of the assignments that is still to be applied
  connected,       \* MumbleService._connected
  channels_ready,  \* MumbleService._channels_ready
  bot,             \* the bot's link: linked, lost while it reconnects, dead
  server,          \* the Mumble server runs
  channels,        \* Root and rooms that exist on the server
  place            \* where each rig's client is, or None

threadVars == <<at, todo, connected, channels_ready>>
outside == <<bot, server, channels>>
vars == <<assignments, request, threadVars, outside, place>>

Unassigned == [r \in Rigs |-> None]

TypeOK ==
  /\ assignments \in [Rigs -> Rooms \cup {None}]
  /\ request \in [rig : Rigs, to : Places] \cup {None}
  /\ at \in {"loop", "ensure", "apply"}
  /\ todo \in [Rigs -> Rooms \cup {None}]
  /\ connected \in BOOLEAN /\ channels_ready \in BOOLEAN
  /\ bot \in {"linked", "lost", "dead"} /\ server \in BOOLEAN
  /\ channels \subseteq Rooms \cup {Root}
  /\ place \in [Rigs -> Places \cup {None}]

Init ==
  /\ assignments = Unassigned /\ request = None
  /\ at = "loop" /\ todo = Unassigned
  /\ connected = FALSE /\ channels_ready = FALSE
  /\ bot = "dead" /\ server \in BOOLEAN /\ channels = {}
  /\ place = Unassigned
------------------------------------------------------------------------------
(***************************************************************************)
(* Requests: the assignment is stored, then the client is moved.  A save   *)
(* that raises ends the request with the assignment in memory only.        *)
(***************************************************************************)

\* The client is found on the server, and so is the channel.
CanMove(r, c) == connected /\ bot = "linked" /\ place[r] # None /\ c \in channels
Move(r, c) == place' = [place EXCEPT ![r] = c]

AssignRig(r, c) ==
  /\ request = None
  /\ assignments' = [assignments EXCEPT ![r] = c]
  /\ request' \in {[rig |-> r, to |-> c], None}
  /\ UNCHANGED <<threadVars, outside, place>>

\* Faulty variant: the rig is moved, its assignment stays stored.
UnassignMovesOnly(r) ==
  /\ request = None
  /\ request' = [rig |-> r, to |-> Root]
  /\ UNCHANGED <<assignments, threadVars, outside, place>>
\* Faulty variant: the rig is assigned to the channel of the unassigned.
UnassignToRoot(r) ==
  /\ request = None
  /\ assignments' = [assignments EXCEPT ![r] = Root]
  /\ request' = [rig |-> r, to |-> Root]
  /\ UNCHANGED <<threadVars, outside, place>>
UnassignRig(r) ==
  /\ request = None
  /\ assignments' = [assignments EXCEPT ![r] = None]
  /\ request' \in {[rig |-> r, to |-> Root], None}
  /\ UNCHANGED <<threadVars, outside, place>>

\* The move may fail; the request answers success or queued.
RequestMoves ==
  /\ request # None
  /\ request' = None
  /\ \/ CanMove(request.rig, request.to) /\ Move(request.rig, request.to)
     \/ UNCHANGED place
  /\ UNCHANGED <<assignments, threadVars, outside>>
------------------------------------------------------------------------------
(***************************************************************************)
(* The service's thread.                                                   *)
(***************************************************************************)
Connect ==
  /\ at = "loop" /\ ~connected /\ server
  /\ connected' = TRUE /\ bot' = "linked"
  /\ at' = "ensure"
  /\ UNCHANGED <<assignments, request, todo, channels_ready, server, channels, place>>

\* Channels are made once per connection; the server may make none, or some.
EnsureChannels ==
  /\ at = "ensure"
  /\ \/ /\ bot = "linked"
        /\ \E made \in SUBSET Rooms : channels' = channels \cup made \cup {Root}
        /\ channels_ready' = (channels' \cap Rooms # {})
     \/ UNCHANGED <<channels, channels_ready>>
  /\ todo' = assignments /\ at' = "apply"
  /\ UNCHANGED <<assignments, request, connected, bot, server, place>>

\* Faulty variant: the thread trusts its flag.
TrustsFlag == TRUE
\* is_alive: the bot's own thread, which reconnects by itself, has not ended.
BotAlive == bot # "dead"

Watchdog ==
  /\ at = "loop" /\ connected
  /\ IF BotAlive
       THEN /\ todo' = assignments /\ at' = "apply"
            /\ UNCHANGED <<connected, channels_ready>>
       ELSE /\ connected' = FALSE /\ channels_ready' = FALSE
            /\ UNCHANGED <<todo, at>>
  /\ UNCHANGED <<assignments, request, outside, place>>

\* The copy is applied in any order; a rig that is absent or cannot be moved
\* waits for the next copy.
ApplyMoves(r) ==
  /\ at = "apply" /\ todo[r] # None
  /\ CanMove(r, todo[r]) /\ Move(r, todo[r])
  /\ todo' = [todo EXCEPT ![r] = None]
  /\ UNCHANGED <<assignments, request, at, connected, channels_ready, outside>>

ApplyFails(r) ==
  /\ at = "apply" /\ todo[r] # None
  /\ todo' = [todo EXCEPT ![r] = None]
  /\ UNCHANGED <<assignments, request, at, connected, channels_ready, outside, place>>

ApplyDone ==
  /\ at = "apply" /\ todo = Unassigned
  /\ at' = "loop"
  /\ UNCHANGED <<assignments, request, todo, connected, channels_ready, outside, place>>
------------------------------------------------------------------------------
(***************************************************************************)
(* The players, the server and its links, the orchestrator's process.      *)
(***************************************************************************)
ClientArrives(r) ==
  /\ server /\ place[r] = None
  /\ Move(r, Lobby)
  /\ UNCHANGED <<assignments, request, threadVars, outside>>

ClientLeaves(r) ==
  /\ place[r] # None
  /\ Move(r, None)
  /\ UNCHANGED <<assignments, request, threadVars, outside>>

\* A player changes the room.
ClientRoams(r, c) ==
  /\ place[r] \notin {None, c} /\ c \in channels
  /\ Move(r, c)
  /\ UNCHANGED <<assignments, request, threadVars, outside>>

LinkLost ==
  /\ bot = "linked" /\ bot' \in {"lost", "dead"}
  /\ UNCHANGED <<assignments, request, threadVars, server, channels, place>>

\* pymumble reconnects by itself, or its thread ends.
LinkReturns ==
  /\ bot = "lost" /\ server /\ bot' = "linked"
  /\ UNCHANGED <<assignments, request, threadVars, server, channels, place>>
LinkDies ==
  /\ bot = "lost" /\ bot' = "dead"
  /\ UNCHANGED <<assignments, request, threadVars, server, channels, place>>

\* The server keeps its channels.
ServerStops ==
  /\ server /\ server' = FALSE
  /\ place' = Unassigned
  /\ bot' \in IF bot = "linked" THEN {"lost", "dead"} ELSE {bot}
  /\ UNCHANGED <<assignments, request, threadVars, channels>>

\* Nobody starts it again but the operator, or a new orchestrator process.
ServerStarts ==
  /\ ~server /\ server' = TRUE
  /\ UNCHANGED <<assignments, request, threadVars, bot, channels, place>>

\* The assignments are read from their file: the last ones, none if the file
\* was cut in a write, or, after a save that failed, any older ones.
OrchestratorRestart ==
  /\ assignments' \in [Rigs -> Rooms \cup {None}] /\ request' = None
  /\ at' = "loop" /\ todo' = Unassigned
  /\ connected' = FALSE /\ channels_ready' = FALSE
  /\ bot' = "dead" /\ server' \in {server, TRUE}
  /\ UNCHANGED <<channels, place>>

Requests ==
  \/ \E r \in Rigs : UnassignRig(r) \/ \E c \in Rooms : AssignRig(r, c)
  \/ RequestMoves
Apply(r) == ApplyMoves(r) \/ ApplyFails(r)
Thread ==
  Connect \/ EnsureChannels \/ Watchdog \/ ApplyDone \/ \E r \in Rigs : Apply(r)
Clients ==
  \E r \in Rigs : \/ ClientArrives(r) \/ ClientLeaves(r)
                  \/ \E c \in Rooms \cup {Root} : ClientRoams(r, c)
Links == LinkLost \/ LinkReturns \/ LinkDies \/ ServerStops \/ ServerStarts

Next == Requests \/ Thread \/ Clients \/ Links \/ OrchestratorRestart

Spec == Init /\ [][Next]_vars

\* The thread goes on, a request ends, and where pymumble can reconnect or
\* move a client again and again it does so at last.
Fairness ==
  /\ WF_vars(Thread) /\ WF_vars(RequestMoves) /\ WF_vars(LinkReturns \/ LinkDies)
  /\ SF_vars(Connect) /\ \A r \in Rigs : SF_vars(ApplyMoves(r))
FairSpec == Spec /\ Fairness
------------------------------------------------------------------------------
(***************************************************************************)
(* Properties.                                                             *)
(***************************************************************************)

\* Nothing older than the assignment of r is still being carried out.
UpToDate(r) ==
  /\ todo[r] \in {None, assignments[r]}
  /\ request # None /\ request.rig = r => request.to = assignments[r]

\* Once the copy and the request that were under way when a rig was assigned
\* are done with, the service takes the client out of its room no more, and no
\* later copy, reconnection or restart brings an older assignment back; who
\* leaves the room then does so of his own (mumble_service.py:482-617).
StaysInRoom ==
  [][\A r \in Rigs :
       UpToDate(r) /\ assignments[r] # None /\ assignments'[r] = assignments[r] =>
         /\ UpToDate(r)'
         /\ place[r] = assignments[r] /\ place'[r] # place[r] =>
              request' = request /\ todo' = todo]_vars

\* The player's own moves and losses of the link come to an end.
Undisturbed(r) ==
  <>[][/\ place'[r] # place[r] => request' # request \/ todo' # todo
       /\ bot = "linked" => bot' = "linked"]_vars

\* "assignment saved for when it reconnects" (mumble_service.py:599): a client
\* that stays connected and assigned ends up in its room for good, whatever
\* failed before and whatever copy of older assignments was being applied.
AssignedSettles ==
  \A r \in Rigs, c \in Rooms :
    /\ <>[](assignments[r] = c /\ c \in channels /\ server /\ place[r] # None)
    /\ Undisturbed(r)
    => <>[](place[r] = c)
==============================================================================
