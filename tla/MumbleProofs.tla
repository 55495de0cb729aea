----------------------------- MODULE MumbleProofs -----------------------------
(***************************************************************************)
(* Proofs about the voice rooms: the types, and that nothing the service   *)
(* does takes a client out of the room it is assigned to.                  *)
(***************************************************************************)
EXTENDS Mumble, TLAPS

LEMMA InitType == Init => TypeOK
  BY DEF Init, TypeOK, Unassigned

LEMMA RequestsType == ASSUME TypeOK, Requests PROVE TypeOK'
<1> USE DEF TypeOK, threadVars, outside, Places
<1>1. CASE \E r \in Rigs : UnassignRig(r)
  BY <1>1 DEF UnassignRig
<1>2. CASE \E r \in Rigs, c \in Rooms : AssignRig(r, c)
  BY <1>2 DEF AssignRig
<1>3. CASE RequestMoves
  <2>1. place' \in [Rigs -> Places \cup {None}]
    BY <1>3 DEF RequestMoves, CanMove, Move
  <2> QED  BY <1>3, <2>1 DEF RequestMoves
<1> QED  BY <1>1, <1>2, <1>3 DEF Requests

LEMMA ThreadType == ASSUME TypeOK, Thread PROVE TypeOK'
<1> USE DEF TypeOK, threadVars, outside, Places, Unassigned
<1>1. CASE Connect
  BY <1>1 DEF Connect
<1>2. CASE EnsureChannels
  <2>1. channels' \subseteq Rooms \cup {Root} /\ channels_ready' \in BOOLEAN
    BY <1>2 DEF EnsureChannels
  <2> QED  BY <1>2, <2>1 DEF EnsureChannels
<1>3. CASE Watchdog
  BY <1>3 DEF Watchdog
<1>4. CASE ApplyDone
  BY <1>4 DEF ApplyDone
<1>5. ASSUME NEW r \in Rigs, Apply(r) PROVE TypeOK'
  <2>1. place' \in [Rigs -> Places \cup {None}]
    BY <1>5 DEF Apply, ApplyMoves, ApplyFails, CanMove, Move
  <2> QED  BY <1>5, <2>1 DEF Apply, ApplyMoves, ApplyFails
<1> QED  BY <1>1, <1>2, <1>3, <1>4, <1>5 DEF Thread

LEMMA OutsideType ==
  ASSUME TypeOK, Clients \/ Links \/ OrchestratorRestart PROVE TypeOK'
<1> USE DEF TypeOK, threadVars, outside, Places, Unassigned
<1>1. CASE Clients
  BY <1>1 DEF Clients, ClientArrives, ClientLeaves, ClientRoams, Move
<1>2. CASE Links
  <2>1. bot' \in {"linked", "lost", "dead"}
    BY <1>2 DEF Links, LinkLost, LinkReturns, LinkDies, ServerStops, ServerStarts
  <2> QED
    BY <1>2, <2>1 DEF Links, LinkLost, LinkReturns, LinkDies, ServerStops, ServerStarts
<1>3. CASE OrchestratorRestart
  BY <1>3 DEF OrchestratorRestart
<1> QED  BY <1>1, <1>2, <1>3

LEMMA NextType == TypeOK /\ [Next]_vars => TypeOK'
<1> SUFFICES ASSUME TypeOK, [Next]_vars PROVE TypeOK'
  OBVIOUS
<1>1. CASE UNCHANGED vars
  BY <1>1 DEF TypeOK, vars, threadVars, outside
<1>2. CASE Next
  BY <1>2, RequestsType, ThreadType, OutsideType DEF Next
<1> QED  BY <1>1, <1>2

\* The copy being applied, the request in progress and the clients' places are
\* always well formed, whichever of the two threads and the outside steps
\* (mumble_service.py, routers/mumble.py).
THEOREM MumbleTypeCorrect == Spec => []TypeOK
  BY InitType, NextType, PTL DEF Spec
------------------------------------------------------------------------------
(***************************************************************************)
(* StaysInRoom, for one rig and one step.                                  *)
(***************************************************************************)

\* What a step may do to a rig whose assignment is the only one under way.
Kept(r) ==
  /\ UpToDate(r)'
  /\ place[r] = assignments[r] /\ place'[r] # place[r] =>
       request' = request /\ todo' = todo

\* Nobody's move reaches another rig, and a move to where it is moves nobody.
LEMMA MoveFacts ==
  ASSUME TypeOK, NEW r \in Rigs, NEW q \in Rigs, NEW c, Move(q, c)
  PROVE  place'[r] = IF r = q THEN c ELSE place[r]
  BY DEF TypeOK, Move

LEMMA RequestsKeep ==
  ASSUME TypeOK, Requests, NEW r \in Rigs, UpToDate(r), assignments[r] # None,
         assignments'[r] = assignments[r]
  PROVE  Kept(r)
<1> USE DEF Kept, UpToDate
<1>1. ASSUME NEW q \in Rigs, UnassignRig(q) PROVE Kept(r)
  <2>1. r # q
    BY <1>1 DEF UnassignRig, TypeOK
  <2> QED  BY <1>1, <2>1 DEF UnassignRig, threadVars
<1>2. ASSUME NEW q \in Rigs, NEW c \in Rooms, AssignRig(q, c) PROVE Kept(r)
  <2>1. r = q => assignments'[r] = c
    BY <1>2 DEF AssignRig, TypeOK
  <2> QED  BY <1>2, <2>1 DEF AssignRig, threadVars
<1>3. CASE RequestMoves
  <2>1. place[r] = assignments[r] => place'[r] = place[r]
    <3>1. CASE UNCHANGED place
      BY <3>1
    <3>2. CASE Move(request.rig, request.to)
      <4>1. request.rig \in Rigs
        BY <1>3 DEF RequestMoves, TypeOK
      <4> QED  BY <1>3, <3>2, <4>1, MoveFacts DEF RequestMoves
    <3> QED  BY <1>3, <3>1, <3>2 DEF RequestMoves
  <2> QED  BY <1>3, <2>1 DEF RequestMoves, threadVars
<1> QED  BY <1>1, <1>2, <1>3 DEF Requests

LEMMA ThreadKeeps ==
  ASSUME TypeOK, Thread, NEW r \in Rigs, UpToDate(r), assignments[r] # None,
         assignments'[r] = assignments[r]
  PROVE  Kept(r)
<1> USE DEF Kept, UpToDate, outside
<1>1. CASE Connect
  BY <1>1 DEF Connect
<1>2. CASE EnsureChannels
  BY <1>2 DEF EnsureChannels
<1>3. CASE Watchdog
  BY <1>3 DEF Watchdog
<1>4. CASE ApplyDone
  BY <1>4 DEF ApplyDone
<1>5. ASSUME NEW q \in Rigs, Apply(q) PROVE Kept(r)
  <2>1. todo'[r] \in {None, todo[r]} /\ UNCHANGED <<assignments, request>>
    BY <1>5 DEF Apply, ApplyMoves, ApplyFails, TypeOK
  <2>2. place[r] = assignments[r] => place'[r] = place[r]
    <3>1. CASE ApplyMoves(q)
      BY <3>1, MoveFacts DEF ApplyMoves
    <3>2. CASE ApplyFails(q)
      BY <3>2 DEF ApplyFails
    <3> QED  BY <1>5, <3>1, <3>2 DEF Apply
  <2> QED  BY <2>1, <2>2
<1> QED  BY <1>1, <1>2, <1>3, <1>4, <1>5 DEF Thread

LEMMA OutsideKeeps ==
  ASSUME TypeOK, Clients \/ Links \/ OrchestratorRestart,
         NEW r \in Rigs, UpToDate(r), assignments[r] # None,
         assignments'[r] = assignments[r]
  PROVE  Kept(r)
<1> USE DEF Kept, UpToDate, threadVars, outside
<1>1. CASE Clients
  BY <1>1 DEF Clients, ClientArrives, ClientLeaves, ClientRoams
<1>2. CASE Links
  BY <1>2 DEF Links, LinkLost, LinkReturns, LinkDies, ServerStops, ServerStarts
<1>3. CASE OrchestratorRestart
  <2>1. todo'[r] = None /\ request' = None /\ UNCHANGED place
    BY <1>3 DEF OrchestratorRestart, Unassigned
  <2> QED  BY <2>1
<1> QED  BY <1>1, <1>2, <1>3

\* A rig's client is taken out of its room by the service only for a request
\* or a copy that was already under way when the rig was assigned: for any
\* number of rigs and rooms, and whatever is lost, restarted or interleaved
\* between the two threads (mumble_service.py:482-617).
THEOREM ClientsStayInRooms == Spec => StaysInRoom
<1>1. ASSUME TypeOK, [Next]_vars, NEW r \in Rigs, UpToDate(r),
             assignments[r] # None, assignments'[r] = assignments[r]
      PROVE  Kept(r)
  <2>1. CASE UNCHANGED vars
    BY <1>1, <2>1 DEF Kept, UpToDate, vars, threadVars
  <2>2. CASE Next
    BY <1>1, <2>2, RequestsKeep, ThreadKeeps, OutsideKeeps DEF Next
  <2> QED  BY <1>1, <2>1, <2>2
<1>2. TypeOK /\ [Next]_vars =>
        [\A r \in Rigs :
           UpToDate(r) /\ assignments[r] # None /\ assignments'[r] = assignments[r] =>
             /\ UpToDate(r)'
             /\ place[r] = assignments[r] /\ place'[r] # place[r] =>
                  request' = request /\ todo' = todo]_vars
  BY <1>1 DEF Kept
<1> QED  BY <1>2, MumbleTypeCorrect, PTL DEF Spec, StaysInRoom
==============================================================================
