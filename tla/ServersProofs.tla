---------------------------- MODULE ServersProofs -----------------------------
(***************************************************************************)
(* What the AC server manager guarantees for every set of groups and       *)
(* processes: its types, distinct ports, no stray server, an offline that  *)
(* is true, and the refinement of ServerLeases.                            *)
(***************************************************************************)
EXTENDS ACServers, FiniteSetTheorems, WellFoundedInduction, TLAPS

\* A server that is in its health check has left its group's entry, holds an
\* offset nobody has registered, and its process is the one it started.
StartingInv ==
  starting # None =>
    /\ servers[starting.group] = None
    /\ \A h \in Registered :
         servers[h].offset # starting.offset /\ servers[h].pid # starting.pid
    /\ procs[starting.pid] # None =>
         procs[starting.pid] =
           [group |-> starting.group, offset |-> starting.offset, child |-> TRUE]

\* A registered server that runs is the process started for the group, and no
\* two entries share a port or a process.
RegisteredInv ==
  /\ \A g \in Registered : procs[servers[g].pid] # None =>
       procs[servers[g].pid] =
         [group |-> g, offset |-> servers[g].offset, child |-> TRUE]
  /\ \A g, h \in Registered : g # h =>
       servers[g].offset # servers[h].offset /\ servers[g].pid # servers[h].pid

IInv == TypeOK /\ StartingInv /\ RegisteredInv /\ NoStrayServer /\ OfflineIsTrue
------------------------------------------------------------------------------
(***************************************************************************)
(* There is a lowest free offset.                                          *)
(***************************************************************************)

\* A nonempty set of naturals has a least element.
LEMMA LeastNatural ==
  ASSUME NEW T, T \subseteq Nat, T # {}
  PROVE  \E x \in T : \A y \in T : x <= y
<1>1. IsWellFoundedOn(OpToRel(<, Nat), Nat)
  BY NatLessThanWellFounded, Zenon
<1>2. PICK x \in T : \A y \in T : ~ (<<y, x>> \in OpToRel(<, Nat))
  BY <1>1, WFMin, Zenon
<1>3. ASSUME NEW y \in T PROVE x <= y
  <2>1. x \in Nat /\ y \in Nat
    OBVIOUS
  <2>2. ~ (y < x)
    BY <1>2, <2>1, Zenon DEF OpToRel
  <2> QED
    BY <2>1, <2>2
<1> QED
  BY <1>3

\* The other groups' servers cannot use all offsets: there are more offsets
\* than groups.
LEMMA SomeOffsetFree ==
  ASSUME ServersAssumption, TypeOK, NEW g \in Groups
  PROVE  \E o \in Offsets : o \notin UsedOffsets(g)
<1> DEFINE S == Registered \ {g}
           f == [h \in S |-> servers[h].offset]
<1>1. IsFiniteSet(Groups) /\ Cardinality(Groups) \in Nat
  BY FS_CardinalityType DEF ServersAssumption
<1>2. S \in SUBSET Groups
  BY DEF Registered
<1>3. IsFiniteSet(S) /\ Cardinality(S) <= Cardinality(Groups)
  BY <1>1, <1>2, FS_Subset
<1>4. f \in Surjection(S, UsedOffsets(g))
  BY DEF Surjection, UsedOffsets
<1>5. /\ IsFiniteSet(UsedOffsets(g))
      /\ Cardinality(UsedOffsets(g)) <= Cardinality(S)
  BY <1>3, <1>4, FS_Surjection
<1>6. IsFiniteSet(Offsets) /\ Cardinality(Offsets) = Cardinality(Groups) + 1
  BY <1>1, FS_Interval DEF Offsets
<1>7. SUFFICES ASSUME Offsets \subseteq UsedOffsets(g) PROVE FALSE
  OBVIOUS
<1>8. Cardinality(Offsets) <= Cardinality(UsedOffsets(g))
  BY <1>5, <1>7, FS_Subset
<1>9. Cardinality(S) \in Nat /\ Cardinality(UsedOffsets(g)) \in Nat
  BY <1>3, <1>5, FS_CardinalityType
<1> QED
  BY <1>1, <1>3, <1>5, <1>6, <1>8, <1>9

\* start_server's loop over the offsets ends, at one nobody has registered.
LEMMA LowestIsFree ==
  ASSUME ServersAssumption, TypeOK, NEW g \in Groups
  PROVE  LowestFree(UsedOffsets(g)) \in Offsets \ UsedOffsets(g)
<1> DEFINE free == Offsets \ UsedOffsets(g)
<1>1. Cardinality(Groups) \in Nat
  BY FS_CardinalityType DEF ServersAssumption
<1>2. free \subseteq Nat
  BY <1>1 DEF Offsets
<1>3. free # {}
  BY SomeOffsetFree
<1>4. PICK o \in free : \A p \in free : o <= p
  BY <1>2, <1>3, LeastNatural
<1>5. \A p \in 0..(o - 1) : p \in UsedOffsets(g)
  BY <1>1, <1>4 DEF Offsets
<1> QED
  BY <1>4, <1>5 DEF LowestFree
------------------------------------------------------------------------------
(***************************************************************************)
(* The invariant.                                                          *)
(***************************************************************************)

LEMMA InitInv == ServersAssumption /\ Init => IInv
<1> SUFFICES ASSUME ServersAssumption, Init PROVE IInv
  OBVIOUS
<1> USE DEF Init
<1>1. TypeOK
  BY DEF TypeOK
<1>2. StartingInv /\ RegisteredInv /\ NoStrayServer /\ OfflineIsTrue
  BY DEF StartingInv, RegisteredInv, Registered, NoStrayServer, OfflineIsTrue, Running
<1> QED
  BY <1>1, <1>2 DEF IInv

\* What End does to the processes and the games.
LEMMA EndType ==
  ASSUME TypeOK, NEW ps, End(ps)
  PROVE  /\ procs' \in [Pids -> [group : Groups, offset : Offsets, child : BOOLEAN] \cup {None}]
         /\ game' \in [Groups -> Pids \cup {None}]
BY DEF End, TypeOK

\* Stopping the servers of some groups, with nothing started in between, keeps
\* all of the invariant but what the status says.
LEMMA StopServersInv ==
  ASSUME IInv, NEW gs \in SUBSET Groups, StopServers(gs), Idle,
         UNCHANGED <<starting, launches>>, groups' = groups,
         server_status' \in {"online", "offline"}
  PROVE  TypeOK' /\ StartingInv' /\ RegisteredInv' /\ NoStrayServer'
<1> USE DEF StopServers
<1>1. TypeOK'
  BY EndType DEF IInv, TypeOK
<1>2. StartingInv'
  BY DEF Idle, StartingInv
<1>3. \A g \in Registered' : g \in Registered /\ g \notin gs /\ servers'[g] = servers[g]
  BY DEF Registered
<1>4. \A p \in Pids : procs'[p] # None => procs'[p] = procs[p]
                                          /\ p \notin {servers[g].pid : g \in gs \cap Registered}
  BY DEF End
<1>5. RegisteredInv'
  <2>1. ASSUME NEW g \in Registered', procs'[servers'[g].pid] # None
        PROVE  procs'[servers'[g].pid] =
                 [group |-> g, offset |-> servers'[g].offset, child |-> TRUE]
    <3>1. servers'[g].pid \in Pids
      BY <1>3, <2>1 DEF IInv, TypeOK, Registered
    <3> QED
      BY <1>3, <1>4, <2>1, <3>1 DEF IInv, RegisteredInv
  <2>2. \A g, h \in Registered' : g # h =>
          servers'[g].offset # servers'[h].offset /\ servers'[g].pid # servers'[h].pid
    BY <1>3 DEF IInv, RegisteredInv
  <2> QED
    BY <2>1, <2>2 DEF RegisteredInv
<1>6. NoStrayServer'
  <2> SUFFICES ASSUME NEW p \in Pids, procs'[p] # None, procs'[p].child
               PROVE  servers'[procs'[p].group] # None /\ servers'[procs'[p].group].pid = p
    BY DEF NoStrayServer
  <2>1. procs'[p] = procs[p] /\ p \notin {servers[g].pid : g \in gs \cap Registered}
    BY <1>4
  <2>2. servers[procs[p].group] # None /\ servers[procs[p].group].pid = p
    BY <2>1 DEF IInv, NoStrayServer, Idle
  <2>3. procs[p].group \in Groups
    BY <2>1 DEF IInv, TypeOK
  <2>4. procs[p].group \notin gs
    BY <2>1, <2>2, <2>3 DEF Registered
  <2> QED
    BY <2>1, <2>2, <2>3, <2>4
<1> QED
  BY <1>1, <1>2, <1>5, <1>6

\* A server that runs after some were stopped ran before, and was not stopped.
LEMMA StopServersRunning ==
  ASSUME TypeOK, NEW gs \in SUBSET Groups, StopServers(gs), NEW g \in Groups,
         Running(g)'
  PROVE  Running(g) /\ g \notin gs
<1>1. g \notin gs /\ servers'[g] = servers[g] /\ servers[g] # None
  BY DEF StopServers, Running
<1>2. servers[g].pid \in Pids
  BY <1>1 DEF TypeOK
<1> QED
  BY <1>1, <1>2 DEF StopServers, End, Running
------------------------------------------------------------------------------
(***************************************************************************)
(* Each step keeps the invariant.                                          *)
(***************************************************************************)

LEMMA StartRefusedInv == ASSUME IInv, NEW g \in Groups, StartRefused(g) PROVE IInv'
<1>1. TypeOK' /\ StartingInv' /\ RegisteredInv' /\ NoStrayServer'
  BY StopServersInv DEF StartRefused, IInv, TypeOK
<1>2. OfflineIsTrue'
  BY StopServersRunning DEF StartRefused, IInv, OfflineIsTrue
<1> QED
  BY <1>1, <1>2 DEF IInv

LEMMA StopInv == ASSUME IInv, NEW g \in Groups, Stop(g) PROVE IInv'
<1>1. TypeOK' /\ StartingInv' /\ RegisteredInv' /\ NoStrayServer'
  BY StopServersInv DEF Stop, StatusOf
<1>2. OfflineIsTrue'
  <2> SUFFICES ASSUME NEW h \in Groups, Running(h)' PROVE server_status' # "offline"
    BY DEF OfflineIsTrue
  <2>1. Running(h) /\ h # g
    BY StopServersRunning DEF Stop, IInv
  <2> QED
    BY <2>1 DEF Stop, StatusOf
<1> QED
  BY <1>1, <1>2 DEF IInv

LEMMA StopAllInv == ASSUME IInv, StopAll \/ UpdateStopsAll PROVE IInv'
<1>1. TypeOK' /\ StartingInv' /\ RegisteredInv' /\ NoStrayServer'
  BY StopServersInv DEF StopAll, UpdateStopsAll, IInv, TypeOK
<1>2. OfflineIsTrue'
  BY StopServersRunning DEF StopAll, UpdateStopsAll, IInv, OfflineIsTrue
<1> QED
  BY <1>1, <1>2 DEF IInv

\* The port chosen is free among the other groups' servers, the process is new.
LEMMA StartSpawnsInv ==
  ASSUME ServersAssumption, IInv, NEW g \in Groups, StartSpawns(g)
  PROVE  IInv'
<1> DEFINE o == LowestFree(UsedOffsets(g))
           old == IF g \in Registered THEN {servers[g].pid} ELSE {}
<1>1. PICK p \in Pids :
        /\ procs[p] = None /\ \A h \in Registered : servers[h].pid # p
        /\ starting' = [group |-> g, offset |-> o, pid |-> p]
        /\ procs' = [q \in Pids |-> IF q = p
                       THEN [group |-> g, offset |-> o, child |-> TRUE]
                       ELSE IF q \in old THEN None ELSE procs[q]]
        /\ game' = [h \in Groups |-> IF game[h] \in old THEN None ELSE game[h]]
  BY DEF StartSpawns
<1>2. o \in Offsets /\ o \notin UsedOffsets(g)
  BY LowestIsFree DEF IInv
<1>3. /\ Idle /\ servers' = [servers EXCEPT ![g] = None]
      /\ UNCHANGED <<groups, server_status, launches>>
  BY DEF StartSpawns
<1> HIDE DEF o
<1>4. TypeOK'
  BY <1>1, <1>2, <1>3 DEF IInv, TypeOK
<1>5. \A h \in Groups : h \in Registered' <=> h \in Registered /\ h # g
  BY <1>3 DEF Registered, IInv, TypeOK
<1>6. \A h \in Registered' : servers'[h] = servers[h] /\ h \in Groups /\ h # g
  BY <1>3, <1>5 DEF Registered, IInv, TypeOK
<1>7. StartingInv'
  <2>1. servers'[starting'.group] = None
    BY <1>1, <1>3 DEF IInv, TypeOK
  <2>2. \A h \in Registered' :
          servers'[h].offset # starting'.offset /\ servers'[h].pid # starting'.pid
    BY <1>1, <1>2, <1>5, <1>6 DEF UsedOffsets
  <2>3. procs'[starting'.pid] =
          [group |-> starting'.group, offset |-> starting'.offset, child |-> TRUE]
    BY <1>1
  <2> QED
    BY <2>1, <2>2, <2>3 DEF StartingInv
<1>8. RegisteredInv'
  <2>1. ASSUME NEW h \in Registered', procs'[servers'[h].pid] # None
        PROVE  procs'[servers'[h].pid] =
                 [group |-> h, offset |-> servers'[h].offset, child |-> TRUE]
    <3>1. servers[h].pid \in Pids /\ servers[h].pid # p
      BY <1>1, <1>5, <1>6 DEF IInv, TypeOK, Registered
    <3>2. procs'[servers[h].pid] = procs[servers[h].pid]
      BY <1>1, <1>6, <2>1, <3>1
    <3> QED
      BY <1>5, <1>6, <2>1, <3>2 DEF IInv, RegisteredInv
  <2>2. \A h, k \in Registered' : h # k =>
          servers'[h].offset # servers'[k].offset /\ servers'[h].pid # servers'[k].pid
    BY <1>5, <1>6 DEF IInv, RegisteredInv
  <2> QED
    BY <2>1, <2>2 DEF RegisteredInv
<1>9. NoStrayServer'
  <2> SUFFICES ASSUME NEW q \in Pids, procs'[q] # None, procs'[q].child, q # p
               PROVE  servers'[procs'[q].group] # None /\ servers'[procs'[q].group].pid = q
    <3>1. starting' # None
      BY <1>1, <1>2 DEF ServersAssumption, Offsets
    <3> QED
      BY <1>1, <3>1 DEF NoStrayServer
  <2>1. procs'[q] = procs[q] /\ q \notin old
    BY <1>1
  <2>2. servers[procs[q].group] # None /\ servers[procs[q].group].pid = q
    BY <1>3, <2>1 DEF IInv, NoStrayServer, Idle
  <2>3. procs[q].group \in Groups
    BY <2>1 DEF IInv, TypeOK
  <2>4. procs[q].group # g
    BY <2>1, <2>2, <2>3 DEF Registered
  <2> QED
    BY <1>3, <2>1, <2>2, <2>3, <2>4 DEF IInv, TypeOK
<1>10. OfflineIsTrue'
  <2> SUFFICES ASSUME NEW h \in Groups, Running(h)' PROVE Running(h)
    BY <1>3 DEF IInv, OfflineIsTrue
  <2>1. h \in Registered' /\ procs'[servers'[h].pid] # None
    BY DEF Running, Registered
  <2>2. servers[h].pid \in Pids /\ servers[h].pid # p /\ servers[h] # None
    BY <1>1, <1>5, <1>6, <2>1 DEF IInv, TypeOK, Registered
  <2> QED
    BY <1>1, <1>6, <2>1, <2>2 DEF Running
<1> QED
  BY <1>4, <1>7, <1>8, <1>9, <1>10 DEF IInv

\* The registered entry is the server that was in its health check.
LEMMA StartSucceedsInv == ASSUME ServersAssumption, IInv, StartSucceeds PROVE IInv'
<1> DEFINE g == starting.group
<1> USE DEF StartSucceeds
<1>1. starting \in [group : Groups, offset : Offsets, pid : Pids]
  BY DEF IInv, TypeOK
<1>2. servers' = [servers EXCEPT ![g] = [offset |-> starting.offset, pid |-> starting.pid]]
  OBVIOUS
<1>3. TypeOK'
  BY <1>1, <1>2 DEF IInv, TypeOK
<1>4. StartingInv'
  BY DEF StartingInv
<1>5. \A h \in Registered' : h \in Groups /\ (h # g => h \in Registered /\ servers'[h] = servers[h])
  BY <1>2 DEF Registered, IInv, TypeOK
<1>6. servers'[g] = [offset |-> starting.offset, pid |-> starting.pid]
  BY <1>1, <1>2 DEF IInv, TypeOK
<1>7. servers'[g] # None
  BY <1>1, <1>6 DEF ServersAssumption, Offsets
<1>8. RegisteredInv'
  <2>1. ASSUME NEW h \in Registered', procs[servers'[h].pid] # None
        PROVE  procs[servers'[h].pid] =
                 [group |-> h, offset |-> servers'[h].offset, child |-> TRUE]
    <3>1. CASE h = g
      <4>1. servers'[h].pid = starting.pid /\ servers'[h].offset = starting.offset
        BY <1>6, <3>1
      <4>2. starting # None /\ procs[starting.pid] # None
        OBVIOUS
      <4>3. procs[starting.pid] =
              [group |-> starting.group, offset |-> starting.offset, child |-> TRUE]
        BY <4>2 DEF IInv, StartingInv
      <4> QED
        BY <3>1, <4>1, <4>3
    <3>2. CASE h # g
      <4>1. h \in Registered /\ servers'[h] = servers[h]
        BY <1>5, <3>2
      <4>2. procs[servers[h].pid] # None
        BY <2>1, <4>1
      <4>3. procs[servers[h].pid] =
              [group |-> h, offset |-> servers[h].offset, child |-> TRUE]
        BY <4>1, <4>2 DEF IInv, RegisteredInv
      <4> QED
        BY <4>1, <4>3
    <3> QED
      BY <3>1, <3>2
  <2>2. ASSUME NEW h \in Registered', NEW k \in Registered', h # k
        PROVE  servers'[h].offset # servers'[k].offset /\ servers'[h].pid # servers'[k].pid
    <3>1. CASE h = g
      BY <1>5, <1>6, <2>2, <3>1 DEF IInv, StartingInv
    <3>2. CASE k = g
      BY <1>5, <1>6, <2>2, <3>2 DEF IInv, StartingInv
    <3>3. CASE h # g /\ k # g
      BY <1>5, <2>2, <3>3 DEF IInv, RegisteredInv
    <3> QED
      BY <3>1, <3>2, <3>3
  <2> QED
    BY <2>1, <2>2 DEF RegisteredInv
<1>9. NoStrayServer'
  <2> SUFFICES ASSUME NEW q \in Pids, procs[q] # None, procs[q].child
               PROVE  servers'[procs[q].group] # None /\ servers'[procs[q].group].pid = q
    BY DEF NoStrayServer
  <2>1. procs[q].group \in Groups
    BY DEF IInv, TypeOK
  <2>2. CASE starting.pid = q
    BY <1>6, <1>7, <2>2 DEF IInv, StartingInv
  <2>3. CASE starting.pid # q
    <3>1. servers[procs[q].group] # None /\ servers[procs[q].group].pid = q
      BY <2>3 DEF IInv, NoStrayServer
    <3>2. procs[q].group # g
      BY <3>1 DEF IInv, StartingInv
    <3> QED
      BY <1>2, <2>1, <3>1, <3>2 DEF IInv, TypeOK
  <2> QED
    BY <2>2, <2>3
<1>10. OfflineIsTrue'
  BY DEF OfflineIsTrue
<1> QED
  BY <1>3, <1>4, <1>8, <1>9, <1>10 DEF IInv

\* Its process has ended, so it is no stray server.
LEMMA StartFailsInv == ASSUME IInv, StartFails PROVE IInv'
<1> USE DEF StartFails
<1>1. TypeOK' /\ StartingInv'
  BY DEF IInv, TypeOK, StartingInv
<1>2. RegisteredInv' /\ OfflineIsTrue'
  BY DEF IInv, RegisteredInv, Registered, OfflineIsTrue, Running
<1>3. NoStrayServer'
  BY DEF IInv, NoStrayServer
<1> QED
  BY <1>1, <1>2, <1>3 DEF IInv

LEMMA StatusInv == ASSUME IInv, GetServerStatus PROVE IInv'
<1> USE DEF GetServerStatus, StatusOf
<1>1. TypeOK' /\ StartingInv'
  BY DEF IInv, TypeOK, StartingInv, Registered
<1>2. RegisteredInv' /\ NoStrayServer'
  BY DEF IInv, RegisteredInv, Registered, NoStrayServer
<1>3. OfflineIsTrue'
  BY DEF OfflineIsTrue, Running
<1> QED
  BY <1>1, <1>2, <1>3 DEF IInv

\* Groups, launches and games are not what the invariant relates.
LEMMA BystanderInv ==
  ASSUME IInv, TypeOK', UNCHANGED <<servers, server_status, starting, procs>>
  PROVE  IInv'
BY DEF IInv, StartingInv, RegisteredInv, Registered, NoStrayServer, OfflineIsTrue, Running

LEMMA ServerExitsInv == ASSUME IInv, NEW p \in Pids, ServerExits(p) PROVE IInv'
<1> USE DEF ServerExits
<1>1. \A q \in Pids : procs'[q] # None => procs'[q] = procs[q]
  BY DEF End
<1>2. TypeOK'
  BY EndType DEF IInv, TypeOK
<1>3. StartingInv'
  BY <1>1 DEF IInv, TypeOK, StartingInv, Registered
<1>4. RegisteredInv'
  <2>1. \A g \in Registered : servers[g].pid \in Pids
    BY DEF IInv, TypeOK, Registered
  <2> QED
    BY <1>1, <2>1 DEF IInv, RegisteredInv, Registered
<1>5. NoStrayServer'
  BY <1>1 DEF IInv, NoStrayServer
<1>6. OfflineIsTrue'
  BY <1>1 DEF IInv, TypeOK, OfflineIsTrue, Running
<1> QED
  BY <1>2, <1>3, <1>4, <1>5, <1>6 DEF IInv

LEMMA RestartInv == ASSUME ServersAssumption, IInv, OrchestratorRestart PROVE IInv'
<1> USE DEF OrchestratorRestart
<1>1. TypeOK'
  BY DEF IInv, TypeOK
<1>2. StartingInv' /\ RegisteredInv' /\ OfflineIsTrue'
  BY DEF StartingInv, RegisteredInv, Registered, OfflineIsTrue, Running
<1>3. NoStrayServer'
  BY DEF NoStrayServer, IInv, TypeOK
<1> QED
  BY <1>1, <1>2, <1>3 DEF IInv

LEMMA NextInv == ServersAssumption /\ IInv /\ [Next]_vars => IInv'
<1> SUFFICES ASSUME ServersAssumption, IInv, [Next]_vars PROVE IInv'
  OBVIOUS
<1>1. ASSUME NEW g \in Groups, StartRefused(g) PROVE IInv'
  BY <1>1, StartRefusedInv
<1>2. ASSUME NEW g \in Groups, StartSpawns(g) PROVE IInv'
  BY <1>2, StartSpawnsInv
<1>3. ASSUME NEW g \in Groups, Stop(g) PROVE IInv'
  BY <1>3, StopInv
<1>4. ASSUME NEW g \in Groups, DeleteGroup(g) PROVE IInv'
  <2>1. TypeOK'
    BY <1>4 DEF DeleteGroup, IInv, TypeOK
  <2> QED
    BY <1>4, <2>1, BystanderInv DEF DeleteGroup
<1>5. ASSUME NEW g \in Groups, LaunchGroup(g) \/ LaunchRig(g) PROVE IInv'
  <2>1. 0 \in Offsets
    BY FS_CardinalityType DEF ServersAssumption, Offsets
  <2>2. LaunchOffset(g) \in Offsets
    BY <2>1 DEF LaunchOffset, DefaultOffset, Running, IInv, TypeOK
  <2>3. TypeOK'
    BY <1>5, <2>1, <2>2 DEF LaunchGroup, LaunchRig, DefaultOffset, IInv, TypeOK
  <2> QED
    BY <1>5, <2>3, BystanderInv DEF LaunchGroup, LaunchRig
<1>6. ASSUME StopAll \/ UpdateStopsAll PROVE IInv'
  BY <1>6, StopAllInv
<1>7. ASSUME GetServerStatus PROVE IInv'
  BY <1>7, StatusInv
<1>8. ASSUME HealthCheck PROVE IInv'
  BY <1>8, StartSucceedsInv, StartFailsInv DEF HealthCheck
<1>9. ASSUME NEW l \in launches, Join(l) PROVE IInv'
  <2>1. l.group \in Groups
    BY DEF IInv, TypeOK
  <2>2. TypeOK'
    BY <1>9, <2>1 DEF Join, Listening, IInv, TypeOK
  <2> QED
    BY <1>9, <2>2, BystanderInv DEF Join
<1>10. ASSUME NEW g \in Groups, GameEnds(g) PROVE IInv'
  <2>1. TypeOK'
    BY <1>10 DEF GameEnds, IInv, TypeOK
  <2> QED
    BY <1>10, <2>1, BystanderInv DEF GameEnds
<1>11. ASSUME NEW p \in Pids, ServerExits(p) PROVE IInv'
  BY <1>11, ServerExitsInv
<1>12. ASSUME OrchestratorRestart PROVE IInv'
  BY <1>12, RestartInv
<1>13. ASSUME UNCHANGED vars PROVE IInv'
  <2>1. TypeOK'
    BY <1>13 DEF vars, IInv, TypeOK
  <2> QED
    BY <1>13, <2>1, BystanderInv DEF vars
<1> QED
  BY <1>1, <1>2, <1>3, <1>4, <1>5, <1>6, <1>7, <1>8, <1>9, <1>10, <1>11, <1>12, <1>13
  DEF Next, ServerHandlers, Outside
------------------------------------------------------------------------------
(***************************************************************************)
(* The theorems.                                                           *)
(***************************************************************************)
LEMMA InvHolds == Spec => []IInv
<1> USE ServersAssumption
<1> QED
  BY InitInv, NextInv, PTL DEF Spec

\* Every reachable state of the manager is well typed: the offsets it hands
\* out never exceed the number of groups (acserver.py:119-125).
THEOREM ServersTypeCorrect == Spec => []TypeOK
<1>1. IInv => TypeOK
  BY DEF IInv
<1> QED
  BY <1>1, InvHolds, PTL

\* Every server this orchestrator has started and that runs can be stopped by
\* it (acserver.py:383-402).
THEOREM NoStrayServerEver == Spec => []NoStrayServer
<1>1. IInv => NoStrayServer
  BY DEF IInv
<1> QED
  BY <1>1, InvHolds, PTL

\* Two servers started by this orchestrator that run have different ports
\* (acserver.py:114-125).
THEOREM NoPortClashEver == Spec => []NoPortClash
<1>1. IInv => NoPortClash
  <2> SUFFICES ASSUME IInv, NEW p \in Pids, NEW q \in Pids, p # q,
                      procs[p] # None, procs[q] # None, procs[p].child, procs[q].child
               PROVE  procs[p].offset # procs[q].offset
    BY DEF NoPortClash
  <2> USE DEF IInv
  <2> DEFINE Known(r) == /\ procs[r].group \in Registered
                         /\ servers[procs[r].group].pid = r
                         /\ servers[procs[r].group].offset = procs[r].offset
  <2>1. ASSUME NEW r \in Pids, procs[r] # None, procs[r].child, starting = None \/ starting.pid # r
        PROVE  Known(r)
    <3>1. servers[procs[r].group] # None /\ servers[procs[r].group].pid = r
      BY <2>1 DEF NoStrayServer
    <3>2. PICK g \in Registered : procs[r].group = g /\ servers[g].pid = r
      BY <2>1, <3>1 DEF TypeOK, Registered
    <3>3. procs[servers[g].pid] =
            [group |-> g, offset |-> servers[g].offset, child |-> TRUE]
      BY <2>1, <3>2 DEF RegisteredInv
    <3> QED
      BY <3>2, <3>3
  <2>2. CASE starting # None /\ starting.pid = p
    BY <2>1, <2>2 DEF StartingInv
  <2>3. CASE starting # None /\ starting.pid = q
    BY <2>1, <2>3 DEF StartingInv
  <2>4. CASE starting = None \/ (starting.pid # p /\ starting.pid # q)
    <3>1. Known(p) /\ Known(q)
      BY <2>1, <2>4
    <3> QED
      BY <3>1 DEF RegisteredInv
  <2> QED
    BY <2>2, <2>3, <2>4
<1> QED
  BY <1>1, InvHolds, PTL

\* A status shown as offline is true of the registered servers
\* (server.py:50-116).
THEOREM OfflineIsAlwaysTrue == Spec => []OfflineIsTrue
<1>1. IInv => OfflineIsTrue
  BY DEF IInv
<1> QED
  BY <1>1, InvHolds, PTL

\* The manager implements ServerLeases: a step grants a free offset to a group
\* without one, takes offsets away, or leaves them alone.
THEOREM ServersImplementLeases == Spec => ImplementsLeases
<1> DEFINE lease == [g \in Groups |-> IF servers[g] = None THEN None ELSE servers[g].offset]
<1> USE ServersAssumption
<1>1. Init => Leases!LInit
  BY DEF Init, Leases!LInit
<1>2. IInv /\ [Next]_vars => [Leases!LNext]_lease
  <2> SUFFICES ASSUME IInv, [Next]_vars PROVE Leases!LNext \/ lease' = lease
    OBVIOUS
  <2>1. ASSUME NEW gs \in SUBSET Groups,
               servers' = [g \in Groups |-> IF g \in gs THEN None ELSE servers[g]]
        PROVE  Leases!LNext
    <3>1. Leases!Release(gs)
      BY <2>1 DEF Leases!Release
    <3> QED
      BY <3>1 DEF Leases!LNext
  <2>2. ASSUME NEW g \in Groups, StartRefused(g) \/ Stop(g) PROVE Leases!LNext
    BY <2>1, <2>2 DEF StartRefused, Stop, StopServers
  <2>3. ASSUME NEW g \in Groups, StartSpawns(g) PROVE Leases!LNext
    <3>1. servers' = [h \in Groups |-> IF h \in {g} THEN None ELSE servers[h]]
      BY <2>3 DEF StartSpawns, IInv, TypeOK
    <3>2. {g} \in SUBSET Groups
      OBVIOUS
    <3> QED
      BY <2>1, <3>1, <3>2, Zenon
  <2>4. ASSUME StopAll \/ UpdateStopsAll PROVE Leases!LNext
    BY <2>1, <2>4 DEF StopAll, UpdateStopsAll, StopServers
  <2>5. ASSUME OrchestratorRestart PROVE Leases!LNext
    <3>1. servers' = [g \in Groups |-> IF g \in Groups THEN None ELSE servers[g]]
      BY <2>5 DEF OrchestratorRestart
    <3> QED
      BY <2>1, <3>1
  <2>6. ASSUME StartSucceeds PROVE Leases!LNext
    <3>1. PICK g \in Groups, o \in Offsets : starting.group = g /\ starting.offset = o
      BY <2>6 DEF StartSucceeds, IInv, TypeOK
    <3>2. servers' = [servers EXCEPT ![g] = [offset |-> o, pid |-> starting.pid]]
      BY <2>6, <3>1 DEF StartSucceeds
    <3>3. servers[g] = None /\ \A h \in Registered : servers[h].offset # o
      BY <2>6, <3>1 DEF StartSucceeds, IInv, StartingInv
    <3>4. o \in Int /\ starting.pid \in Pids
      BY <2>6, FS_CardinalityType DEF StartSucceeds, IInv, TypeOK, Offsets
    <3>5. [offset |-> o, pid |-> starting.pid] # None /\ o # None
      BY <3>4 DEF ServersAssumption
    <3>6. lease[g] = None /\ \A h \in Groups : lease[h] # o
      BY <3>3, <3>5 DEF Registered
    <3>7. lease' = [lease EXCEPT ![g] = o]
      BY <3>2, <3>5 DEF IInv, TypeOK
    <3>8. Leases!Grant(g, o)
      BY <3>6, <3>7 DEF Leases!Grant
    <3> QED
      BY <3>8 DEF Leases!LNext
  <2>7. ASSUME UNCHANGED servers PROVE lease' = lease
    BY <2>7
  <2>8. \/ \E g \in Groups : StartRefused(g) \/ Stop(g) \/ StartSpawns(g)
        \/ StopAll \/ UpdateStopsAll \/ OrchestratorRestart \/ StartSucceeds
        \/ UNCHANGED servers
    BY DEF Next, ServerHandlers, HealthCheck, Outside, vars, DeleteGroup, LaunchGroup,
           LaunchRig, GetServerStatus, StartFails, Join, GameEnds, ServerExits
  <2> QED
    BY <2>2, <2>3, <2>4, <2>5, <2>6, <2>7, <2>8
<1> QED
  BY <1>1, <1>2, InvHolds, PTL DEF Spec, ImplementsLeases, Leases!LSpec
==============================================================================
