--------------------------- MODULE GroupAssignment ---------------------------
(***************************************************************************)
(* What the registry promises about rig groups: a rig belongs to at most   *)
(* one open group, and only the operator's group requests move it.         *)
(* Heartbeats, commands, the reaper and a restart do not; the one          *)
(* exception is a crash that tears groups.json, after which no group is    *)
(* left.                                                                   *)
(***************************************************************************)
CONSTANTS RigIds, GroupIds, None

VARIABLES
  open,       \* the groups that exist
  assigned    \* the group of each rig, registered or not, or None

avars == <<open, assigned>>

AInit ==
  /\ open = {}
  /\ assigned = [r \in RigIds |-> None]

OpenGroup(g) ==
  /\ g \notin open
  /\ open' = open \cup {g}
  /\ UNCHANGED assigned

CloseGroup(g) ==
  /\ g \in open
  /\ open' = open \ {g}
  /\ assigned' = [r \in RigIds |->
                    IF assigned[r] = g THEN None ELSE assigned[r]]

Assign(g, r) ==
  /\ g \in open
  /\ assigned' = [assigned EXCEPT ![r] = g]
  /\ UNCHANGED open

Unassign(r) ==
  /\ assigned' = [assigned EXCEPT ![r] = None]
  /\ UNCHANGED open

ForgetAll ==
  /\ open' = {}
  /\ assigned' = [r \in RigIds |-> None]

ANext ==
  \/ \E g \in GroupIds : OpenGroup(g) \/ CloseGroup(g)
  \/ \E g \in GroupIds, r \in RigIds : Assign(g, r)
  \/ \E r \in RigIds : Unassign(r)
  \/ ForgetAll

ASpec == AInit /\ [][ANext]_avars

\* Every assigned rig is assigned to an open group.
AssignedToOpen == \A r \in RigIds : assigned[r] \in open \cup {None}
==============================================================================
