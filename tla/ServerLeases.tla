----------------------------- MODULE ServerLeases -----------------------------
(***************************************************************************)
(* What the AC server manager promises about ports: a group holds at most  *)
(* one port offset, no two groups hold the same one, and a group is given  *)
(* a new one only after it has given up the old one.                       *)
(***************************************************************************)
CONSTANTS Groups, Ports, None

VARIABLE lease  \* the port offset each group holds, or None

LInit == lease = [g \in Groups |-> None]

Grant(g, o) ==
  /\ lease[g] = None
  /\ \A h \in Groups : lease[h] # o
  /\ lease' = [lease EXCEPT ![g] = o]

Release(gs) ==
  lease' = [g \in Groups |-> IF g \in gs THEN None ELSE lease[g]]

LNext ==
  \/ \E g \in Groups, o \in Ports : Grant(g, o)
  \/ \E gs \in SUBSET Groups : Release(gs)

LSpec == LInit /\ [][LNext]_lease
==============================================================================
