\* A group is launched while its server does not run, and another group's does.
SPECIFICATION Spec
INVARIANTS NoStrangers
CONSTANTS
  Groups = {g1, g2}
  Pids = {p1, p2}
  None = None
  Restarts = FALSE
  Deletions = FALSE
