\* Two groups, three processes: starts that fail at every point, stops, crashes,
\* full updates, deleted groups, launches and restarts of the orchestrator.
SPECIFICATION FairSpec
INVARIANTS TypeOK NoStrayServer NoPortClash OfflineIsTrue
PROPERTIES CrashNoticed ImplementsLeases
CONSTANTS
  Groups = {g1, g2}
  Pids = {p1, p2, p3}
  None = None
  Restarts = TRUE
  Deletions = TRUE
