\* Two polls in flight, admin, player and race interleaved with the Tk thread;
\* setup and ready are to the window as idle.
SPECIFICATION FairSpec
INVARIANTS TypeOK LockedIsCovered RaceIsUncovered
PROPERTIES LockoutTakesHold
CONSTANTS
  Polls = {p1, p2}
  Statuses = {"idle", "racing"}
  MaxHides = 1
  MaxPending = 0
