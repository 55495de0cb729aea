\* Every command, failing posts and pulls, restarts: no manual starts.
SPECIFICATION Spec
INVARIANTS TypeOK OneRace KillEndsRace
CONSTANTS
  Cars = {}
  DefaultCar = None
  None = None
  Actions = {"SETUP_MODE", "KILL_RACE", "LAUNCH_RACE", "SYNC_MODS", "UPDATE"}
  PulledStatuses = {"idle", "ready"}
  ManualStarts = FALSE
  Resets = TRUE
  Threshold = 1
  MaxInbox = 1
  MaxProcesses = 2
