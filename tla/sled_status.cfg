\* The fair threads of the agent with commands, manual starts, restarts.
SPECIFICATION FairSpec
PROPERTIES RacingEnds RacingShown StandaloneTracksOrchestrator
CONSTANTS
  Cars = {}
  DefaultCar = None
  None = None
  Actions = {"KILL_RACE", "LAUNCH_RACE", "SETUP_MODE"}
  PulledStatuses = {"ready"}
  ManualStarts = TRUE
  Resets = FALSE
  Threshold = 2
  MaxInbox = 1
  MaxProcesses = 1
