\* Posts, dispatches and the orchestrator's memory get lost; the driver toggles
\* ready at the kiosk.
SPECIFICATION FairControl
PROPERTIES DashboardShowsRace
CONSTANTS
  RigIds = {r1}
  GroupIds = {}
  Cars = {}
  Drivers = {}
  Tracks = {}
  Modes = {}
  SledStatuses = {"idle", "setup", "ready", "racing", "syncing"}
  KioskStatuses = {"ready", "setup"}
  UdpStatuses = {}
  Actions = {"KILL_RACE"}
  LapCounts = {}
  LapTimes = {}
  SledIp = SledIp
  WebKiosk = WebKiosk
  AdminHost = AdminHost
  None = None
  NoRig = NoRig
  NoGroup = NoGroup
  StaleTimeout = 1
  KillGuard = 1
  DowngradeWindow = 1
  MaxBatches = 1
  MaxLaps = 0
  Me = r1
  DefaultCar = None
  ManualStarts = TRUE
  Threshold = 1
  MaxInbox = 1
  MaxProcesses = 1
  MaxRetries = 1
  Lossy = TRUE
  SledRestarts = FALSE
  MaxLate = 0
  Pages = TRUE
