\* Requests one after the other over a network that duplicates and delays.
SPECIFICATION CSpec
INVARIANTS ControlTypeOK StoppedAfterKill
CONSTANTS
  RigIds = {r1}
  GroupIds = {}
  Cars = {}
  Drivers = {}
  Tracks = {}
  Modes = {}
  SledStatuses = {"idle", "setup", "ready", "racing", "syncing"}
  KioskStatuses = {}
  UdpStatuses = {}
  Actions = {"KILL_RACE", "LAUNCH_RACE"}
  LapCounts = {}
  LapTimes = {}
  SledIp = SledIp
  WebKiosk = WebKiosk
  AdminHost = AdminHost
  None = None
  NoRig = NoRig
  NoGroup = NoGroup
  StaleTimeout = 1
  KillGuard = 1
  DowngradeWindow = 1
  MaxBatches = 1
  MaxLaps = 0
  Me = r1
  DefaultCar = None
  ManualStarts = FALSE
  Threshold = 1
  MaxInbox = 1
  MaxProcesses = 1
  MaxRetries = 2
  Lossy = FALSE
  SledRestarts = FALSE
  MaxLate = 1
  Pages = FALSE
