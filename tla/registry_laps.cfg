\* One rig with telemetry in and out of a group, captures cut short, test laps of a
\* session of their own, deleted records and a cleared board, reaps and restarts.
SPECIFICATION BoardSpec
INVARIANTS DrivenUntilDeleted BestIsNoWorse
CONSTANTS
  RigIds = {r1}
  GroupIds = {g1}
  Cars = {}
  Drivers = {"ann"}
  Tracks = {"track"}
  Modes = {}
  SledStatuses = {"idle"}
  KioskStatuses = {}
  UdpStatuses = {}
  Actions = {}
  LapCounts = {1, 2}
  LapTimes = {1, 2}
  SledIp = SledIp
  WebKiosk = WebKiosk
  AdminHost = AdminHost
  None = None
  NoRig = NoRig
  NoGroup = NoGroup
  StaleTimeout = 1
  KillGuard = 1
  DowngradeWindow = 1
  MaxBatches = 0
  MaxLaps = 2
CHECK_DEADLOCK TRUE
