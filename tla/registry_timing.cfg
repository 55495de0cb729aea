\* One rig with every status, kiosk, dashboard and command; the timers of the
\* kill guard, the downgrade rule and the reaper all run out, and the reaper
\* runs again and again.
SPECIFICATION FairSpec
INVARIANTS TypeOK KillGuardHolds
PROPERTIES SilentRigsRemoved
CONSTANTS
  RigIds = {r1}
  GroupIds = {g1}
  Cars = {"car"}
  Drivers = {"ann"}
  Tracks = {"track"}
  Modes = {"freeuse"}
  SledStatuses = {"idle", "setup", "ready", "racing", "syncing"}
  KioskStatuses = {"setup", "ready"}
  UdpStatuses = {"idle"}
  Actions = {"SETUP_MODE", "KILL_RACE", "LAUNCH_RACE", "SYNC_MODS"}
  LapCounts = {}
  LapTimes = {}
  SledIp = SledIp
  WebKiosk = WebKiosk
  AdminHost = AdminHost
  None = None
  NoRig = NoRig
  NoGroup = NoGroup
  StaleTimeout = 3
  KillGuard = 3
  DowngradeWindow = 2
  MaxBatches = 1
  MaxLaps = 0
CHECK_DEADLOCK TRUE
