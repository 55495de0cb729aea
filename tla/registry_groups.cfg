\* Three rigs and two groups: membership while rigs register, go stale, come
\* back over HTTP or UDP, and the process dies.
SPECIFICATION Spec
INVARIANTS GroupsPartition GroupIdAgrees
PROPERTIES ImplementsAssignment
CONSTANTS
  RigIds = {r1, r2, r3}
  GroupIds = {g1, g2}
  Cars = {}
  Drivers = {}
  Tracks = {"track"}
  Modes = {}
  SledStatuses = {"idle"}
  KioskStatuses = {}
  UdpStatuses = {"idle"}
  Actions = {}
  LapCounts = {}
  LapTimes = {}
  SledIp = SledIp
  WebKiosk = WebKiosk
  AdminHost = AdminHost
  None = None
  NoRig = NoRig
  NoGroup = NoGroup
  StaleTimeout = 1
  KillGuard = 1
  DowngradeWindow = 1
  MaxBatches = 0
  MaxLaps = 0
SYMMETRY Symmetry
CHECK_DEADLOCK TRUE
