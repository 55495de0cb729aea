\* Two rigs, two rooms: assignments, copies of older ones under way, clients that
\* come, roam and go, channels that are not made, links and servers that fail.
SPECIFICATION FairSpec
INVARIANTS TypeOK
PROPERTIES AssignedSettles StaysInRoom
CONSTANTS
  Rigs = {r1, r2}
  Rooms = {a, b}
  Root = root
  None = None
