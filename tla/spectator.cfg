\* The spectator is launched, relaunched, killed, ends by itself and is
\* forgotten by a restart; the rig is launched; every file of up to three lines.
SPECIFICATION FilesSpec
INVARIANTS FilesTypeOK SettingsRecoverable ReducedFromOwners RigKeepsOwnSettings
  WatchesActiveGroup
CONSTANTS
  Lines <- AllLines
  Files <- VideoFile
  Joinable = {g1, g2}
  None = None
  MaxLines = 3
