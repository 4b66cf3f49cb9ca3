SPECIFICATION Spec
CONSTANTS
  t1 = t1
  t2 = t2
  Unset = Unset
  Colon = ":"
  Space = " "
  Special <- MCSpecial
  Mark <- MCMark
  Note <- MCNote
  Texts <- MCTexts
  Expand <- MCExpand
  Symbols <- MCSymbols
  Declared <- MCDeclared
  DefaultDb <- MCPlatform
  AirflowDb <- MCAirflow
  Terminals <- OneTerminal
  Exported <- NoExports
  EnvFiles <- WaysToPut
  OldVolume = FALSE
  EditWhileBusy = FALSE
  DaemonMoves = FALSE
  MaxDiscards = 0
  MaxCrashes = 0
INVARIANTS WorkingVolumeIsNeverRefused
