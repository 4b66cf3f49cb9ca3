SPECIFICATION FairSpec
CONSTANTS
  t1 = t1
  t2 = t2
  Unset = Unset
  Colon = ":"
  Space = " "
  Special <- MCSpecial
  Mark <- MCMark
  Note <- MCNote
  Texts <- MCTexts
  Expand <- MCExpand
  Symbols <- MCSymbols
  Declared <- MCDeclared
  DefaultDb <- MCPlatform
  AirflowDb <- MCAirflow
  Terminals <- OneTerminal
  Exported <- NoExports
  EnvFiles <- AllEdits
  OldVolume = TRUE
  EditWhileBusy = FALSE
  DaemonMoves = TRUE
  MaxDiscards = 1
  MaxCrashes = 1
INVARIANTS TypeOK StartAgreesWithVolume ResetIsNotRefusedAgain
PROPERTIES VolumeIsMadeOnce CommandsEnd ResetMakesWhole
