SPECIFICATION Spec
CONSTANTS
  t1 = t1
  t2 = t2
  Unset = Unset
  Colon = ":"
  Space = " "
  Special <- MCSpecial
  Mark <- MCMark
  Note <- MCNote
  Texts <- MCTexts
  Expand <- MCExpand
  Symbols <- MCSymbols
  Declared <- MCDeclared
  DefaultDb <- MCPlatform
  AirflowDb <- MCAirflow
  Terminals <- TwoTerminals
  Exported <- SecondExports
  EnvFiles <- WithNote
  OldVolume = FALSE
  EditWhileBusy = TRUE
  DaemonMoves = FALSE
  MaxDiscards = 1
  MaxCrashes = 0
INVARIANTS RecordTellsTheTruth OkIsRight RefusalIsRight
PROPERTIES OnlyCleanDiscards
