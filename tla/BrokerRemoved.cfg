\* The same redeploys: are only services of the deployed setting started?
CONSTANTS
  Nil = Nil
  Both = Both
  Only = Only
  Unit <- MCUnit
  Setting <- MCSetting
  NoSetting = NoSetting
  Declared <- MCDeclared
  Startup <- MCStartup
  Always <- MCAlways
  Multiple <- MCMultiple
  NextService <- MCLocal
  DeviceName = {"", "self", "other"}
  NoName = ""
  Devices <- MCDevices
  OwnName <- MCOwnName
  Carried = {""}
  w1 = w1
  w2 = w2
  w3 = w3
  Watcher = {w1, w2, w3}
  MaxApply = 1
  MaxKanban = 1
  MaxReceive = 0
SPECIFICATION Spec
CHECK_DEADLOCK FALSE
PROPERTY StartsOnlyDeclared
