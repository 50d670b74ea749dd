\* Boot in default mode with a kanban from another device.
CONSTANTS
  Nil = Nil
  Both = Both
  Only = Only
  Unit <- MCUnitAndRemote
  Setting <- MCSetting
  NoSetting = NoSetting
  Declared <- MCDeclared
  Startup <- MCStartup
  Always <- MCAlways
  Multiple <- MCMultiple
  NextService <- MCDeviceAndLocal
  DeviceName = {"", "self", "other"}
  NoName = ""
  Devices <- MCAlwaysOther
  OwnName <- MCOwnName
  Carried = {""}
  w1 = w1
  w2 = w2
  w3 = w3
  Watcher = {w1, w2, w3}
  MaxApply = 0
  MaxKanban = 1
  MaxReceive = 1
SPECIFICATION FairSpec
CHECK_DEADLOCK FALSE
PROPERTY StartupServicesTried
