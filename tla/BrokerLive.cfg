\* One deployment without kanbans from other devices: everything goes on.
CONSTANTS
  Nil = Nil
  Both = Both
  Only = Only
  Unit <- MCUnitAndRemote
  Setting <- MCSetting
  NoSetting = NoSetting
  Declared <- MCDeclared
  Startup <- MCStartup
  Always <- MCAlways
  Multiple <- MCMultiple
  NextService <- MCDeviceAndLocal
  DeviceName = {"", "self", "other"}
  NoName = ""
  Devices <- MCAlwaysOther
  OwnName <- MCOwnName
  Carried = {""}
  w1 = w1
  w2 = w2
  w3 = w3
  Watcher = {w1, w2, w3}
  MaxApply = 0
  MaxKanban = 2
  MaxReceive = 0
SPECIFICATION FairSpec
CHECK_DEADLOCK FALSE
PROPERTIES DeployCompletes OutputIsTaken StartIsServed
