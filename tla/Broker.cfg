\* Redeploys while kanbans are forwarded and one comes from another device.
CONSTANTS
  Nil = Nil
  Both = Both
  Only = Only
  Unit <- MCUnit
  Setting <- MCSetting
  NoSetting = NoSetting
  Declared <- MCDeclared
  Startup <- MCStartup
  Always <- MCAlways
  Multiple <- MCMultiple
  NextService <- MCLocal
  DeviceName = {"", "self", "other"}
  NoName = ""
  Devices <- MCDevices
  OwnName <- MCOwnName
  Carried = {"other"}
  w1 = w1
  w2 = w2
  w3 = w3
  Watcher = {w1, w2, w3}
  MaxApply = 1
  MaxKanban = 1
  MaxReceive = 1
SPECIFICATION Spec
SYMMETRY Symmetry
CHECK_DEADLOCK FALSE
INVARIANTS SettingInStep OneWatcher ForwardedOncePerDeploy
PROPERTY UndeclaredStartIsStale
