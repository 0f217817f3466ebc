CONSTANTS
  daemon = daemon
  window = window
  default = default
  other = other
  plain = plain
  changed = changed
  Processes = {daemon, window}
  Window = window
  Ids = {default, other}
  Default = default
  Values = {plain, changed}
  DefaultValue = plain
  Absent = Absent
  Torn = Torn
  MaxCrashes = 2
  MaxRemovals = 1
SPECIFICATION Spec
INVARIANTS
  FileStaysWhole
  OneFailurePerCrash
  SettingsSurvive
  ActiveExists
