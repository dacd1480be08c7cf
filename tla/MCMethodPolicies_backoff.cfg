SPECIFICATION Spec
CONSTANTS
  read = read
  write = write
  Method = {read, write}
  Setting = {"timeout_ms"}
  NonZero = {"timeout_ms"}
  BuiltIn <- BuiltIns
  Unset = Unset
  BuiltInMin = 200
  BuiltInMax = 2000
  Configs <- AllConfigs
INVARIANT AcceptedBackoffsBuild
CHECK_DEADLOCK FALSE
