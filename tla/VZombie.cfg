CONSTANTS
  PRIORITY_LEVELS = 1
  PID_MAX = 3
  NICE_DEFAULT = 0
  Signals = {18, 19}
  MAX_TICK = 0
  MAX_SLEEP = 0
  MAX_QUEUED = 2
  Calls = {"yield", "fork", "exit", "wait", "kill", "raise", "sigaction"}
  IpcPoints = {}
SPECIFICATION Spec
PROPERTIES
  ZombieOnlyReaped
CHECK_DEADLOCK FALSE
