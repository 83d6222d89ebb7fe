CONSTANTS
  PRIORITY_LEVELS = 1
  PID_MAX = 4
  NICE_DEFAULT = 0
  Signals = {15}
  MAX_TICK = 2
  MAX_SLEEP = 1
  MAX_QUEUED = 2
  Calls = {"fork", "exit", "wait", "nanosleep"}
  IpcPoints = {}
SPECIFICATION BlockingSpec
PROPERTIES
  SleeperWakes
CHECK_DEADLOCK FALSE
