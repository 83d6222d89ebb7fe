CONSTANTS
  IpcPoints = {}
  PRIORITY_LEVELS = 2
  PID_MAX = 3
  NICE_DEFAULT = 1
  Signals = {15}
  MAX_TICK = 3
  MAX_SLEEP = 2
  MAX_QUEUED = 2
  Calls = {"yield", "clone", "spawn", "kill", "nanosleep", "alarm", "sigaction", "setpriority", "wait", "exit"}
SPECIFICATION Spec
INVARIANTS
  TypeOK
  QueueExact
PROPERTIES
  NoEarlyWakeup
