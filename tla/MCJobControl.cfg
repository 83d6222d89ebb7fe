CONSTANTS
  IpcPoints = {}
  PRIORITY_LEVELS = 1
  PID_MAX = 3
  NICE_DEFAULT = 0
  Signals = {18, 19}
  MAX_TICK = 0
  MAX_SLEEP = 0
  MAX_QUEUED = 2
  Calls = {"yield", "fork", "fork_oom", "exit", "wait", "kill", "raise", "sigaction"}
SPECIFICATION Spec
INVARIANTS
  IndInv
  MaskInv
  ReadyIsQueued
CHECK_DEADLOCK FALSE
