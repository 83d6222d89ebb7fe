CONSTANTS
  IpcPoints = {}
  PRIORITY_LEVELS = 1
  PID_MAX = 4
  NICE_DEFAULT = 0
  Signals = {15, 18, 19}
  MAX_TICK = 0
  MAX_SLEEP = 0
  MAX_QUEUED = 2
  Calls = {"yield", "fork", "exit", "wait", "waitpid", "wnohang", "kill"}
SPECIFICATION Spec
INVARIANTS
  NoMissedExit
  OrphansAdopted
  QueueExact
  OneRunning
  NoPanic
PROPERTIES
  StoppedUntilContinued
  ZombieOnlyReaped
