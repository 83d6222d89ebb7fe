CONSTANTS
  PRIORITY_LEVELS = 1
  PID_MAX = 3
  NICE_DEFAULT = 0
  Signals = {13, 17}
  MAX_TICK = 0
  MAX_SLEEP = 0
  MAX_QUEUED = 2
  Calls = {"fork", "exit", "wait", "kill", "yield"}
  IpcPoints = {"read", "write"}
  PIPE_BUFFER_CAPACITY = 2
  MAX_IO = 3
  Readers = {2}
  Writers = {1}
  PipeCalls = {"read_nonblock", "write", "close"}
SPECIFICATION PipeSpec
INVARIANTS
  WriterBlockedForCause
CHECK_DEADLOCK FALSE
