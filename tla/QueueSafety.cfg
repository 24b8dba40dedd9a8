SPECIFICATION Spec
CONSTANTS
  t1 = t1
  t2 = t2
  t3 = t3
  f1 = f1
  f2 = f2
  w1 = w1
  w2 = w2
  TaskIds = {t1}
  Workers = {w1, w2}
  MaxConcurrent = 2
  MaxRetries = 0
  Files = {f1}
  Urgency <- MCUrgency
  UserOps = {"add", "pause", "resume", "cancel", "retry", "delete", "delete_files", "clear_completed", "clear_failed", "remove_terminal", "logout", "login", "shutdown", "crash"}
  MaxUserActions = 4
  MaxCopies = 1
  NoId = NoId
  NoWorker = NoWorker
SYMMETRY WorkerSymmetry
INVARIANTS
  TypeOK
  InFlightHasWorker
  RegistryIsExact
  OneLiveTransfer
PROPERTY CancelledIsRespected
CHECK_DEADLOCK FALSE
