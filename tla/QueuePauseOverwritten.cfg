SPECIFICATION Spec
CONSTANTS
  t1 = t1
  t2 = t2
  t3 = t3
  f1 = f1
  f2 = f2
  w1 = w1
  w2 = w2
  TaskIds = {t1}
  Workers = {w1, w2}
  MaxConcurrent = 2
  MaxRetries = 1
  Files = {f1}
  Urgency <- MCUrgency
  UserOps = {"add", "pause", "resume"}
  MaxUserActions = 4
  MaxCopies = 0
  NoId = NoId
  NoWorker = NoWorker
PROPERTY PauseIsPreserved
