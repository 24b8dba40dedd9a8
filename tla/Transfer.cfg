SPECIFICATION Spec
CONSTANTS
  Attempts = {a1, a2}
  NoAttempt = NoAttempt
  FileSize = 5
  MinChunkSize = 2
  MaxChunkSize = 3
  MaxStarts = 2
  MaxCrashes = 1
SYMMETRY AttemptSymmetry
INVARIANTS
  TypeOK
  StoreIsPrefix
  CompletedIsWhole
  ResumeIsAccepted
PROPERTIES
  ChunksAreKept
  ImplementsContract
CHECK_DEADLOCK FALSE
