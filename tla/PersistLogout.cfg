SPECIFICATION Spec
CONSTANTS
  alice = alice
  bob = bob
  a1 = a1
  b1 = b1
  s1 = s1
  s2 = s2
  Accounts = {alice, bob}
  TaskIds = {a1, b1}
  Owner <- MCOwner
  Threads = {s1}
  MaxVersion = 1
  MaxSessions = 2
  NoAccount = NoAccount
INVARIANT SavedTasksSurvive
