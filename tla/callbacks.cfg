SPECIFICATION Spec
CONSTANTS
  e1 = e1  e2 = e2  e3 = e3  t1 = t1  p1 = p1  p2 = p2  p3 = p3
  Events = {e1}
  Tasks = {t1}
  TaskOf <- OneTask
  Failures = {e1}
  Subscribed = {e1}
  Dispatchers = {p1, p2}
  Listers = {}
  NoEvent = NoEvent
  MaximumAttempts = 2
  ClaimTimeout = 1
  InitialRetry = 1  MaximumRetry = 2
  BatchSize = 2
  MaterializeLimit = 1
  MaxPass = 2
  MaxResends = 1
  MaxCrashes = 1
INVARIANTS AuditNeverCollides StatusExplained RoundsBounded
SYMMETRY DispatcherSymmetry
