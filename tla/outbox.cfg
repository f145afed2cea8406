SPECIFICATION FairSpec
CONSTANTS
  e1 = e1  e2 = e2  e3 = e3  t1 = t1  p1 = p1  p2 = p2  p3 = p3
  Events = {e1, e2}
  Tasks = {t1}
  TaskOf <- OneTask
  Failures = {}
  Subscribed = {e1, e2}
  Dispatchers = {p1}
  Listers = {p3}
  NoEvent = NoEvent
  MaximumAttempts = 1
  ClaimTimeout = 1
  InitialRetry = 0  MaximumRetry = 2
  BatchSize = 1
  MaterializeLimit = 2
  MaxPass = 1
  MaxResends = 0
  MaxCrashes = 1
INVARIANTS NoCallbackLost
  
