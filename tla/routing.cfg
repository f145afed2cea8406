SPECIFICATION FairSpec
CONSTANTS
  Tasks = {1, 2}
  Keys = {k}
  Requests <- MCRequests
  cpu = cpu
  gpu = gpu
  web = web
  text = text
  html = html
  a = a
  b = b
  ocr = ocr
  reader = reader
  pl = pl
  Backends = {ocr, reader}
  Capability <- MCCapability
  Builtin = {ocr}
  Pipelines = {pl}
  Versions = {1, 2}
  Definitions <- MCDefinitions
  Default <- MCDefault
  DefaultId = pl
  Publishers = {p1}
  BatchSize = 1
  GraphNames = {a, b, c}
  None = None
  MaxUpdates = 2
  MaxFaults = 1
INVARIANTS AnswersAgree GraphsAreExecutable
PROPERTIES RoutedOnce RoutableTasksAreRouted
CHECK_DEADLOCK FALSE
