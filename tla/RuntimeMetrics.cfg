\* A handler serves a request, and the runtime collects garbage a second time,
\* while metricsLoop ticks and the application asks for one point itself.
SPECIFICATION FairSpec
CONSTANTS
  Handlers = {h1}
  Callers = {caller}
  Loop = loop
  MaxRequests = 1
  MaxCollections = 2
  MaxCalls = 1
INVARIANTS
  RequestsOnce
  WindowsAddUp
PROPERTIES
  Drained
CHECK_DEADLOCK FALSE
