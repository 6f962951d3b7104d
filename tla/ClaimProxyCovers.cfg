\* One worker that processes one message at a time.
SPECIFICATION Spec
CONSTANTS
  MaxMessages = 2
  Workers = {w1}
  Proxies = {p1}
  NoProxy = none
  Leaving = {}
INVARIANTS
  SpanCoversProcessing
CHECK_DEADLOCK FALSE
