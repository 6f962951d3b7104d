SPECIFICATION Spec
CONSTANTS
  MaxFields = 1
  MaxMembers = 3
  Carriers <- MCCarriers
  MaxHops = 3
  TraceIdBytes = 2
  SpanIdBytes = 2
  MaxTracestateEntries = 2
  MaxBaggageEntries = 2
  MaxBaggageHeaderBytes = 9
  MaxBaggageValueBytes = 4
PROPERTIES
  BaggageKept
CHECK_DEADLOCK FALSE
