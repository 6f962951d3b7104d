SPECIFICATION Spec
CONSTANTS
  MaxFields = 5
  MaxMembers = 3
  Carriers <- MCCarriers
  MaxHops = 3
  TraceIdBytes = 2
  SpanIdBytes = 2
  MaxTracestateEntries = 2
  MaxBaggageEntries = 2
  MaxBaggageHeaderBytes = 11
  MaxBaggageValueBytes = 4
PROPERTIES
  HandedOn
  Settled
CHECK_DEADLOCK FALSE
