SPECIFICATION Spec
CONSTANTS
  Goroutines = {g1, g2}
  Programs = {
    {"serve", "answer", "http", "run"},
    {"serve", "http", "bind"},
    {"serve", "skip", "http", "file"},
    {"serve", "messages"},
    {"run", "sql", "aws", "open", "file"} }
  Requests = {r1, r2}
  Messages = {m1, m2}
  MaxSpans = 4
  MaxDepth = 3
  MaxDelivered = 2
  MaxTries = 3
SYMMETRY Symmetry
INVARIANTS
  OneTrace
  ParentIsCause
  OutcomeTold
  OpenOnStack
CHECK_DEADLOCK FALSE
