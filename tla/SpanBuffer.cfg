\* Safety, refinement and liveness at once.  Two application goroutines, spanLoop
\* and Shutdown share a buffer with room for two spans; the spool may fail and
\* recover at any time.  SpanBatchSize above the cap is lowered to it: two spans
\* fill both the batch and the buffer.
SPECIFICATION FairSpec
CONSTANTS
  Spans = {s1, s2, s3}
  Goroutines = {g1, g2}
  Loop = loop
  Main = main
  SpanBatchSize = 5
  SpanMaxBuffered = 2
  DefaultBatchSize = 2
  Background = TRUE
INVARIANTS
  TypeOK
  Accounted
  Bounded
PROPERTIES
  ShedsOnlyAtCap
  CleanShutdown
  Implements
  Settles
  ShutdownReturns
\* Once Shutdown has returned the application may end no more spans.
CHECK_DEADLOCK FALSE
