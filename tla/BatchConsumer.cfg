\* Five messages, the last two large; batches of at most three messages or four
\* bytes: the first limit alone fills <<1, 2, 3>>, the second alone <<4, 5>>.
SPECIFICATION FairSpec
CONSTANTS
  MaxMessages = 5
  Large = {4, 5}
  MaxRecords = 3
  MaxBytes = 4
INVARIANTS
  FlushedOnceInOrder
  NothingHeldBack
  SpansEndWithFlush
  OneRunningPerAsker
PROPERTIES
  AgedFlushesAreOld
  EventuallyFlushed
\* The claim ends.
CHECK_DEADLOCK FALSE
