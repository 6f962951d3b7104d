\* Two workers, one of which may leave, and a claim of four messages.  Two names for proxies, so that a
\* second one could start.
SPECIFICATION FairSpec
CONSTANTS
  MaxMessages = 4
  Workers = {w1, w2}
  Proxies = {p1, p2}
  NoProxy = none
  Leaving = {w2}
INVARIANTS
  NothingSwallowed
  OneOpenSpan
PROPERTIES
  ClaimSettles
\* The claim ends.
CHECK_DEADLOCK FALSE
