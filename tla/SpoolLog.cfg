\* Two writers, whose directory can or cannot always be listed, append four frames to
\* segments of one frame under a budget of two segments.
SPECIFICATION Spec
CONSTANTS
  Frames = {f1, f2, f3, f4, f5}
  Oversized = {f5}
  NoFrame = none
  Writers = {w1, w2}
  SegmentMaxFrames = 1
  MaxSegments = 2
  ReadDirFails = TRUE
SYMMETRY Symmetry
INVARIANTS
  TypeOK
  OneFilePerGeneration
  SegmentBudget
  RemovalsCounted
  RealTimeOrder
PROPERTIES
  NewestNeverRecedes
  RescansForProgress
\* There may be nothing left to append.
CHECK_DEADLOCK FALSE
