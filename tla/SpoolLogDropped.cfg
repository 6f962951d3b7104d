\* Segments of two frames, of which one may be in the directory.
SPECIFICATION Spec
CONSTANTS
  Frames = {f1, f2, f3}
  Oversized = {}
  NoFrame = none
  Writers = {w1, w2}
  SegmentMaxFrames = 2
  MaxSegments = 1
  ReadDirFails = FALSE
SYMMETRY Symmetry
INVARIANTS
  DroppedReportsFrames
CHECK_DEADLOCK FALSE
