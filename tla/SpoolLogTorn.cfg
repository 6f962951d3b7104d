\* Segments of several frames, writes that stop part way.
SPECIFICATION Spec
CONSTANTS
  Frames = {f1, f2, f3, f4}
  Oversized = {}
  NoFrame = none
  Writers = {w1, w2}
  SegmentMaxFrames = 3
  MaxSegments = 2
  ReadDirFails = FALSE
SYMMETRY Symmetry
INVARIANTS
  AckedReadable
CHECK_DEADLOCK FALSE
