SPECIFICATION Spec
CONSTANTS
  WIDTH = 5
  BYTE = 2
  UINT_MAX = 255
  POLY <- SmallPoly
  DEFAULT_WINDOW_SIZE = 3
  window_size = 3
  avg_segment_size = 2
  min_segment_size = 2
  max_segment_size = 4
  MaxStream = 7
  MaxCall = 3
INVARIANTS
  TypeOK
  FingerprintOfWindow
  CutsDependOnContents
  SegmentSizes
