SPECIFICATION BenchSpec
CONSTANTS
  p1 = p1
  p2 = p2
  FrameNumMod = 4
  PocMod = 8
  IdrPidMod = 2
  GopSizes = {1, 3}
  Params = {p1}
  Sizes = {2, 3, 4}
  Widths <- MCWidths
  Heights <- MCHeights
  Levels <- MCLevels
  Qps <- MCQps
  Bitrates <- MCBitrates
  ClkRates <- MCClkRates
  Bytes <- MCBytes
  OutSizes <- MCOutSizes
  MaxRbsp = 7
INVARIANTS
  ReadsReference
  DecoderInStep
  GopEnds
  BuffersBalanced
  
  DescribesStream
  HeadersFit
  HardwareWatchdogFirst
  NoStartCodeInside
  DecodesBack
CONSTRAINT SessionBound
