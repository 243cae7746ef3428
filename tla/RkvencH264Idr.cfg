SPECIFICATION Spec
CONSTANTS
  p1 = p1
  p2 = p2
  FrameNumMod = 256
  PocMod = 256
  IdrPidMod = 65536
  GopSizes = {1}
  Params = {p1}
  Sizes = {1}
INVARIANTS
  IdrRestartsFrameNum
