SPECIFICATION FairSpec
CONSTANTS
  c1 = c1
  c2 = c2
  NoCtx = NoCtx
  Ctxs <- MCCtxs
  NumJobs = 3
  Owner <- MCOwner3
  Expiry = "any"
  LateDone = TRUE
INVARIANTS
  OneOwner
  PowerBalanced
  FinisherClocked
  SoftResetSparesGoodFrames
  CoreOnLiveBuffers
PROPERTIES
  FramesLive
  EncoderNotStuck
CONSTRAINT StrayBound
