SPECIFICATION Spec
CONSTANTS
  c1 = c1
  c2 = c2
  NoCtx = NoCtx
  Ctxs <- MCCtxs
  NumJobs = 2
  Owner <- MCOwner2
  Expiry = "started"
  LateDone = FALSE
INVARIANTS
  NeverTouchesGoodFrame
