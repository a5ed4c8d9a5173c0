CONSTANTS
  None = None
  Worlds <- SkippingShallow
  Packs <- NoPacks
  Jobs <- NoJobs
SPECIFICATION Spec
INVARIANTS NegotiatorNeverPanics
CHECK_DEADLOCK FALSE
