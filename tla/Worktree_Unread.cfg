CONSTANTS
  None = None
  Checkouts <- Colliding
  Walks <- NoWalks
SPECIFICATION Spec
INVARIANTS ResultsAreConsumed
CHECK_DEADLOCK FALSE
