CONSTANTS
  None = None
  Checkouts <- AllCheckouts
  Walks <- AllWalks
SPECIFICATION Spec
INVARIANTS TypesOK NotThroughLinks  
PROPERTIES CheckoutEnds
\* Calls return.
CHECK_DEADLOCK FALSE
