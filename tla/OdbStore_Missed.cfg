CONSTANTS
  t1 = t1
  t2 = t2
  A = A
  B = B
  C = C
  x = x
  y = y
  z = z
  Midx = Midx
  None = None
  Thread <- MCThread
  Pack <- MCPack
  BySize <- MCBySize
  Holds <- MCHolds
  Scenario <- Sharing
SPECIFICATION Spec
INVARIANT FindsPresentObjects
