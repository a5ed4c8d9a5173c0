CONSTANTS
  t1 = t1
  t2 = t2
  Absent = Absent
  A = A
  B = B
  C = C
  x = x
  y = y
  z = z
  Midx = Midx
SPECIFICATION Spec
INVARIANTS TypesOK NothingIsLost InInputOrder SnapshotIsRecent CreationWins LookupsFollowTheFile IncludesInPlace
PROPERTIES AllTerminate
\* Calls return; what is left then is the end of the behaviour.
CHECK_DEADLOCK FALSE
