CONSTANTS
  t1 = t1
  t2 = t2
  t3 = t3
  HEAD = HEAD
  main = main
  dev = dev
  v0 = v0
  v1 = v1
  v2 = v2
  None = None
  NoTx = NoTx
  Tx = {t1, t2}
  Reader = {}
  Name <- MCName
  Packable <- MCPackable
  AutoLog <- MCName
  Oid <- MCOid
  Scenario <- RacingScenario
SPECIFICATION Spec
CHECK_DEADLOCK FALSE
INVARIANTS CommitSeesExpected
