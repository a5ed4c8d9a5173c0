CONSTANTS
  t1 = t1
  t2 = t2
  t3 = t3
  HEAD = HEAD
  main = main
  dev = dev
  v0 = v0
  v1 = v1
  v2 = v2
  None = None
  NoTx = NoTx
  Tx = {t1, t2, t3}
  Reader = {r}
  Name <- MCName
  Packable <- MCPackable
  AutoLog <- MCName
  Oid <- MCOid
  Scenario <- SafetyScenarios
SPECIFICATION FairSpec
CHECK_DEADLOCK FALSE
INVARIANTS TypeOK NoUpdateIsSkipped LogsMatchRefs RefNeverVanishes PackedRefsSerialise FindsExistingRefs
PROPERTIES PreparedRefsAreFrozen Terminates
