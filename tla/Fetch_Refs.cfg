CONSTANTS
  None = None
  Worlds <- NoWorlds
  Packs <- NoPacks
  Jobs <- HeadToMain
SPECIFICATION Spec
PROPERTIES ResultingRefsAreValid
CHECK_DEADLOCK FALSE
