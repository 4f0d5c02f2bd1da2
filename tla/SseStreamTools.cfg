SPECIFICATION StreamSpec
CONSTANTS
  Tool = {"t1", "t2"}
  MaxInputs = 3
  KiroWellBehaved = TRUE
PROPERTIES
  DeltasInsideTheirBlock
CHECK_DEADLOCK FALSE
