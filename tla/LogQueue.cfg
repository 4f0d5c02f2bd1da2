SPECIFICATION FairSpec
CONSTANTS
  Configs <- MCConfigs
  MaxRows = 7
INVARIANTS
  TypeOK
  Conservation
  NoRowStranded
  QueueBounded
PROPERTIES
  WrittenInOrder
  ShutdownLeavesOnlyLateRows
  RowsSettle
