SPECIFICATION InputSpec
CONSTANTS
  Nodes = {0, 1, 2}
  Kinds <- MCKinds
  MaxTries = 2
  MaxRemove = 1
  None = None
PROPERTIES TouchComes PowerKeyIsRead
CHECK_DEADLOCK FALSE
