SPECIFICATION FairSpec
CONSTANTS
  Id = {"o1", "o2"}
  MaxCalls = 3
  MaxVersion = 1
  maxOpenConns = 2
PROPERTIES ImplementsMemory CallsReturn
CHECK_DEADLOCK FALSE
