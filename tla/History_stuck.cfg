SPECIFICATION FairSpec
CONSTANTS
  Decls = {"a", "b"}
  MaxLen = 5
  MaxFaults = 1
  TearAt = {"publish"}
  None = None
PROPERTIES
  Heals
