SPECIFICATION ControlFairSpec
CONSTANTS
  Decls = {"a", "c"}
  Declaring = {"a"}
  Doorless = {"c"}
  MaxLen = 4
  MaxFaults = 2
  TearAt = {"publish", "append", "rerecord"}
  None = None
INVARIANTS
  ControlTypeOK
  CommitsRecorded
  HistoryExplainsDoor
PROPERTIES
  AppendOnly
  HealsUncommitted
