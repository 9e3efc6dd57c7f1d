SPECIFICATION Spec
CONSTANTS
  Block = {a, b, c}
  NoBlock = NoBlock
  Cap = 2
  MaxFile = 1
  MaxCrashes = 2
  MaxFaults = 1
  Top = 9
INVARIANTS TypeOK CountsCover AllReadable
PROPERTY KeepsPromise
