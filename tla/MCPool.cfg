CHECK_DEADLOCK FALSE
SPECIFICATION FairSpec
CONSTANTS
  Peer = {a, b}
  None = None
  Top = 7
  Known = 6
  Recent = 6
  Checkpoints = {1, 5}
  MaxHeaders = 3
  MaxHashes = 2
  MaxInv = 2
  MaxRequest = 3
  Compact = {7}
  MaxCloses = 1
  MaxResets = 1
  ResetTo = {3}
INVARIANTS RequestsAgree HonestKept
PROPERTY CatchesUp
