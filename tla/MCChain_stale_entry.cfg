SPECIFICATION Spec
CONSTANTS
  g = g
  a1 = a1
  a2 = a2
  a3 = a3
  b1 = b1
  b2 = b2
  b3 = b3
  c2 = c2
  c3 = c3
  w = w
  x = x
  y = y
  z = z
  NoBlock = NoBlock
  Genesis = g
  Coin = {w, x, y, z}
  Block = {g, a1, a2, a3, b1, b2, b3}
  Parent <- MCParent
  Height <- MCHeight
  Anc <- MCAnc
  ChainWork <- MCChainWork
  Creates <- MCCreates
  Spends <- MCSpends
  Unspent <- MCUnspent
  Bip34 = FALSE
  NoWork = {}
  HeaderBad = {}
  TooNew = {}
  ContextBad = {}
  ScriptBad = {b2}
  Checkpointed = {}
  LastCheckpoint = 0
  Prune = FALSE
  KeepBlocks = 2
  PruneAfter = 0
  Mutable = {}
  Resettable = {g, b1}
  Invalidable = {}
  MaxOrphans = 1
  MaxQueue = 1
  Faults = FALSE
  ResetFaults = FALSE
  Crashes = FALSE
INVARIANTS
  ResetCleans
