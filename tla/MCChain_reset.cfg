SPECIFICATION FairSpec
CONSTANTS
  g = g
  a1 = a1
  a2 = a2
  a3 = a3
  b1 = b1
  b2 = b2
  b3 = b3
  c2 = c2
  c3 = c3
  w = w
  x = x
  y = y
  z = z
  NoBlock = NoBlock
  Genesis = g
  Coin = {w, x, y, z}
  Block = {g, a1, a2, a3, b1, b2}
  Parent <- MCParent
  Height <- MCHeight
  Anc <- MCAnc
  ChainWork <- MCChainWork
  Creates <- MCCreates
  Spends <- MCSpends
  Unspent <- MCUnspent
  Bip34 = FALSE
  NoWork = {}
  HeaderBad = {}
  TooNew = {}
  ContextBad = {}
  ScriptBad = {}
  Checkpointed = {a2}
  LastCheckpoint = 2
  Prune = FALSE
  KeepBlocks = 2
  PruneAfter = 0
  Mutable = {}
  Resettable = {g, a1}
  Invalidable = {a1}
  MaxOrphans = 1
  MaxQueue = 1
  Faults = TRUE
  ResetFaults = TRUE
  Crashes = TRUE
INVARIANTS
  DataBeforeIndex
  MainHasEntries
  InvalidNotMain
PROPERTIES
  LedgerSpec
  LockMoves
