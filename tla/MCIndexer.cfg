SPECIFICATION FairSpec
CONSTANTS
  g = g
  s1 = s1
  a2 = a2
  a3 = a3
  b2 = b2
  b3 = b3
  t1 = t1
  NoBlock = NoBlock
  Genesis = g
  Block = {g, s1, a2, a3, b2, b3, t1}
  Parent <- MCParent
  Height <- MCHeight
  Anc <- MCAnc
  ChainWork <- MCChainWork
  Coin = {}
  Creates <- MCNone
  Spends <- MCNone
  Unspent <- MCNone
  Bip34 = TRUE
  NoWork = {}
  HeaderBad = {}
  TooNew = {}
  ContextBad = {}
  ScriptBad = {}
  Checkpointed = {}
  LastCheckpoint = 0
  MaxExtras = 2
CHECK_DEADLOCK FALSE
INVARIANT OneBranch
PROPERTY CatchesUp
