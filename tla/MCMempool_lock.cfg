SPECIFICATION FairSpec
CONSTANTS
  g = g
  b0 = b0
  a1 = a1
  a2 = a2
  e1 = e1
  p = p
  x = x
  o = o
  c = c
  cb = cb
  u = u
  v = v
  p1 = p1
  x1 = x1
  o1 = o1
  NoBlock = NoBlock
  NoTx = NoTx
  Genesis = g
  Block = {g, b0, a1}
  Parent <- MCParent
  Height <- MCHeight
  Anc <- MCAnc
  ChainWork <- MCChainWork
  Creates <- MCCreates
  Spends <- MCSpends
  Unspent <- MCUnspent
  Bip34 = TRUE
  NoWork = {}
  HeaderBad = {}
  TooNew = {}
  ContextBad = {}
  ScriptBad = {}
  Checkpointed = {}
  LastCheckpoint = 0
  Tx = {p, x, o, c}
  OtherId = {cb}
  Coin = {u, v, p1, x1, o1}
  Maker <- MCMaker
  Inputs <- MCInputs
  BlockTxs <- MCBlockTxs
  Standard = {p, x, o, c}
  Verifies = {p, x, o, c}
  TimeLocked = {}
  Relocked = {o}
  MaxSize = 2
  MaxOrphans = 2
  MaxAncestors = 2
  MaxQueue = 1
  Resets = TRUE
  Crashes = FALSE
PROPERTY
  LockReleased
