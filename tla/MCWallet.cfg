SPECIFICATION FairSpec
CONSTANTS
  g = g
  b0 = b0
  a1 = a1
  b1 = b1
  b2 = b2
  f1 = f1
  p = p
  c = c
  d = d
  q = q
  cb = cb
  u = u
  p1 = p1
  c1 = c1
  NoBlock = NoBlock
  NoTx = NoTx
  Absent = Absent
  Pending = Pending
  Genesis = g
  Start = b0
  Block = {g, b0, a1, b1, b2, f1}
  Parent <- MCParent
  Height <- MCHeight
  Anc <- MCAnc
  ChainWork <- MCChainWork
  Creates <- MCCreates
  Spends <- MCSpends
  Unspent <- MCUnspent
  Bip34 = TRUE
  NoWork = {}
  HeaderBad = {}
  TooNew = {}
  ContextBad = {}
  ScriptBad = {}
  Checkpointed = {}
  LastCheckpoint = 0
  Tx = {p, c, d, q}
  OtherId = {cb}
  Coin = {u, p1, c1}
  Maker <- MCMaker
  Inputs <- MCInputs
  BlockTxs <- MCBlockTxs
  Standard = {p, c, d, q}
  Verifies = {p, c, d, q}
  TimeLocked = {}
  Relocked = {}
  Mine = {p1, c1}
  Value <- MCValue
  MaxExtras = 1
CHECK_DEADLOCK FALSE
INVARIANTS TypeOK BalancesAdd SpendsAgree FollowsChain NeverFails
PROPERTY CatchesUp
