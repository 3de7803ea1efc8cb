\* Concurrent submitblock calls: a null reply against the block index.
CONSTANTS
  T1 = T1  T2 = T2
  G = G  X = X  Y = Y  Z = Z  W = W  M = M  C = C  U = U  V = V  N = N  O = O  Q = Q
  Threads <- MCThreads
  Blocks <- MCBlocks
  Genesis = G
  Prev <- MCPrev
  nAuxpowStartHeight = 2
  AuxBit <- MCAuxBit
  AuxData <- MCAuxData
  Coinbase <- MCCoinbase
  CheckOk <- MCCheckOk
  ConnectOk <- MCConnectOk
SPECIFICATION Spec
PROPERTY NullReplyMeansAccepted
