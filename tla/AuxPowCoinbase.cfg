\* Same instance: is every accepted proof built on the parent's coinbase?
CONSTANTS
  ByteBits = 4
  WordBytes = 7
  PowLimit = 1048575
  B1 = B1  B2 = B2  B3 = B3  G = G
  P1 = P1  P2 = P2  P3 = P3  P4 = P4
  c1 = c1  t1 = t1  c2 = c2  t2 = t2  c3 = c3  t3 = t3  u3 = u3
  c4 = c4  t4 = t4
  NoMagic = NoMagic
  Unknown = Unknown
  NoAuxPow = NoAuxPow
  Blocks <- MCBlocks
  Genesis <- G
  Prev <- MCPrev
  Parents <- MCParents
  ParentTxs <- MCParentTxs
  ParentHash <- MCParentHash
  ScriptSig <- MCScriptSig
  AuxBits <- MCAuxBits
  Indices <- MCIndices
INIT Init
NEXT Next
INVARIANT AcceptedFromCoinbase
