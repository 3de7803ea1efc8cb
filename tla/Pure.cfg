\* Transaction lists of 1 to 5 hashes over three values; command lines on
\* four chains, eight -segwitheight settings and up to two -vbparams
\* values.  int is 16 bits wide and int64 32 bits wide.
CONSTANTS
  TxHashes = {1, 2, 3}
  MaxLeaves = 5
  IntMax = 32767
  Int64Max = 2147483647
  Decimal <- MCDecimal
  Networks = {"main", "test", "regtest", "signet"}
  SegwitArgs <- MCSegwitArgs
  VbparamArgs <- MCVbparamArgs
  MaxVbparams = 2
INIT Init
NEXT Next
CONSTRAINT InputBound
INVARIANT MerkleBranchesSound
INVARIANT ParamsPerSpec
