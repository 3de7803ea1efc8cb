\* Testnet shape, scaled, with nPowTargetSpacingV2 taken from CTestNetParams (0):
\* getnetworkhashps on every tip the chain reaches.
CONSTANTS
  ByteBits = 4
  WordBytes = 7
  PowLimit = 1048575
  fPowAllowMinDifficultyBlocks <- TestnetMinDifficulty
  fPowNoRetargeting <- TestnetNoRetargeting
  nPowTargetSpacing = 4
  nPowTargetSpacingV2 <- TestnetSpacingV2
  nPowTargetTimespan = 12
  ResetFrom = 9
  ResetTo = 9
  LwmaHeight = 10
  IntervalSwitch = 10
  LwmaN = 2
  TimeSteps <- TestnetTimeSteps
  GenesisTime = 1
  MaxHeight = 9
  HashPsLookups <- MCHashPsLookups
INIT Init
NEXT Next
CONSTRAINT HeightBound
INVARIANT NetworkHashPsNeverTraps
