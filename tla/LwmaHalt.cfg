\* Main-net shape, scaled, with every block at least 6T late, the slowest
\* chain LWMA credits: the most favourable case for the target to stay up.
CONSTANTS
  ByteBits = 4
  WordBytes = 7
  PowLimit = 1048575
  fPowAllowMinDifficultyBlocks <- MainMinDifficulty
  fPowNoRetargeting <- MainNoRetargeting
  nPowTargetSpacing = 4
  nPowTargetSpacingV2 = 8
  nPowTargetTimespan = 8
  ResetFrom = 6
  ResetTo = 7
  LwmaHeight = 8
  IntervalSwitch = 8
  LwmaN = 2
  TimeSteps <- LateTimeSteps
  GenesisTime = 1
  MaxHeight = 100
  HashPsLookups <- MCHashPsLookups
INIT Init
NEXT Next
CONSTRAINT HeightBound
INVARIANT NextTargetValid
