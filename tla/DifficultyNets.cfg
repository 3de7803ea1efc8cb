\* The difficulty engine on main-net and testnet parameters, side by side.
INIT Init
NEXT Next
CONSTRAINT HeightBound
INVARIANT TypeOK
INVARIANT NextTargetValid
INVARIANT RetargetStep
INVARIANT IntervalBitsConsistent
