------------------------- MODULE MCDifficultyChain -------------------------
(***************************************************************************)
(* Model-checking instances of DifficultyChain.  The cfg files give the    *)
(* scaled consensus parameters; the timestamp steps, which include a       *)
(* negative one, are defined here.                                         *)
(***************************************************************************)
EXTENDS DifficultyChain

(***************************************************************************)
(* The flags and the zero spacing come from the networks' parameters in   *)
(* ChainParams; the times and intervals, which chainparams.cpp gives in    *)
(* seconds, are scaled in the cfg files.                                   *)
(***************************************************************************)
Net == INSTANCE ChainParams
         WITH IntMax <- 32767, Int64Max <- 2147483647, Decimal <- <<>>

MainMinDifficulty == Net!CMainParams.fPowAllowMinDifficultyBlocks
MainNoRetargeting == Net!CMainParams.fPowNoRetargeting
TestnetMinDifficulty == Net!CTestNetParams.fPowAllowMinDifficultyBlocks
TestnetNoRetargeting == Net!CTestNetParams.fPowNoRetargeting
TestnetSpacingV2 == Net!CTestNetParams.nPowTargetSpacingV2

\* Early, fast, and later than 2 x nPowTargetSpacing (a min-difficulty block).
TestnetTimeSteps == {-1, 1, 9}

\* Blocks at least 6T late: the largest solvetime LWMA credits.
LateTimeSteps == {48}

\* nblocks: since the last difficulty change (-1 and 0), a short window,
\* and the RPC's default 720.
MCHashPsLookups == {-1, 0, 2, 720}
=============================================================================
