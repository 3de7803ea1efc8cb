-------------------------- MODULE MCDifficultyNets --------------------------
(***************************************************************************)
(* The difficulty engine on the main-net and the testnet parameters in one *)
(* model: two instances of DifficultyChain, each with its network's        *)
(* scaled constants.  One chain grows while the other stays at genesis,    *)
(* so the states are those of the two networks side by side, not their    *)
(* product.  The flags and testnet's nPowTargetSpacingV2 are taken from    *)
(* the networks' parameters in ChainParams; times and intervals, which     *)
(* chainparams.cpp gives in seconds, are scaled: 28-bit targets under a    *)
(* 20-bit powLimit (the code has 256 under 224).                           *)
(***************************************************************************)
EXTENDS Integers, Sequences

VARIABLES mainChain, testChain

vars == <<mainChain, testChain>>

Net == INSTANCE ChainParams
         WITH IntMax <- 32767, Int64Max <- 2147483647, Decimal <- <<>>

\* nblocks: since the last difficulty change (-1 and 0), a short window,
\* and the RPC's default 720.
HashPsLookupArgs == {-1, 0, 2, 720}

(***************************************************************************)
(* Main: interval 2, reset window 6..7, LWMA from 8; the chain grows to    *)
(* height 7, three legacy retargets and the reset window.  Timestamps are  *)
(* early, fast, on time, 2T late and beyond 4 x the timespan.              *)
(***************************************************************************)
Main == INSTANCE DifficultyChain
          WITH chain <- mainChain, ByteBits <- 4, WordBytes <- 7,
               PowLimit <- 1048575,
               fPowAllowMinDifficultyBlocks <-
                 Net!CMainParams.fPowAllowMinDifficultyBlocks,
               fPowNoRetargeting <- Net!CMainParams.fPowNoRetargeting,
               nPowTargetSpacing <- 4, nPowTargetSpacingV2 <- 8,
               nPowTargetTimespan <- 8, ResetFrom <- 6, ResetTo <- 7,
               LwmaHeight <- 8, IntervalSwitch <- 8, LwmaN <- 2,
               TimeSteps <- {-1, 1, 4, 8, 40}, GenesisTime <- 1,
               MaxHeight <- 7, HashPsLookups <- HashPsLookupArgs

(***************************************************************************)
(* Testnet: min-difficulty blocks allowed, interval 3, reset window at 9,  *)
(* LWMA from 10; heights up to 9 give three intervals.  Timestamps are     *)
(* early, fast, and later than 2 x nPowTargetSpacing.                      *)
(***************************************************************************)
Testnet == INSTANCE DifficultyChain
             WITH chain <- testChain, ByteBits <- 4, WordBytes <- 7,
                  PowLimit <- 1048575,
                  fPowAllowMinDifficultyBlocks <-
                    Net!CTestNetParams.fPowAllowMinDifficultyBlocks,
                  fPowNoRetargeting <- Net!CTestNetParams.fPowNoRetargeting,
                  nPowTargetSpacing <- 4,
                  nPowTargetSpacingV2 <- Net!CTestNetParams.nPowTargetSpacingV2,
                  nPowTargetTimespan <- 12, ResetFrom <- 9, ResetTo <- 9,
                  LwmaHeight <- 10, IntervalSwitch <- 10, LwmaN <- 2,
                  TimeSteps <- {-1, 1, 9}, GenesisTime <- 1,
                  MaxHeight <- 9, HashPsLookups <- HashPsLookupArgs

Init == Main!Init /\ Testnet!Init

\* A network's chain grows only while the other is still at genesis.
Next ==
  \/ Len(testChain) = 1 /\ Main!Next /\ UNCHANGED testChain
  \/ Len(mainChain) = 1 /\ Testnet!Next /\ UNCHANGED mainChain

HeightBound == Main!HeightBound /\ Testnet!HeightBound

TypeOK == Main!TypeOK /\ Testnet!TypeOK

(***************************************************************************)
(* On both networks, whatever timestamp the next block carries, the bits   *)
(* GetNextWorkRequired demands for it decode to a target CheckProofOfWork  *)
(* accepts (spec 3 and 8.4): otherwise no block could follow the tip.      *)
(***************************************************************************)
NextTargetValid == Main!NextTargetValid /\ Testnet!NextTargetValid

(***************************************************************************)
(* On main, a legacy retarget of CalculateNextWorkRequired makes the       *)
(* target at most four times easier than the one before it (spec 8.3),    *)
(* however the timestamps of the interval lie.                             *)
(***************************************************************************)
RetargetStep == Main!RetargetStep

(***************************************************************************)
(* On testnet, between two retargets every block carries the bits of the   *)
(* interval's first block, or powLimit when it is more than two spacings   *)
(* late: the walk back over min-difficulty blocks in GetNextWorkRequired   *)
(* lands on the interval's first block however many late blocks precede.   *)
(***************************************************************************)
IntervalBitsConsistent == Testnet!IntervalBitsConsistent

=============================================================================
