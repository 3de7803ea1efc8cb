-------------------------------- MODULE Pow --------------------------------
(***************************************************************************)
(* The difficulty engine and the proof-of-work check of pow.cpp, as pure   *)
(* operators over a chain.                                                 *)
(*                                                                         *)
(* A chain is a sequence of block index entries [nTime, nBits]; the block  *)
(* at height h is chain[h + 1], so pindexLast is the last element and      *)
(* pindexLast->GetAncestor(h) is the entry at height h.                    *)
(*                                                                         *)
(* The heights 28930, 28999 and 29000 and the window N = 240 are literals  *)
(* in pow.cpp and params.h; here they are the constants ResetFrom,         *)
(* ResetTo, LwmaHeight, IntervalSwitch and LwmaN so that a model can       *)
(* scale them down while keeping their order.                              *)
(***************************************************************************)
EXTENDS PowCheck, Sequences

CONSTANTS
  fPowAllowMinDifficultyBlocks,
  fPowNoRetargeting,
  nPowTargetSpacing,             (* legacy block spacing                 *)
  nPowTargetSpacingV2,           (* LWMA block spacing T                 *)
  nPowTargetTimespan,
  ResetFrom, ResetTo,            (* 28930 .. 28999: reset window         *)
  LwmaHeight,                    (* 29000: first height run through LWMA *)
  IntervalSwitch,                (* 29000 in DifficultyAdjustmentInterval*)
  LwmaN                          (* 240: the LWMA window                 *)

LOCAL INSTANCE SequencesExt

ASSUME /\ fPowAllowMinDifficultyBlocks \in BOOLEAN
       /\ fPowNoRetargeting \in BOOLEAN
       /\ {nPowTargetSpacing, nPowTargetSpacingV2, nPowTargetTimespan, LwmaN}
            \subseteq Nat
       /\ nPowTargetSpacing > 0 /\ nPowTargetTimespan > 0
       /\ ResetFrom <= ResetTo /\ ResetTo < LwmaHeight

Time(chain, h) == chain[h + 1].nTime
Bits(chain, h) == chain[h + 1].nBits
Tip(chain)     == Len(chain) - 1                 \* pindexLast->nHeight

ProofOfWorkLimit == GetCompact(PowLimit)         \* nProofOfWorkLimit

ClampTo(x, lo, hi) == IF x < lo THEN lo ELSE IF x > hi THEN hi ELSE x

(***************************************************************************)
(* Consensus::Params::DifficultyAdjustmentInterval(nHeight).               *)
(***************************************************************************)
DifficultyAdjustmentInterval(nHeight) ==
  IF nHeight < IntervalSwitch THEN nPowTargetTimespan \div nPowTargetSpacing
                              ELSE nPowTargetTimespan \div nPowTargetSpacingV2

(***************************************************************************)
(* CalculateNextWorkRequired: the legacy retarget at an interval boundary. *)
(* The first operator is a mutant that forgets the powLimit clamp, the     *)
(* second one that forgets the upper timespan clamp.                       *)
(***************************************************************************)
CalculateNextWorkRequiredNoLimit(chain, nFirstBlockTime) ==
  LET last == Tip(chain)
      span == ClampTo(Time(chain, last) - nFirstBlockTime,
                      nPowTargetTimespan \div 4, nPowTargetTimespan * 4)
  IN IF fPowNoRetargeting THEN Bits(chain, last)
     ELSE GetCompact(((Decode(Bits(chain, last)) * span) % WordMod)
                       \div nPowTargetTimespan)

CalculateNextWorkRequiredNoUpperClamp(chain, nFirstBlockTime) ==
  LET last  == Tip(chain)
      span0 == Time(chain, last) - nFirstBlockTime
      span  == IF span0 < nPowTargetTimespan \div 4
               THEN nPowTargetTimespan \div 4 ELSE span0
      bnNew == ((Decode(Bits(chain, last)) * span) % WordMod)
                 \div nPowTargetTimespan
  IN IF fPowNoRetargeting THEN Bits(chain, last)
     ELSE GetCompact(IF bnNew > PowLimit THEN PowLimit ELSE bnNew)

CalculateNextWorkRequired(chain, nFirstBlockTime) ==
  LET last  == Tip(chain)
      span  == ClampTo(Time(chain, last) - nFirstBlockTime,
                       nPowTargetTimespan \div 4, nPowTargetTimespan * 4)
      bnNew == ((Decode(Bits(chain, last)) * span) % WordMod)
                 \div nPowTargetTimespan
  IN IF fPowNoRetargeting THEN Bits(chain, last)
     ELSE GetCompact(IF bnNew > PowLimit THEN PowLimit ELSE bnNew)

(***************************************************************************)
(* The testnet walk back over min-difficulty blocks: from pindex, step to  *)
(* pprev while pindex is not at an interval boundary and carries the       *)
(* minimum difficulty.  The first operator is a mutant without the         *)
(* boundary test.                                                          *)
(***************************************************************************)
RECURSIVE LastNonSpecialBitsNoBoundary(_, _)
LastNonSpecialBitsNoBoundary(chain, h) ==
  IF h > 0 /\ Bits(chain, h) = ProofOfWorkLimit
  THEN LastNonSpecialBitsNoBoundary(chain, h - 1) ELSE Bits(chain, h)

RECURSIVE LastNonSpecialBits(_, _)
LastNonSpecialBits(chain, h) ==
  IF /\ h > 0
     /\ h % DifficultyAdjustmentInterval(h) # 0
     /\ Bits(chain, h) = ProofOfWorkLimit
  THEN LastNonSpecialBits(chain, h - 1) ELSE Bits(chain, h)

(***************************************************************************)
(* LwmaCalculateNextWorkRequired.  One loop iteration: clamp the timestamp *)
(* to be monotonic, clamp the solvetime to [1, 6T], weight it by j, add    *)
(* the block's target to the (wrapping) 256-bit sum.                       *)
(***************************************************************************)
LwmaStep(chain, acc, i) ==
  LET T    == nPowTargetSpacingV2
      this == IF Time(chain, i) < acc.prev THEN acc.prev ELSE Time(chain, i)
      j    == acc.j + 1
      atLeast1  == IF this - acc.prev < 1 THEN 1 ELSE this - acc.prev
      solvetime == IF atLeast1 > 6 * T THEN 6 * T ELSE atLeast1
  IN [prev |-> this, j |-> j, t |-> acc.t + solvetime * j,
      sum  |-> (acc.sum + Decode(Bits(chain, i))) % WordMod]

LwmaCalculateNextWorkRequired(chain) ==
  LET T      == nPowTargetSpacingV2
      N      == LwmaN
      k      == (N * (N + 1) * T) \div 2
      height == Tip(chain)
      window == [x \in 1..N |-> height - N + x]
      acc    == FoldLeft(LAMBDA a, i : LwmaStep(chain, a, i),
                         [prev |-> Time(chain, height - N), j |-> 0,
                          t |-> 0, sum |-> 0], window)
      next   == (((acc.sum \div N) * acc.t) % WordMod) \div (k * T)
  IN CASE height = 0 \/ height < N   -> ProofOfWorkLimit
       [] N = 0 \/ T = 0 \/ k = 0     -> ProofOfWorkLimit
       [] OTHER -> GetCompact(IF next > PowLimit THEN PowLimit ELSE next)

(***************************************************************************)
(* GetNextWorkRequired(pindexLast, pblock): the bits the block after the   *)
(* tip of chain must carry when its timestamp is nTime.                    *)
(***************************************************************************)
GetNextWorkRequired(chain, nTime) ==
  LET last     == Tip(chain)
      nHeight  == last + 1
      interval == DifficultyAdjustmentInterval(nHeight)
  IN CASE last >= ResetFrom /\ last <= ResetTo -> ProofOfWorkLimit
       [] nHeight >= LwmaHeight -> LwmaCalculateNextWorkRequired(chain)
       [] nHeight % interval # 0 /\ fPowAllowMinDifficultyBlocks ->
            IF nTime > Time(chain, last) + nPowTargetSpacing * 2
            THEN ProofOfWorkLimit
            ELSE LastNonSpecialBits(chain, last)
       [] nHeight % interval # 0 -> Bits(chain, last)
       [] OTHER -> CalculateNextWorkRequired(chain,
                                             Time(chain, last - (interval - 1)))

=============================================================================
