--------------------------- MODULE DifficultyChain ---------------------------
(***************************************************************************)
(* A chain grown block by block under the difficulty engine of pow.cpp.    *)
(*                                                                         *)
(* Each step is a block whose header carries the bits GetNextWorkRequired  *)
(* demands for its timestamp and whose hash passes CheckProofOfWork: the   *)
(* acceptance rule that ContextualCheckBlockHeader and CheckBlockHeader    *)
(* apply in validation.cpp (not under src/; spec sections 4.3 and 4.4).    *)
(* The timestamp is the predecessor's plus a step from TimeSteps, which    *)
(* may be negative: the engine has to cope with non-monotonic times.       *)
(* A block can only be found when the demanded target is in range, so a   *)
(* state in which no block can follow is a deadlock.                      *)
(***************************************************************************)
EXTENDS Pow
LOCAL INSTANCE SequencesExt

CONSTANTS
  TimeSteps,      (* timestamp increments a miner may choose             *)
  GenesisTime,    (* nTime of the genesis block                          *)
  MaxHeight,      (* the model stops extending the chain at this height  *)
  HashPsLookups   (* the nblocks arguments getnetworkhashps is called with *)

ASSUME TimeSteps \subseteq Int /\ GenesisTime \in Nat /\ MaxHeight \in Nat

VARIABLE chain

vars == <<chain>>

\* The genesis block carries powLimit's compact form (0x1d00ffff on main).
Init == chain = << [nTime |-> GenesisTime, nBits |-> ProofOfWorkLimit] >>

LastTime == Time(chain, Tip(chain))

(***************************************************************************)
(* A miner finds a block on the tip with timestamp LastTime + delta.  Its  *)
(* bits are the required ones; any winning hash will do, 0 stands for it.  *)
(***************************************************************************)
MineBlock(delta) ==
  LET nTime == LastTime + delta
      nBits == GetNextWorkRequired(chain, nTime)
  IN /\ nTime >= 0                       \* nTime is a uint32_t
     /\ CheckProofOfWork(0, nBits)
     /\ chain' = Append(chain, [nTime |-> nTime, nBits |-> nBits])

Next == \E delta \in TimeSteps : MineBlock(delta)

Spec == Init /\ [][Next]_vars

HeightBound == Tip(chain) < MaxHeight

-----------------------------------------------------------------------------
(***************************************************************************)
(* getnetworkhashps (rpc/mining.cpp) on this chain.  The estimate is kept  *)
(* exact as the pair <<workDiff, timeDiff>> instead of the double quotient *)
(* (<<0, 1>> for the early returns of 0); <<>> is the outcome of an        *)
(* integer division by zero, which traps on the builds' targets.          *)
(***************************************************************************)
Trap == <<>>

\* GetBlockProof (chain.cpp, not under src/): ~target / (target + 1) + 1.
GetBlockProof(nBits) ==
  LET t == SetCompact(nBits)
  IN IF t.negative \/ t.overflow \/ t.value = 0 THEN 0
     ELSE WordMod \div (t.value + 1)

\* nChainWork of the block at height h.
RECURSIVE ChainWork(_, _)
ChainWork(c, h) ==
  GetBlockProof(Bits(c, h)) + IF h = 0 THEN 0 ELSE ChainWork(c, h - 1)

GetNetworkHashPS(c, lookupArg, height) ==
  LET pb      == IF height >= 0 /\ height < Tip(c) THEN height ELSE Tip(c)
      divisor == IF pb + 1 < IntervalSwitch THEN nPowTargetSpacing
                                            ELSE nPowTargetSpacingV2
      lookup1 == IF lookupArg <= 0
                 THEN (pb % DifficultyAdjustmentInterval(pb + 1)) + 1
                 ELSE lookupArg
      lookup  == IF lookup1 > pb THEN pb ELSE lookup1
      times   == {Time(c, i) : i \in (pb - lookup)..pb}
  IN CASE pb = 0                           -> <<0, 1>>
       [] lookupArg <= 0 /\ divisor = 0    -> Trap
       [] Min(times) = Max(times)          -> <<0, 1>>
       [] OTHER -> <<ChainWork(c, pb) - ChainWork(c, pb - lookup),
                     Max(times) - Min(times)>>

(***************************************************************************)
(* The getnetworkhashps RPC (mining.cpp 117-121): under cs_main, an        *)
(* argument left out is <<>>, and nblocks defaults to 720 and height to   *)
(* -1.                                                                     *)
(***************************************************************************)
getnetworkhashps(c, nblocks, height) ==
  GetNetworkHashPS(c, IF nblocks = <<>> THEN 720 ELSE nblocks[1],
                      IF height = <<>> THEN -1 ELSE height[1])

(***************************************************************************)
(* getmininginfo (mining.cpp 311-361) under cs_main: the active chain's    *)
(* height and getnetworkhashps called with the arguments 720 and -1.  The  *)
(* assembler's last block, the difficulty, the mempool size and the        *)
(* warnings are read-only data and left out.  With the literal 720 the     *)
(* estimate never reaches the nblocks <= 0 branch that can divide by zero. *)
(***************************************************************************)
GetMiningInfo(c) ==
  [blocks |-> Tip(c), networkhashps |-> GetNetworkHashPS(c, 720, -1)]

-----------------------------------------------------------------------------
(***************************************************************************)
(* Properties.                                                             *)
(***************************************************************************)

(***************************************************************************)
(* Every header is a timestamp and a compact word in GetCompact's normal   *)
(* form: the word re-encodes to itself.  The testnet walk (pow.cpp 73) and *)
(* the reset window recognise powLimit by comparing nBits words with ==,   *)
(* so a second encoding of the same target would not be recognised.       *)
(***************************************************************************)
IsNormalCompact(nBits) == GetCompact(Decode(nBits)) = nBits

TypeOK ==
  /\ chain \in Seq([nTime : Nat, nBits : 0..(2^(MantBits + ByteBits) - 1)])
  /\ Len(chain) >= 1
  /\ \A h \in 1..Len(chain) : IsNormalCompact(chain[h].nBits)

(***************************************************************************)
(* Whatever timestamp the next block carries, the bits GetNextWorkRequired *)
(* demands for it decode to a target CheckProofOfWork accepts: positive,   *)
(* not negative, not overflowing, at most powLimit (spec 3 and 8.4).  If   *)
(* this fails, no block can ever follow the tip.                           *)
(***************************************************************************)
NextTargetValid ==
  \A delta \in TimeSteps :
    LastTime + delta >= 0 =>
      TargetInRange(GetNextWorkRequired(chain, LastTime + delta))

\* Heights at which the legacy engine retargets (CalculateNextWorkRequired).
IsRetargetHeight(h) ==
  /\ h > 0 /\ h < LwmaHeight
  /\ h % DifficultyAdjustmentInterval(h) = 0
  /\ h - 1 \notin ResetFrom..ResetTo

(***************************************************************************)
(* A legacy retarget makes the target at most four times easier than the  *)
(* one before it (spec 8.3), however the timestamps of the interval lie.   *)
(***************************************************************************)
RetargetStep ==
  \A h \in 1..Tip(chain) :
    IsRetargetHeight(h) => Decode(Bits(chain, h)) <= 4 * Decode(Bits(chain, h - 1))

\* Legacy heights strictly inside an interval, outside the reset window.
IsInteriorHeight(h) ==
  /\ h > 0 /\ h < LwmaHeight
  /\ h % DifficultyAdjustmentInterval(h) # 0
  /\ h - 1 \notin ResetFrom..ResetTo

(***************************************************************************)
(* Between two retargets every block carries the bits of the interval's    *)
(* first block, except that where min-difficulty blocks are allowed a      *)
(* block more than two spacings late carries powLimit.  On testnet this is *)
(* what the walk back over min-difficulty blocks must achieve, however     *)
(* many late blocks precede the current one.                               *)
(***************************************************************************)
IntervalBitsConsistent ==
  \A h \in 1..Tip(chain) :
    IsInteriorHeight(h) =>
      Bits(chain, h) =
        IF fPowAllowMinDifficultyBlocks
           /\ Time(chain, h) > Time(chain, h - 1) + 2 * nPowTargetSpacing
        THEN ProofOfWorkLimit
        ELSE Bits(chain, h - (h % DifficultyAdjustmentInterval(h)))

(***************************************************************************)
(* getnetworkhashps answers for every nblocks argument and every height of *)
(* the active chain, each of them given or left to its default, instead   *)
(* of dividing by zero.                                                    *)
(***************************************************************************)
NetworkHashPsNeverTraps ==
  \A nblocks \in {<<>>} \cup {<<l>> : l \in HashPsLookups},
     height \in {<<>>} \cup {<<h>> : h \in {-1} \cup 0..Tip(chain)} :
    getnetworkhashps(chain, nblocks, height) # Trap

=============================================================================
