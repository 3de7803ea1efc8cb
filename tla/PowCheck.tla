------------------------------ MODULE PowCheck ------------------------------
(***************************************************************************)
(* CheckProofOfWork (pow.cpp): the range test on a compact target and the  *)
(* comparison of a hash with it.  Shared by the difficulty engine and the  *)
(* AuxPoW verifier, which applies it to the parent block's hash.           *)
(***************************************************************************)
EXTENDS Integers

CONSTANTS
  ByteBits, WordBytes,           (* the compact codec, see Compact       *)
  PowLimit                       (* UintToArith256(params.powLimit)      *)

INSTANCE Compact

ASSUME PowLimit \in 1..(WordMod - 1)

(***************************************************************************)
(* The range test of CheckProofOfWork: the decoded target is positive,     *)
(* neither negative nor overflowing, and at most powLimit.                 *)
(***************************************************************************)
TargetInRange(nBits) ==
  LET t == SetCompact(nBits)
  IN ~t.negative /\ t.value # 0 /\ ~t.overflow /\ t.value <= PowLimit

\* A hash is a 256-bit unsigned integer here (UintToArith256(hash)).
CheckProofOfWork(hash, nBits) ==
  TargetInRange(nBits) /\ hash <= SetCompact(nBits).value

=============================================================================
