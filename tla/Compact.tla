------------------------------ MODULE Compact ------------------------------
(***************************************************************************)
(* The compact ("nBits") encoding of proof-of-work targets:                *)
(* arith_uint256::SetCompact and arith_uint256::GetCompact.  That code     *)
(* lives in arith_uint256.cpp, which is not part of the sources under      *)
(* src/, so these operators follow spec section 4.1 and the Bitcoin        *)
(* encoding it names.                                                      *)
(*                                                                         *)
(* The encoding is byte oriented: a size byte, then a 3-byte mantissa      *)
(* whose top bit is a sign flag.  The model keeps that structure but       *)
(* scales the byte to ByteBits bits and the 256-bit word to WordBytes      *)
(* bytes, so that targets fit TLC's integers.  With ByteBits = 8 and       *)
(* WordBytes = 32 the operators are the real encoding.                     *)
(***************************************************************************)
EXTENDS Integers

CONSTANTS
  ByteBits,   (* bits per byte (8 in the code)                            *)
  WordBytes   (* bytes per target word (32: arith_uint256)                *)

ASSUME ByteBits \in Nat \ {0} /\ WordBytes \in Nat /\ WordBytes >= 4

WordBits == ByteBits * WordBytes
WordMod  == 2^WordBits                \* arith_uint256 arithmetic wraps here
MantBits == 3 * ByteBits              \* the 0x00ffffff mantissa field
SignBit  == 2^(MantBits - 1)          \* 0x00800000

\* x << n on a WordBits-wide unsigned integer: bits shifted out are lost.
Shl(x, n) == IF n >= WordBits THEN 0 ELSE (x % 2^(WordBits - n)) * 2^n

\* arith_uint256::bits(): the position of the highest set bit.
BitLength(v) == IF v = 0 THEN 0
                ELSE CHOOSE b \in 1..WordBits : 2^(b - 1) <= v /\ v < 2^b

(***************************************************************************)
(* SetCompact(nCompact, &fNegative, &fOverflow).                           *)
(***************************************************************************)
SetCompact(nCompact) ==
  LET nSize == nCompact \div 2^MantBits
      nWord == nCompact % SignBit
  IN [value    |-> IF nSize <= 3
                   THEN nWord \div 2^(ByteBits * (3 - nSize))
                   ELSE Shl(nWord, ByteBits * (nSize - 3)),
      negative |-> nWord # 0 /\ nCompact % 2^MantBits >= SignBit,
      overflow |-> nWord # 0 /\
                   \/ nSize > WordBytes + 2
                   \/ nWord > 2^ByteBits - 1 /\ nSize > WordBytes + 1
                   \/ nWord > 2^(2 * ByteBits) - 1 /\ nSize > WordBytes]

(***************************************************************************)
(* GetCompact() of a non-negative value: keep the top three bytes, and if  *)
(* the top mantissa bit would read as a sign, keep two and grow the size.  *)
(* The first operator is a mutant that skips that sign adjustment.         *)
(***************************************************************************)
GetCompactNoSignFix(v) ==
  LET size0 == (BitLength(v) + ByteBits - 1) \div ByteBits
      mant0 == IF size0 <= 3 THEN v * 2^(ByteBits * (3 - size0))
                             ELSE v \div 2^(ByteBits * (size0 - 3))
  IN size0 * 2^MantBits + mant0

GetCompact(v) ==
  LET size0 == (BitLength(v) + ByteBits - 1) \div ByteBits
      mant0 == IF size0 <= 3 THEN v * 2^(ByteBits * (3 - size0))
                             ELSE v \div 2^(ByteBits * (size0 - 3))
      carry == mant0 >= SignBit
      mant  == IF carry THEN mant0 \div 2^ByteBits ELSE mant0
      size  == IF carry THEN size0 + 1 ELSE size0
  IN size * 2^MantBits + mant

\* The value a compact word stands for, as the retarget code reads it.
Decode(nCompact) == SetCompact(nCompact).value

=============================================================================
