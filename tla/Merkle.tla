------------------------------- MODULE Merkle -------------------------------
(***************************************************************************)
(* Merkle branches (primitives/block.cpp) and the Bitcoin Merkle tree they *)
(* are checked against.                                                    *)
(*                                                                         *)
(* Double-SHA256 of the concatenation of two hashes is taken to be         *)
(* collision free, so the pair <<left, right>> stands for it: two roots    *)
(* are equal exactly when they were built from the same leaves in the same *)
(* order.                                                                  *)
(***************************************************************************)
EXTENDS Integers, Sequences
LOCAL INSTANCE SequencesExt

\* Hash(BEGIN(a), END(a), BEGIN(b), END(b)).
Hash2(a, b) == <<a, b>>

(***************************************************************************)
(* ComputeMerkleRootFromBranch(hash, vMerkleBranch, nIndex).  nIndex is an *)
(* int: nIndex & 1 is its low bit and nIndex >>= 1 an arithmetic shift,    *)
(* which for a negative index is floor division (and stays negative).      *)
(* The first operator is a mutant that forgets the shift.                  *)
(***************************************************************************)
ComputeMerkleRootFromBranchNoShift(hash, vMerkleBranch, nIndex) ==
  FoldLeft(LAMBDA cur, step :
             IF nIndex % 2 = 1 THEN Hash2(step, cur) ELSE Hash2(cur, step),
           hash, vMerkleBranch)

ComputeMerkleRootFromBranch(hash, vMerkleBranch, nIndex) ==
  LET Step(acc, step) ==
        [cur |-> IF acc.idx % 2 = 1 THEN Hash2(step, acc.cur)
                                    ELSE Hash2(acc.cur, step),
         idx |-> acc.idx \div 2]
  IN FoldLeft(Step, [cur |-> hash, idx |-> nIndex], vMerkleBranch).cur

-----------------------------------------------------------------------------
(***************************************************************************)
(* The reference: Bitcoin's Merkle tree (consensus/merkle.cpp, not under   *)
(* src/; spec 4.2).  A level with an odd number of nodes pairs its last    *)
(* node with itself.                                                       *)
(***************************************************************************)
Padded(level) ==
  IF Len(level) % 2 = 1 THEN Append(level, level[Len(level)]) ELSE level

NextLevel(level) ==
  LET p == Padded(level)
  IN [i \in 1..(Len(p) \div 2) |-> Hash2(p[2 * i - 1], p[2 * i])]

\* BlockMerkleRoot over the transaction hashes.
RECURSIVE ComputeMerkleRoot(_)
ComputeMerkleRoot(leaves) ==
  IF Len(leaves) = 1 THEN leaves[1] ELSE ComputeMerkleRoot(NextLevel(leaves))

\* The siblings on the path from leaf pos (0-based) to the root.
RECURSIVE ComputeMerkleBranch(_, _)
ComputeMerkleBranch(leaves, pos) ==
  IF Len(leaves) = 1 THEN <<>>
  ELSE LET p   == Padded(leaves)
           sib == IF pos % 2 = 1 THEN p[pos] ELSE p[pos + 2]
       IN <<sib>> \o ComputeMerkleBranch(NextLevel(leaves), pos \div 2)

=============================================================================
