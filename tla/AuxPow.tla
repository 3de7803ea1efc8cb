------------------------------- MODULE AuxPow -------------------------------
(***************************************************************************)
(* Merge-mined blocks: CheckAuxPowProofOfWork (pow.cpp) and the process-   *)
(* wide set of parent hashes it consults, around a node that accepts aux   *)
(* blocks, connects them to its active chain, reorganises and restarts.    *)
(*                                                                         *)
(* Data is abstracted: a parent block is a model value with a 256-bit hash *)
(* (an integer, for CheckProofOfWork), a list of transactions, and its     *)
(* Merkle root over them; a transaction is a model value whose first       *)
(* input's scriptSig is either NoMagic or the bytes after the magic prefix *)
(* {0x70,0x6c,0x6d,0x01}.  A header hash is the pair <<block, nVersion>>;  *)
(* each of its two elements stands for 16 bytes, so a commitment is the    *)
(* reversed pair and needs at least 2 elements after the magic.            *)
(***************************************************************************)
EXTENDS PowCheck, Merkle, Sequences, FiniteSets
LOCAL INSTANCE SequencesExt

CONSTANTS
  Blocks,          (* aux (this chain's) blocks                              *)
  Genesis,         (* the block every branch starts from                     *)
  Prev,            (* Prev[b]: the block b builds on                         *)
  AuxBits,         (* nBits the aux blocks carry                             *)
  Parents,         (* parent-chain blocks                                    *)
  ParentHash,      (* ParentHash[p]: GetParentBlockHash() as an integer      *)
  ParentTxs,       (* ParentTxs[p]: the parent's transactions, coinbase first*)
  ScriptSig,       (* ScriptSig[tx]: NoMagic, or the bytes after the magic   *)
  NoMagic,
  Unknown,         (* a block the node has not accepted                      *)
  NoAuxPow,        (* m_auxpow is null                                       *)
  Indices          (* the nIndex values a proof may carry                    *)

AUXPOW_VERSION_BIT == 256                       \* 1 << 8
BASE_VERSION       == 7
AuxVersion         == BASE_VERSION + AUXPOW_VERSION_BIT
HashLen            == 2                         \* sizeof(uint256)

Txs == UNION {Range(ParentTxs[p]) : p \in Parents}

\* Every Merkle branch of some transaction of some parent: a proof may
\* present any of them with any transaction and any index.
Branches == UNION {{ComputeMerkleBranch(ParentTxs[p], i) :
                      i \in 0..(Len(ParentTxs[p]) - 1)} : p \in Parents}

Proofs == [parentBlock : Parents, coinbaseTx : Txs,
           vMerkleBranch : Branches, nIndex : Indices]

VARIABLES
  setAuxPowScannedParentHashes,   (* pow.cpp:27, guarded by cs_main      *)
  stored,                         (* stored[b]: b's accepted proof, or Unknown *)
  chain                           (* the active chain above Genesis      *)

vars == <<setAuxPowScannedParentHashes, stored, chain>>

\* IsAuxpow(): nVersion & AUXPOW_VERSION_BIT.
IsAuxpow(nVersion) == (nVersion \div AUXPOW_VERSION_BIT) % 2 = 1

\* headerNoAux.nVersion &= ~AUXPOW_VERSION_BIT.
ClearAuxBit(nVersion) ==
  IF IsAuxpow(nVersion) THEN nVersion - AUXPOW_VERSION_BIT ELSE nVersion

\* CBlockHeader::GetHash() of block b's header with version nVersion.
HeaderHash(b, nVersion) == <<b, nVersion>>

\* The parent block's hashMerkleRoot.
ParentMerkleRoot(p) == ComputeMerkleRoot(ParentTxs[p])

(***************************************************************************)
(* CheckAuxPowProofOfWork(block, params) for aux block b (whose header has *)
(* the AuxPoW bit set) carrying proof pr, in the code's order: m_auxpow    *)
(* present, parent hash meets nBits, Merkle branch of the given "coinbase" *)
(* reaches the parent's root, magic found, at least 32 bytes after it,     *)
(* the reversed commitment equals the hash of b's header without the       *)
(* AuxPoW bit, and the parent hash is not in the scanned set.  The first   *)
(* two operators are mutants: without the Merkle test and without the      *)
(* duplicate test.                                                         *)
(***************************************************************************)
CommitmentOf(tx) == Reverse(SubSeq(ScriptSig[tx], 1, HashLen))

CheckAuxPowProofOfWorkNoMerkle(b, pr) ==
  /\ IsAuxpow(AuxVersion) /\ pr # NoAuxPow
  /\ CheckProofOfWork(ParentHash[pr.parentBlock], AuxBits)
  /\ ScriptSig[pr.coinbaseTx] # NoMagic
  /\ Len(ScriptSig[pr.coinbaseTx]) >= HashLen
  /\ CommitmentOf(pr.coinbaseTx) = HeaderHash(b, ClearAuxBit(AuxVersion))
  /\ ParentHash[pr.parentBlock] \notin setAuxPowScannedParentHashes

CheckAuxPowProofOfWorkNoDuplicate(b, pr) ==
  /\ IsAuxpow(AuxVersion) /\ pr # NoAuxPow
  /\ CheckProofOfWork(ParentHash[pr.parentBlock], AuxBits)
  /\ ComputeMerkleRootFromBranch(pr.coinbaseTx, pr.vMerkleBranch, pr.nIndex)
       = ParentMerkleRoot(pr.parentBlock)
  /\ ScriptSig[pr.coinbaseTx] # NoMagic
  /\ Len(ScriptSig[pr.coinbaseTx]) >= HashLen
  /\ CommitmentOf(pr.coinbaseTx) = HeaderHash(b, ClearAuxBit(AuxVersion))

CheckAuxPowProofOfWork(b, pr) ==
  /\ IsAuxpow(AuxVersion) /\ pr # NoAuxPow
  /\ CheckProofOfWork(ParentHash[pr.parentBlock], AuxBits)
  /\ ComputeMerkleRootFromBranch(pr.coinbaseTx, pr.vMerkleBranch, pr.nIndex)
       = ParentMerkleRoot(pr.parentBlock)
  /\ ScriptSig[pr.coinbaseTx] # NoMagic
  /\ Len(ScriptSig[pr.coinbaseTx]) >= HashLen
  /\ CommitmentOf(pr.coinbaseTx) = HeaderHash(b, ClearAuxBit(AuxVersion))
  /\ ParentHash[pr.parentBlock] \notin setAuxPowScannedParentHashes

Tip == IF chain = <<>> THEN Genesis ELSE chain[Len(chain)]

ParentHashesOf(c) == {ParentHash[stored[c[i]].parentBlock] : i \in DOMAIN c}

-----------------------------------------------------------------------------
Init ==
  /\ setAuxPowScannedParentHashes = {}
  /\ stored = [b \in Blocks |-> Unknown]
  /\ chain = <<>>

(***************************************************************************)
(* A new aux block b with proof pr is validated under cs_main and stored.  *)
(* Its predecessor's header must be known.  The call site is in            *)
(* validation.cpp (not under src/): a block that fails the check is        *)
(* rejected and the node's state does not change.                          *)
(***************************************************************************)
AcceptBlock(b, pr) ==
  /\ stored[b] = Unknown
  /\ Prev[b] \in {Genesis} \cup {x \in Blocks : stored[x] # Unknown}
  /\ CheckAuxPowProofOfWork(b, pr)
  /\ stored' = [stored EXCEPT ![b] = pr]
  /\ UNCHANGED <<setAuxPowScannedParentHashes, chain>>

(***************************************************************************)
(* ConnectBlock (validation.cpp; pow.cpp:308 and spec 4.5): a stored block *)
(* extending the tip becomes the tip and its parent hash enters the set.   *)
(* The first operator is a mutant that does not check b extends the tip.   *)
(***************************************************************************)
ConnectBlockAnyTip(b) ==
  /\ stored[b] # Unknown
  /\ chain' = Append(chain, b)
  /\ setAuxPowScannedParentHashes' =
       setAuxPowScannedParentHashes \cup {ParentHash[stored[b].parentBlock]}
  /\ UNCHANGED stored

ConnectBlock(b) ==
  /\ stored[b] # Unknown
  /\ Prev[b] = Tip
  /\ chain' = Append(chain, b)
  /\ setAuxPowScannedParentHashes' =
       setAuxPowScannedParentHashes \cup {ParentHash[stored[b].parentBlock]}
  /\ UNCHANGED stored

(***************************************************************************)
(* DisconnectTip during a reorganisation.  Nothing in the sources removes  *)
(* a hash from the set; the spec (section 5) has it grow monotonically.    *)
(***************************************************************************)
DisconnectTip ==
  /\ chain # <<>>
  /\ chain' = SubSeq(chain, 1, Len(chain) - 1)
  /\ UNCHANGED <<setAuxPowScannedParentHashes, stored>>

(***************************************************************************)
(* A restart: the in-memory set is lost and, as spec section 5 requires,   *)
(* rebuilt from the active chain; stored blocks and the chain persist.     *)
(***************************************************************************)
Restart ==
  /\ setAuxPowScannedParentHashes' = ParentHashesOf(chain)
  /\ UNCHANGED <<stored, chain>>

Next ==
  \/ \E b \in Blocks, pr \in Proofs \cup {NoAuxPow} : AcceptBlock(b, pr)
  \/ \E b \in Blocks : ConnectBlock(b)
  \/ DisconnectTip
  \/ Restart

Spec == Init /\ [][Next]_vars

-----------------------------------------------------------------------------
(***************************************************************************)
(* Properties.                                                             *)
(***************************************************************************)

TypeOK ==
  /\ setAuxPowScannedParentHashes \subseteq {ParentHash[p] : p \in Parents}
  /\ stored \in [Blocks -> Proofs \cup {Unknown}]
  /\ chain \in Seq(Blocks) /\ Len(chain) <= Cardinality(Blocks)

\* Transaction tx sits at position pos (0-based) of parent p.
InParentAt(tx, p, pos) == pos < Len(ParentTxs[p]) /\ ParentTxs[p][pos + 1] = tx

CommitsTo(tx, b) ==
  /\ ScriptSig[tx] # NoMagic /\ Len(ScriptSig[tx]) >= HashLen
  /\ CommitmentOf(tx) = HeaderHash(b, BASE_VERSION)

(***************************************************************************)
(* Every stored aux block is backed by real parent-chain work bound to it: *)
(* its parent's hash meets the block's target, and a transaction that is   *)
(* really in that parent's Merkle tree commits to the block's header.  So  *)
(* CheckAuxPowProofOfWork never lets one block borrow work whose parent    *)
(* commits to something else, however the branch and nIndex are forged.   *)
(***************************************************************************)
AcceptedProofBindsBlock ==
  \A b \in Blocks : stored[b] # Unknown =>
    LET pr == stored[b] IN
    /\ CheckProofOfWork(ParentHash[pr.parentBlock], AuxBits)
    /\ \E pos \in 0..(Len(ParentTxs[pr.parentBlock]) - 1) :
         InParentAt(pr.coinbaseTx, pr.parentBlock, pos)
    /\ CommitsTo(pr.coinbaseTx, b)

(***************************************************************************)
(* The parent whose work a block on the active chain already uses is never *)
(* accepted again for another block: not after a reorganisation (the set  *)
(* keeps its hashes) and not after a restart (the set is rebuilt).         *)
(***************************************************************************)
ActiveParentNeverReused ==
  [][\A b \in Blocks :
       stored[b] = Unknown /\ stored'[b] # Unknown =>
         ParentHash[stored'[b].parentBlock] \notin ParentHashesOf(chain)]_vars

(***************************************************************************)
(* Spec 3 and 4.5: the proof's transaction is the parent's coinbase (the   *)
(* first transaction, index 0).                                            *)
(***************************************************************************)
AcceptedFromCoinbase ==
  \A b \in Blocks : stored[b] # Unknown =>
    stored[b].coinbaseTx = ParentTxs[stored[b].parentBlock][1]

=============================================================================
