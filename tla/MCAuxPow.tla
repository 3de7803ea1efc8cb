------------------------------ MODULE MCAuxPow ------------------------------
(***************************************************************************)
(* An AuxPow instance: three aux blocks (B2 builds on B1, B3 competes with *)
(* B1) and four parent blocks whose transactions cover every outcome of    *)
(* the commitment search:                                                  *)
(*   P1  coinbase c1 commits to B1; a later transaction t1 commits to B2,  *)
(*       followed by more data (merkle size and nonce)                     *)
(*   P2  coinbase c2 commits to B2; t2 holds B2's hash un-reversed         *)
(*   P3  three transactions: c3 commits to B3, t3 has too few bytes after  *)
(*       the magic, u3 has no magic                                        *)
(*   P4  coinbase c4 commits to B1 but P4's hash misses the target; t4     *)
(*       commits to B3's hash with the AuxPoW bit still set                *)
(***************************************************************************)
EXTENDS AuxPow, TLC

CONSTANTS B1, B2, B3, G, P1, P2, P3, P4, c1, t1, c2, t2, c3, t3, u3, c4, t4

MCBlocks  == {B1, B2, B3}
MCPrev    == [b \in MCBlocks |-> IF b = B2 THEN B1 ELSE G]
MCParents == {P1, P2, P3, P4}

MCParentTxs ==
  (P1 :> <<c1, t1>>) @@ (P2 :> <<c2, t2>>) @@
  (P3 :> <<c3, t3, u3>>) @@ (P4 :> <<c4, t4>>)

\* Parent hashes: P1..P3 meet GetCompact(powLimit), P4 does not.
MCParentHash == (P1 :> 3) @@ (P2 :> 4) @@ (P3 :> 5) @@ (P4 :> 2^21)

\* Bytes after the magic; a commitment is Reverse(<<block, nVersion>>).
MCScriptSig ==
  (c1 :> <<BASE_VERSION, B1>>) @@ (t1 :> <<BASE_VERSION, B2, 0>>) @@
  (c2 :> <<BASE_VERSION, B2>>) @@ (t2 :> <<B2, BASE_VERSION>>) @@
  (c3 :> <<BASE_VERSION, B3>>) @@ (t3 :> <<BASE_VERSION>>) @@
  (u3 :> NoMagic) @@
  (c4 :> <<BASE_VERSION, B1>>) @@ (t4 :> <<AuxVersion, B3>>)

MCAuxBits == GetCompact(PowLimit)

\* A negative index, the honest ones, and one past a two-leaf tree.
MCIndices == {-1, 0, 1, 2}

=============================================================================
