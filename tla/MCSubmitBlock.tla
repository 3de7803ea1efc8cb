---------------------------- MODULE MCSubmitBlock ----------------------------
(***************************************************************************)
(* Two RPC threads submitting blocks around a genesis block G, with the    *)
(* AuxPoW rules active from height 2:                                      *)
(*   X  height 1, valid;            Z  height 2 on X, AuxPoW, valid;       *)
(*   Y  height 1, fails ConnectBlock; W  height 2 on Y, AuxPoW;            *)
(*   M  height 1, fails CheckBlock;  C  height 1, no coinbase;             *)
(*   U  height 1 with the AuxPoW bit; V  height 2 on X without it;         *)
(*   N  height 2 on X, AuxPoW bit but its proof dropped at decode;         *)
(*   O  builds on Q, a block the node has never seen.                      *)
(***************************************************************************)
EXTENDS SubmitBlock, TLC

CONSTANTS T1, T2, G, X, Y, Z, W, M, C, U, V, N, O, Q

MCThreads == {T1, T2}
MCBlocks  == {G, X, Y, Z, W, M, C, U, V, N, O}
MCPrev    == [b \in MCBlocks |->
               CASE b \in {X, Y, M, C, U} -> G
                 [] b \in {Z, V, N}       -> X
                 [] b = W                 -> Y
                 [] b = O                 -> Q
                 [] OTHER                 -> Q]
MCAuxBit   == {Z, W, U, N}
MCAuxData  == {Z, W, U}
MCCoinbase == MCBlocks \ {C}
MCCheckOk  == MCBlocks \ {M}
MCConnectOk == MCBlocks \ {Y}

\* The two threads run the same handler.
ThreadSymmetry == Permutations(MCThreads)

=============================================================================
