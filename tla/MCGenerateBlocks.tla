-------------------------- MODULE MCGenerateBlocks --------------------------
(***************************************************************************)
(* A 2-bit nonce, a 3-bit budget and 4-bit ints.  The arguments include a  *)
(* negative and a zero block count, a zero budget, a budget of one, one    *)
(* larger than the nonce space (so a template runs out of nonces and the   *)
(* loop starts over), and maxtries -1, which becomes the largest budget.   *)
(***************************************************************************)
EXTENDS GenerateBlocks

MCGenerate == {-1, 0, 1, 2}
MCMaxTriesArgs == {-1, 0, 1, 4}

=============================================================================
