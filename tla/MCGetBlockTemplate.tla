------------------------- MODULE MCGetBlockTemplate -------------------------
(***************************************************************************)
(* Two RPC threads.  Time is scaled down with its order kept: a template   *)
(* is rebuilt for a mempool change after 1 tick (5 s).  GetBlockTemplate   *)
(* gives a long poll's first deadline (1 min) 2 ticks and each later one   *)
(* (10 s) 1 tick; LongPollId gives them 3 and 2 and starts the mempool     *)
(* counter at 8, a value a running node reaches, so that it passes         *)
(* 9 -> 10 where its decimal form grows a digit.                           *)
(***************************************************************************)
EXTENDS GetBlockTemplate, TLC

CONSTANTS T1, T2

MCThreads == {T1, T2}

\* The two threads run the same handler.
ThreadSymmetry == Permutations(MCThreads)

=============================================================================
