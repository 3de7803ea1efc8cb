---------------------------- MODULE GenerateBlocks ----------------------------
(***************************************************************************)
(* generateBlocks (rpc/mining.cpp 126-198), the loop behind                *)
(* generatetoaddress and generatetodescriptor: build a template on the     *)
(* tip, grind its nonce within the nMaxTries budget, submit a solved block *)
(* and count it, until nGenerate blocks are counted, the budget is spent   *)
(* or shutdown is requested.  Meanwhile other blocks may arrive on the     *)
(* node and a shutdown may be requested.  Calls stop at MaxHeight.        *)
(*                                                                         *)
(* The nonce is a NonceBits-bit counter (uint32_t in the code), nMaxTries  *)
(* a TriesBits-bit unsigned counter (uint64_t) and heights are IntBits-bit *)
(* signed ints.  Whether a header hashes below its target is a             *)
(* nondeterministic choice at each check.  The AuxPoW test at 144-153 is   *)
(* left out: both callers reject every network but regtest before calling, *)
(* and on regtest the test cannot throw.                                   *)
(***************************************************************************)
EXTENDS Integers

CONSTANTS
  NonceBits,    (* width of nNonce                                         *)
  TriesBits,    (* width of nMaxTries                                      *)
  IntBits,      (* width of int                                            *)
  Generate,     (* nGenerate arguments of the RPC                          *)
  MaxTriesArgs, (* maxtries arguments, as get_int64() returns them         *)
  MaxHeight     (* other blocks stop arriving at this height               *)

VARIABLES
  height,       (* ChainActive().Height()                                  *)
  shutdown,     (* ShutdownRequested()                                     *)
  pc,           (* "idle", "top", "pow", "after" or "done"                 *)
  nHeight,      (* generateBlocks' local nHeight                           *)
  nHeightEnd,   (* ... and nHeightEnd                                      *)
  nMaxTries,    (* the remaining budget                                    *)
  nNonce,       (* pblock->nNonce                                          *)
  tmplPrev,     (* the height the template builds on                       *)
  nBlocks,      (* blockHashes.size()                                      *)
  reply         (* "hashes" or the error thrown                            *)

vars == <<height, shutdown, pc, nHeight, nHeightEnd, nMaxTries, nNonce,
          tmplPrev, nBlocks, reply>>
locals == <<nHeight, nHeightEnd, nMaxTries, nNonce, tmplPrev, nBlocks>>

NonceMax == 2^NonceBits - 1     \* std::numeric_limits<uint32_t>::max()

\* A value stored into an int: two's complement wrap-around.
IntWrap(x) == ((x + 2^(IntBits - 1)) % 2^IntBits) - 2^(IntBits - 1)

Init ==
  /\ height = 0 /\ shutdown = FALSE /\ pc = "idle" /\ reply = "none"
  /\ nHeight = 0 /\ nHeightEnd = 0 /\ nMaxTries = 0 /\ nNonce = 0
  /\ tmplPrev = 0 /\ nBlocks = 0

\* generateBlocks returns or throws.
Return(r) == pc' = "done" /\ reply' = r

(***************************************************************************)
(* generatetoaddress (265-310): the int64 maxtries is stored into a        *)
(* uint64_t; generateBlocks reads the height under cs_main and computes    *)
(* nHeightEnd.                                                             *)
(***************************************************************************)
Call(n, mt) ==
  /\ pc \in {"idle", "done"} /\ ~shutdown /\ height < MaxHeight
  /\ nHeight' = height
  /\ nHeightEnd' = IntWrap(height + n)
  /\ nMaxTries' = mt % 2^TriesBits
  /\ nBlocks' = 0
  /\ pc' = "top"
  /\ UNCHANGED <<height, shutdown, nNonce, tmplPrev, reply>>

(***************************************************************************)
(* generatetodescriptor (221-263): the same regtest test, num_blocks read  *)
(* as an int and maxtries (default 1000000) as get_int64() stored into a   *)
(* uint64_t; a descriptor that does not parse, is ranged or does not       *)
(* expand throws before generateBlocks and changes nothing.                *)
(***************************************************************************)
CallToDescriptor(n, mt) == Call(n, mt)

(***************************************************************************)
(* The outer loop's test, then CreateNewBlock on the current tip, which    *)
(* may throw; a fresh template has nNonce 0.                               *)
(***************************************************************************)
LoopTop ==
  /\ pc = "top"
  /\ IF nHeight < nHeightEnd /\ ~shutdown
     THEN \E ok \in BOOLEAN :
            IF ok THEN /\ tmplPrev' = height /\ nNonce' = 0 /\ pc' = "pow"
                       /\ UNCHANGED reply
                  ELSE /\ Return("Could not create block template")
                       /\ UNCHANGED <<tmplPrev, nNonce>>
     ELSE Return("hashes") /\ UNCHANGED <<tmplPrev, nNonce>>
  /\ UNCHANGED <<height, shutdown, nHeight, nHeightEnd, nMaxTries, nBlocks>>

(***************************************************************************)
(* One pass of the nonce loop (169-175): while the budget lasts, the nonce *)
(* is below its maximum and no shutdown is requested, check the hash; a    *)
(* hit leaves the loop, a miss counts the nonce up and the budget down.    *)
(***************************************************************************)
Pow ==
  /\ pc = "pow"
  /\ IF nMaxTries > 0 /\ nNonce < NonceMax /\ ~shutdown
     THEN \E hit \in BOOLEAN :
            IF hit THEN pc' = "after" /\ UNCHANGED <<nNonce, nMaxTries>>
                   ELSE /\ nNonce' = nNonce + 1
                        /\ nMaxTries' = nMaxTries - 1
                        /\ UNCHANGED pc
     ELSE pc' = "after" /\ UNCHANGED <<nNonce, nMaxTries>>
  /\ UNCHANGED <<height, shutdown, nHeight, nHeightEnd, tmplPrev, nBlocks,
                 reply>>

After ==
  /\ pc = "after"
  /\ CASE nMaxTries = 0 \/ shutdown ->
            Return("hashes") /\ UNCHANGED <<height, nHeight, nBlocks>>
       [] nNonce = NonceMax ->
            pc' = "top" /\ UNCHANGED <<height, nHeight, nBlocks, reply>>
       [] OTHER ->
            /\ height' = IF tmplPrev = height THEN height + 1 ELSE height
            /\ nHeight' = nHeight + 1
            /\ nBlocks' = nBlocks + 1
            /\ pc' = "top"
            /\ UNCHANGED reply
  /\ UNCHANGED <<shutdown, nHeightEnd, nMaxTries, nNonce, tmplPrev>>

\* A block from elsewhere (a peer, another RPC) becomes the tip.
OtherBlock ==
  /\ height < MaxHeight /\ height' = height + 1
  /\ UNCHANGED <<shutdown, pc, reply, locals>>

\* StartShutdown(): the flag the loops poll.
RequestShutdown ==
  ~shutdown /\ shutdown' = TRUE /\ UNCHANGED <<height, pc, reply, locals>>

Next ==
  \/ \E n \in Generate, mt \in MaxTriesArgs :
       Call(n, mt) \/ CallToDescriptor(n, mt)
  \/ LoopTop \/ Pow \/ After
  \/ OtherBlock \/ RequestShutdown

\* The calling RPC thread runs on; it blocks only on cs_main.
Fairness == WF_vars(LoopTop) /\ WF_vars(Pow) /\ WF_vars(After)

Spec == Init /\ [][Next]_vars /\ Fairness

-----------------------------------------------------------------------------
(***************************************************************************)
(* Properties.                                                             *)
(***************************************************************************)

(***************************************************************************)
(* The loop implements GenerateSpec: with the budget read as nMaxTries and *)
(* the blocks still to mine as nHeightEnd - nHeight, every step of the     *)
(* code is a step of the specification or leaves it unchanged, and a busy  *)
(* call keeps making progress.  In particular the call ends with its list  *)
(* of hashes only when nblocks are counted, the budget is spent or         *)
(* shutdown was requested, and never counts a block found after shutdown.  *)
(***************************************************************************)
Abstract == INSTANCE GenerateSpec
              WITH state <- IF pc \in {"idle", "done"} THEN pc ELSE "busy",
                   toGo <- nHeightEnd - nHeight,
                   budget <- nMaxTries

=============================================================================
