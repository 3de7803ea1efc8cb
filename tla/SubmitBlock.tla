----------------------------- MODULE SubmitBlock -----------------------------
(***************************************************************************)
(* submitblock (rpc/mining.cpp) called by several RPC worker threads at    *)
(* once, against a node whose block index and active chain change between *)
(* the handler's critical sections.                                        *)
(*                                                                         *)
(* A call takes cs_main three times before block processing: the prev      *)
(* lookup with the AuxPoW gate, the duplicate check, and a second prev     *)
(* lookup.  It then registers a submitblock_StateCatcher and calls         *)
(* ProcessNewBlock, whose acceptance step and whose ActivateBestChain      *)
(* steps each hold cs_main on their own; any thread's activation may      *)
(* connect any stored block and announce it with BlockChecked to every     *)
(* registered catcher.  ProcessNewBlock is in validation.cpp (not under    *)
(* src/): its outcomes follow spec sections 4.7 and 7.                     *)
(*                                                                         *)
(* Blocks are model values with fixed properties: the block they build on, *)
(* the AuxPoW version bit, whether m_auxpow survives deserialization       *)
(* (block.h drops a proof with a null parent hash), whether the first      *)
(* transaction is a coinbase, whether CheckBlock passes, and whether       *)
(* ConnectBlock succeeds.                                                  *)
(***************************************************************************)
EXTENDS Naturals, FiniteSets

CONSTANTS
  Threads,           (* RPC worker threads calling submitblock             *)
  Blocks,            (* the blocks clients submit, genesis included        *)
  Genesis,           (* hashGenesisBlock                                   *)
  Prev,              (* Prev[b]: hashPrevBlock (not always a block we know)*)
  nAuxpowStartHeight,
  AuxBit,            (* the blocks whose header has the AuxPoW bit set     *)
  AuxData,           (* the blocks whose m_auxpow is non-null after decode *)
  Coinbase,          (* the blocks whose vtx[0] is a coinbase              *)
  CheckOk,           (* the blocks that pass CheckBlock                    *)
  ConnectOk          (* the blocks ConnectBlock accepts                    *)

\* Index entry states: not in mapBlockIndex, stored with data but not yet
\* connected, valid up to BLOCK_VALID_SCRIPTS, failed (BLOCK_FAILED_MASK).
Statuses == {"none", "stored", "valid", "failed"}

VARIABLES
  status,      (* status[b]: b's entry in the block index                  *)
  tip,         (* ChainActive().Tip()                                      *)
  pc,          (* pc[t]: where thread t is in submitblock                  *)
  blk,         (* blk[t]: the block thread t was asked to submit           *)
  found,       (* found[t]: sc->found of t's state catcher                 *)
  caught,      (* caught[t]: sc->state of t's state catcher                *)
  accepted,    (* accepted[t]: ProcessNewBlock's return value              *)
  newBlock,    (* newBlock[t]: its fNewBlock out-parameter                 *)
  reply        (* reply[t]: t's last answer                                *)

vars == <<status, tip, pc, blk, found, caught, accepted, newBlock, reply>>

InIndex(h) == h \in Blocks /\ status[h] # "none"      \* LookupBlockIndex(h)

RECURSIVE Height(_)
Height(b) == IF b = Genesis THEN 0 ELSE Height(Prev[b]) + 1

\* BlockValidationState values: IsValid, or Invalid(result, reason).
Valid == [result |-> "valid", reason |-> ""]
Invalid(result, reason) == [result |-> result, reason |-> reason]
NoState == [result |-> "none", reason |-> ""]

(***************************************************************************)
(* BIP22ValidationResult(state): the reply for a caught state.             *)
(***************************************************************************)
BIP22ValidationResult(st) ==
  CASE st.result = "valid" -> "null"
    [] st.reason = "" -> "rejected"
    [] st.result \in {"header-duplicate", "invalid-header"}
         /\ st.reason \in {"duplicate", "duplicate-invalid"} -> st.reason
    [] st.result = "invalid-prev" -> "inconclusive-not-best-prevblk"
    [] OTHER -> st.reason

(***************************************************************************)
(* The threads whose catcher takes a BlockChecked(x, ...) callback, out of *)
(* the registered ones ts: submitblock_StateCatcher::BlockChecked ignores  *)
(* blocks with another hash.  The first operator is a mutant without that  *)
(* filter.                                                                 *)
(***************************************************************************)
CatchersAnyHash(x, ts) == ts

Catchers(x, ts) == {u \in ts : blk[u] = x}

\* Threads between RegisterSharedValidationInterface and Unregister...
Registered == {u \in Threads : pc[u] \in {"activate", "finish"}}

\* GetMainSignals().BlockChecked(x, st) with catchers ts registered.
BlockChecked(x, st, ts) ==
  /\ found'  = [u \in Threads |-> found[u] \/ u \in Catchers(x, ts)]
  /\ caught' = [u \in Threads |-> IF u \in Catchers(x, ts) THEN st ELSE caught[u]]

-----------------------------------------------------------------------------
Init ==
  /\ status = [b \in Blocks |-> IF b = Genesis THEN "valid" ELSE "none"]
  /\ tip = Genesis
  /\ pc = [t \in Threads |-> "idle"]
  /\ blk = [t \in Threads |-> Genesis]
  /\ found = [t \in Threads |-> FALSE]
  /\ caught = [t \in Threads |-> NoState]
  /\ accepted = [t \in Threads |-> FALSE]
  /\ newBlock = [t \in Threads |-> FALSE]
  /\ reply = [t \in Threads |-> "none"]

\* Return r: the call's locals (the catcher, accepted, new_block) are gone.
Finish(t, r) ==
  /\ pc' = [pc EXCEPT ![t] = "done"]
  /\ reply' = [reply EXCEPT ![t] = r]
  /\ found' = [found EXCEPT ![t] = FALSE]
  /\ caught' = [caught EXCEPT ![t] = NoState]
  /\ accepted' = [accepted EXCEPT ![t] = FALSE]
  /\ newBlock' = [newBlock EXCEPT ![t] = FALSE]

\* Go on to the handler's next section.
Continue(t, next) ==
  /\ pc' = [pc EXCEPT ![t] = next]
  /\ UNCHANGED <<reply, found, caught, accepted, newBlock>>

(***************************************************************************)
(* The AuxPoW gate (mining.cpp 949-964) for block b at height nHeight: the *)
(* rejection, or "" to go on.                                               *)
(***************************************************************************)
AuxPowGate(b, nHeight) ==
  LET should == nHeight >= nAuxpowStartHeight
  IN CASE should /\ b \notin AuxBit -> "rejected: bad-auxpow-version-missing"
       [] ~should /\ b \in AuxBit -> "rejected: bad-auxpow-unexpected"
       [] should /\ b \notin AuxData -> "rejected: bad-auxpow-data-missing"
       [] OTHER -> ""

(***************************************************************************)
(* DecodeHexBlk, then under cs_main the prev lookup and the height (the    *)
(* genesis block has none), the AuxPoW gate, and the coinbase test         *)
(* (mining.cpp 922-971).  An unknown prev throws an RPC error.             *)
(***************************************************************************)
Receive(t, b) ==
  LET known   == InIndex(Prev[b]) \/ b = Genesis
      nHeight == IF InIndex(Prev[b]) THEN Height(b) ELSE 0
      gate    == AuxPowGate(b, nHeight)
  IN /\ pc[t] \in {"idle", "done"}
     /\ blk' = [blk EXCEPT ![t] = b]
     /\ CASE ~known -> Finish(t, "error: previous block not known")
          [] gate # "" -> Finish(t, gate)
          [] b \notin Coinbase -> Finish(t, "rejected: bad-cb-missing")
          [] OTHER -> Continue(t, "dupcheck")
     /\ UNCHANGED <<status, tip>>

\* The duplicate check, in its own cs_main section (mining.cpp 974-989).
DupCheck(t) ==
  LET b == blk[t] IN
  /\ pc[t] = "dupcheck"
  /\ CASE status[b] = "valid"  -> Finish(t, "duplicate")
       [] status[b] = "failed" -> Finish(t, "duplicate-invalid")
       [] OTHER -> Continue(t, "prevcheck")
  /\ UNCHANGED <<status, tip, blk>>

\* The prev lookup repeated in a third cs_main section (mining.cpp 992-1003).
PrevCheck(t) ==
  /\ pc[t] = "prevcheck"
  /\ IF InIndex(Prev[blk[t]]) \/ blk[t] = Genesis
     THEN Continue(t, "accept")
     ELSE Finish(t, "inconclusive - not-best-prevblk")
  /\ UNCHANGED <<status, tip, blk>>

\* Stored blocks reachable from b through stored blocks (b included).
RECURSIVE StoredAbove(_, _)
StoredAbove(b, c) ==
  /\ status[c] = "stored"
  /\ (c = b \/ (Prev[c] \in Blocks /\ StoredAbove(b, Prev[c])))

\* The most work a chain through child b of the tip can reach.
BestHeightVia(b) ==
  LET hs == {Height(c) : c \in {c \in Blocks : StoredAbove(b, c)}}
  IN CHOOSE h \in hs : \A g \in hs : g <= h

\* The children of the tip ActivateBestChain may connect next.
NextToConnect ==
  LET kids == {b \in Blocks : status[b] = "stored" /\ Prev[b] = tip}
  IN {b \in kids : \A c \in kids : BestHeightVia(c) <= BestHeightVia(b)}

(***************************************************************************)
(* RegisterSharedValidationInterface(sc), then ProcessNewBlock's CheckBlock*)
(* and AcceptBlock under cs_main.  A failure is announced by BlockChecked  *)
(* and ends ProcessNewBlock with false; otherwise the block is stored      *)
(* (fNewBlock) or was already there, and ActivateBestChain follows.        *)
(***************************************************************************)
Accept(t) ==
  LET b  == blk[t]
      ts == Registered \cup {t}
      Reject(st) == /\ BlockChecked(b, st, ts)
                    /\ accepted' = [accepted EXCEPT ![t] = FALSE]
                    /\ pc' = [pc EXCEPT ![t] = "finish"]
                    /\ UNCHANGED <<status, newBlock>>
      Take(isNew) == /\ accepted' = [accepted EXCEPT ![t] = TRUE]
                     /\ newBlock' = [newBlock EXCEPT ![t] = isNew]
                     /\ found' = [found EXCEPT ![t] = FALSE]
                     /\ caught' = [caught EXCEPT ![t] = NoState]
                     /\ pc' = [pc EXCEPT ![t] = "activate"]
  IN /\ pc[t] = "accept"
     /\ CASE b \notin CheckOk -> Reject(Invalid("consensus", "bad-blk"))
          [] status[b] = "failed" -> Reject(Invalid("cached-invalid", "duplicate"))
          [] Prev[b] \in Blocks /\ status[Prev[b]] = "failed" ->
               Reject(Invalid("invalid-prev", "bad-prevblk"))
          [] status[b] # "none" -> Take(FALSE) /\ UNCHANGED status
          [] OTHER -> Take(TRUE) /\ status' = [status EXCEPT ![b] = "stored"]
     /\ UNCHANGED <<tip, blk, reply>>

(***************************************************************************)
(* One ActivateBestChainStep of thread t's ProcessNewBlock: connect the    *)
(* tip's child on the most-work chain and announce the result to every     *)
(* registered catcher.  A block ConnectBlock rejects is marked failed.     *)
(***************************************************************************)
ConnectStep(t) ==
  /\ pc[t] = "activate"
  /\ \E b \in NextToConnect :
       IF b \in ConnectOk
       THEN /\ status' = [status EXCEPT ![b] = "valid"]
            /\ tip' = b
            /\ BlockChecked(b, Valid, Registered)
       ELSE /\ status' = [status EXCEPT ![b] = "failed"]
            /\ BlockChecked(b, Invalid("consensus", "bad-connect"), Registered)
            /\ UNCHANGED tip
  /\ UNCHANGED <<pc, blk, accepted, newBlock, reply>>

(***************************************************************************)
(* ProcessNewBlock returns (when no better chain is left to connect, or    *)
(* after a rejection); the catcher is unregistered and the reply chosen    *)
(* from it, then from accepted and new_block (mining.cpp 1010-1032).       *)
(***************************************************************************)
Complete(t) ==
  /\ \/ pc[t] = "finish"
     \/ pc[t] = "activate" /\ NextToConnect = {}
  /\ Finish(t, CASE found[t] -> BIP22ValidationResult(caught[t])
                 [] ~accepted[t] -> "rejected"
                 [] ~newBlock[t] -> "duplicate"
                 [] OTHER -> "null")
  /\ UNCHANGED <<status, tip, blk>>

Next ==
  \E t \in Threads :
    \/ \E b \in Blocks : Receive(t, b)
    \/ DupCheck(t) \/ PrevCheck(t) \/ Accept(t) \/ ConnectStep(t) \/ Complete(t)

(***************************************************************************)
(* Each RPC thread runs its call to the end once it holds cs_main again:   *)
(* the lock is not held forever by anyone, so every step a thread can take *)
(* is eventually taken.  Nothing obliges a client to submit.               *)
(***************************************************************************)
Fairness ==
  \A t \in Threads :
    /\ WF_vars(DupCheck(t)) /\ WF_vars(PrevCheck(t)) /\ WF_vars(Accept(t))
    /\ WF_vars(ConnectStep(t)) /\ WF_vars(Complete(t))

Spec == Init /\ [][Next]_vars /\ Fairness

-----------------------------------------------------------------------------
(***************************************************************************)
(* getblocktemplate in "proposal" mode (mining.cpp 638-647), which runs in *)
(* one cs_main section and changes no state but the caller's reply.        *)
(* CheckBlockTemplateProposal (430-473) looks the block's own hash up and  *)
(* otherwise calls TestBlockValidity with pindexPrev = the active tip;     *)
(* hashPrevBlock is never looked at.                                       *)
(***************************************************************************)

\* TestBlockValidity (validation.cpp, not under src/) checks the block as
\* the next block on the tip it is given: CheckBlock, then ConnectBlock on
\* a copy of the tip's coins view, which is committed nowhere.
TestBlockValidity(b) ==
  CASE b \notin CheckOk   -> Invalid("consensus", "bad-blk")
    [] b \notin ConnectOk -> Invalid("consensus", "bad-connect")
    [] OTHER              -> Valid

CheckBlockTemplateProposal(b) ==
  CASE status[b] = "valid"  -> Invalid("header-duplicate", "duplicate")
    [] status[b] = "failed" -> Invalid("header-duplicate", "duplicate-invalid")
    [] OTHER                -> TestBlockValidity(b)

Propose(t, b) ==
  /\ pc[t] \in {"idle", "done"}
  /\ blk' = [blk EXCEPT ![t] = b]
  /\ Finish(t, BIP22ValidationResult(CheckBlockTemplateProposal(b)))
  /\ UNCHANGED <<status, tip>>

\* submitblock and proposal calls from the same RPC threads.
NextWithProposals == Next \/ \E t \in Threads, b \in Blocks : Propose(t, b)

-----------------------------------------------------------------------------
(***************************************************************************)
(* Properties.                                                             *)
(***************************************************************************)

\* Thread t returns reply r in this step.
Replies(t, r) == pc[t] # "done" /\ pc'[t] = "done" /\ reply'[t] = r

(***************************************************************************)
(* When submitblock answers null (BIP22: accepted), the block it was given *)
(* is in the block index and not marked failed: neither another thread's   *)
(* activation failing it nor the result for another block announced to    *)
(* the same catchers makes a rejected block look accepted.                 *)
(***************************************************************************)
NullReplyMeansAccepted ==
  [][\A t \in Threads :
       Replies(t, "null") => status[blk[t]] \in {"stored", "valid"}]_vars

(***************************************************************************)
(* Spec 4.7.1: "duplicate" means the block is already known and valid.     *)
(***************************************************************************)
DuplicateMeansKnownValid ==
  [][\A t \in Threads :
       Replies(t, "duplicate") => status[blk[t]] \in {"stored", "valid"}]_vars

\* Thread t returns from a call in this step (a repeated identical answer
\* from "done" is the same step as before it).
Answers(t) ==
  /\ pc'[t] = "done"
  /\ <<pc[t], blk[t], reply[t]>> # <<pc'[t], blk'[t], reply'[t]>>

(***************************************************************************)
(* Spec 4.7 and 4.7.1 for submitblock and getblocktemplate proposals: the  *)
(* reply inconclusive-not-best-prevblk is given for a block exactly when   *)
(* its previous block is missing from the index.  The code breaks this in *)
(* three places: submitblock throws for an unknown parent (mining.cpp      *)
(* 946), BIP22ValidationResult gives the reply for a parent that is known *)
(* but failed (380), and a proposal is checked as a child of the tip      *)
(* whatever its parent is (464).                                           *)
(***************************************************************************)
PrevBlockReplyPerSpec ==
  [][\A t \in Threads :
       Answers(t) /\ blk'[t] # Genesis =>
         ((reply'[t] = "inconclusive-not-best-prevblk") = ~InIndex(Prev[blk'[t]]))]_vars

=============================================================================
