--------------------------- MODULE GetBlockTemplate ---------------------------
(***************************************************************************)
(* getblocktemplate (rpc/mining.cpp 555-885) called by several RPC worker  *)
(* threads: the template cache kept in function statics (pindexPrev,       *)
(* nStart, pblocktemplate, nTransactionsUpdatedLast), the long poll that   *)
(* releases cs_main while it waits on g_best_block_cv, and the longpollid  *)
(* it hands out and reads back.                                            *)
(*                                                                         *)
(* The node around it: the active tip (a block counter), the mempool's     *)
(* GetTransactionsUpdated() counter, GetTime(), and the RPC server's       *)
(* running flag.  Everything else in the reply (version bits, transactions,*)
(* limits, aux fields) is read under cs_main from the same pindexPrev and  *)
(* template and is left out.                                               *)
(***************************************************************************)
EXTENDS Naturals

CONSTANTS
  Threads,        (* RPC worker threads                                    *)
  Null,           (* a null CBlockIndex* / an absent template              *)
  MaxTip,         (* the tip stops advancing at this height                *)
  TxStart,        (* GetTransactionsUpdated() when the model starts        *)
  MaxTx,          (* ... and where it stops growing                        *)
  MaxTime,        (* GetTime() stops advancing here                        *)
  TemplateAge,    (* 5: seconds before a mempool change rebuilds           *)
  FirstWait,      (* 1 minute: the long poll's first deadline              *)
  RetryWait       (* 10 seconds: each later deadline                       *)

VARIABLES
  tip,                       (* ChainActive().Tip(), also g_best_block     *)
  txUpdated,                 (* mempool.GetTransactionsUpdated()           *)
  now,                       (* GetTime()                                  *)
  running,                   (* IsRPCRunning()                             *)
  pindexPrev,                (* static CBlockIndex* pindexPrev             *)
  nStart,                    (* static int64_t nStart                      *)
  nTransactionsUpdatedLast,  (* static unsigned int                        *)
  pblocktemplate,            (* static template: the tip it builds on      *)
  pc,                        (* pc[t]: "idle", "wait" or "done"            *)
  watched,                   (* hashWatchedChain of t's long poll          *)
  txLP,                      (* nTransactionsUpdatedLastLP                 *)
  checktxtime,               (* the long poll's current deadline           *)
  lastId,                    (* the longpollid t was last given            *)
  reply                      (* t's last answer                            *)

vars == <<tip, txUpdated, now, running, pindexPrev, nStart,
          nTransactionsUpdatedLast, pblocktemplate, pc, watched, txLP,
          checktxtime, lastId, reply>>
node   == <<tip, txUpdated, now, running>>
cache  == <<pindexPrev, nStart, nTransactionsUpdatedLast, pblocktemplate>>
client == <<pc, watched, txLP, checktxtime, lastId, reply>>

NoId == [tip |-> Null, tx |-> 0]

\* The answers: a template, or an RPC error with its message.
Template(prev, index) == [kind |-> "template", prev |-> prev, index |-> index]
Error(msg) == [kind |-> msg, prev |-> Null, index |-> Null]

\* std::to_string(n).length() and ToString(n).length() for n >= 0.
RECURSIVE Digits(_)
Digits(n) == IF n < 10 THEN 1 ELSE 1 + Digits(n \div 10)

\* The longpollid string <tip hash hex (64 chars)><ToString(counter)>, by length.
IdLength(id) == 64 + Digits(id.tx)

Init ==
  /\ tip = 0 /\ txUpdated = TxStart /\ now = 0 /\ running = TRUE
  /\ pindexPrev = Null /\ nStart = 0 /\ nTransactionsUpdatedLast = 0
  /\ pblocktemplate = Null
  /\ pc = [t \in Threads |-> "idle"]
  /\ watched = [t \in Threads |-> Null]
  /\ txLP = [t \in Threads |-> 0]
  /\ checktxtime = [t \in Threads |-> 0]
  /\ lastId = [t \in Threads |-> NoId]
  /\ reply = [t \in Threads |-> Error("none")]

\* Return answer r to thread t; the long poll's locals are gone.
Answer(t, r) ==
  /\ pc' = [pc EXCEPT ![t] = "done"]
  /\ reply' = [reply EXCEPT ![t] = r]
  /\ watched' = [watched EXCEPT ![t] = Null]
  /\ txLP' = [txLP EXCEPT ![t] = 0]
  /\ checktxtime' = [checktxtime EXCEPT ![t] = 0]

\* The cached template is rebuilt (mining.cpp 761-762).
Stale ==
  \/ pindexPrev # tip
  \/ txUpdated # nTransactionsUpdatedLast /\ now - nStart > TemplateAge

(***************************************************************************)
(* The rebuild (mining.cpp 763-786): forget pindexPrev, record the mempool *)
(* counter and the time, run CreateNewBlock, which may throw, and only on  *)
(* success remember the tip.  The reply reads the template's               *)
(* hashPrevBlock and the longpollid and height from pindexPrev (802-830).  *)
(* The first operator is a mutant that records the tip before             *)
(* CreateNewBlock.                                                         *)
(***************************************************************************)
RebuildEarlyPrev(t) ==
  /\ nTransactionsUpdatedLast' = txUpdated
  /\ nStart' = now
  /\ pindexPrev' = tip
  /\ \E ok \in BOOLEAN :
       IF ok THEN /\ pblocktemplate' = tip
                  /\ Answer(t, Template(tip, tip))
                  /\ lastId' = [lastId EXCEPT ![t] = [tip |-> tip, tx |-> txUpdated]]
             ELSE /\ UNCHANGED <<pblocktemplate, lastId>>
                  /\ Answer(t, Error("Block template creation failed"))

Rebuild(t) ==
  /\ nTransactionsUpdatedLast' = txUpdated
  /\ nStart' = now
  /\ \E ok \in BOOLEAN :
       IF ok THEN /\ pblocktemplate' = tip
                  /\ pindexPrev' = tip
                  /\ Answer(t, Template(tip, tip))
                  /\ lastId' = [lastId EXCEPT ![t] = [tip |-> tip, tx |-> txUpdated]]
             ELSE /\ pindexPrev' = Null
                  /\ UNCHANGED <<pblocktemplate, lastId>>
                  /\ Answer(t, Error("Block template creation failed"))

\* The cached template answers (mining.cpp 788-830).
UseCache(t) ==
  /\ Answer(t, Template(pblocktemplate, pindexPrev))
  /\ lastId' = [lastId EXCEPT ![t] = [tip |-> pindexPrev,
                                      tx |-> nTransactionsUpdatedLast]]
  /\ UNCHANGED cache

\* From the template cache on, under cs_main.
Respond(t) == IF Stale THEN Rebuild(t) ELSE UseCache(t)

(***************************************************************************)
(* A call, under cs_main (mining.cpp 621-754): without a longpollid it     *)
(* answers at once; with the id it was given, the id's length is checked   *)
(* against the current nTransactionsUpdatedLast and the wait begins on the *)
(* id's tip and counter; a non-string longpollid waits on the current tip  *)
(* and counter.  Waiting releases cs_main.                                 *)
(***************************************************************************)
Request(t, lp) ==
  LET Wait(h, n) == /\ pc' = [pc EXCEPT ![t] = "wait"]
                    /\ watched' = [watched EXCEPT ![t] = h]
                    /\ txLP' = [txLP EXCEPT ![t] = n]
                    /\ checktxtime' = [checktxtime EXCEPT ![t] = now + FirstWait]
                    /\ UNCHANGED <<cache, reply, lastId>>
  IN /\ running /\ pc[t] \in {"idle", "done"}
     /\ CASE lp = "none" -> Respond(t)
          [] lp = "id" ->
               /\ lastId[t] # NoId
               /\ IF IdLength(lastId[t]) # 64 + Digits(nTransactionsUpdatedLast)
                  THEN /\ Answer(t, Error("Invalid longpollid format"))
                       /\ UNCHANGED <<cache, lastId>>
                  ELSE Wait(lastId[t].tip, lastId[t].tx)
          [] lp = "other" -> Wait(tip, nTransactionsUpdatedLast)
     /\ UNCHANGED node

(***************************************************************************)
(* The long poll's loop (mining.cpp 724-752).  It ends when the best block *)
(* is no longer the watched one, when the RPC server stops, or at a        *)
(* deadline after which the mempool counter has moved; then cs_main is     *)
(* taken again and a stopping server answers with an error.                *)
(***************************************************************************)
LongPollWake(t) ==
  /\ pc[t] = "wait"
  /\ \/ tip # watched[t] \/ ~running
     \/ now >= checktxtime[t] /\ txUpdated # txLP[t]
  /\ IF ~running THEN /\ Answer(t, Error("Shutting down"))
                      /\ UNCHANGED <<cache, lastId>>
                 ELSE Respond(t)
  /\ UNCHANGED node

\* A deadline passes with the mempool unchanged: wait ten seconds more.
LongPollRetry(t) ==
  /\ pc[t] = "wait"
  /\ tip = watched[t] /\ running
  /\ now >= checktxtime[t] /\ txUpdated = txLP[t]
  /\ checktxtime' = [checktxtime EXCEPT ![t] = @ + RetryWait]
  /\ UNCHANGED <<node, cache, pc, watched, txLP, lastId, reply>>

-----------------------------------------------------------------------------
(* The node around the RPC threads.                                        *)

\* A block is connected: the tip and g_best_block move, the cv is notified.
NewTip == tip < MaxTip /\ tip' = tip + 1 /\ UNCHANGED <<txUpdated, now, running, cache, client>>

\* The mempool changes (CTxMemPool::nTransactionsUpdated++).
MempoolUpdate ==
  /\ txUpdated < MaxTx /\ txUpdated' = txUpdated + 1
  /\ UNCHANGED <<tip, now, running, cache, client>>

Tick == now < MaxTime /\ now' = now + 1 /\ UNCHANGED <<tip, txUpdated, running, cache, client>>

\* StopRPC: IsRPCRunning() becomes false and waiters are woken.
Shutdown == running /\ running' = FALSE /\ UNCHANGED <<tip, txUpdated, now, cache, client>>

Next ==
  \/ \E t \in Threads :
       \/ \E lp \in {"none", "id", "other"} : Request(t, lp)
       \/ LongPollWake(t) \/ LongPollRetry(t)
  \/ NewTip \/ MempoolUpdate \/ Tick \/ Shutdown

(***************************************************************************)
(* A waiting thread is woken by the condition variable, by its deadline,   *)
(* and by time passing: each of these keeps happening while it can.        *)
(***************************************************************************)
Fairness ==
  /\ WF_vars(Tick)
  /\ \A t \in Threads : WF_vars(LongPollWake(t)) /\ WF_vars(LongPollRetry(t))

Spec == Init /\ [][Next]_vars /\ Fairness

-----------------------------------------------------------------------------
(***************************************************************************)
(* Properties.                                                             *)
(***************************************************************************)

(***************************************************************************)
(* Every template a call returns builds on the active tip, and the height  *)
(* and longpollid it reports (read from the static pindexPrev) name the    *)
(* same block as its previousblockhash (read from the static template):    *)
(* whatever calls, long polls, failed CreateNewBlock runs, tip changes and *)
(* mempool changes came before.                                            *)
(***************************************************************************)
TemplateOnTip ==
  [][\A t \in Threads :
       reply'[t] # reply[t] /\ reply'[t].kind = "template" => reply'[t].prev = tip /\ reply'[t].index = tip]_vars

(***************************************************************************)
(* Spec 9: a longpollid is <tip hash hex><transactions-updated counter>,   *)
(* and only an id of another format is rejected.  A client that long polls *)
(* with the id it was given is never told "Invalid longpollid format".     *)
(***************************************************************************)
LongPollIdAccepted ==
  \A t \in Threads : reply[t].kind # "Invalid longpollid format"

=============================================================================
