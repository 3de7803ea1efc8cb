----------------------------- MODULE GenerateSpec -----------------------------
(***************************************************************************)
(* What generatetoaddress promises (spec 4.7, 5), without the nonce loop:  *)
(* a call mines up to nblocks blocks, each costing nothing but each failed *)
(* hash costing one unit of the maxtries budget; it ends with the list of  *)
(* hashes once nblocks are mined, the budget is spent or shutdown is       *)
(* requested, or with an error if a template cannot be built.  A mined     *)
(* block extends the chain or, when the tip moved meanwhile, lands beside  *)
(* it.  GenerateBlocks implements this specification (MCGenerateBlocks).   *)
(***************************************************************************)
EXTENDS Integers

CONSTANTS TriesBits, Generate, MaxTriesArgs, MaxHeight

VARIABLES
  height,     (* the active chain's height                                 *)
  shutdown,   (* a shutdown was requested                                  *)
  state,      (* "idle", "busy" or "done"                                  *)
  toGo,       (* blocks still to mine                                      *)
  budget,     (* failed hashes still allowed                               *)
  reply       (* "hashes" or an error                                      *)

vars == <<height, shutdown, state, toGo, budget, reply>>

Init ==
  /\ height = 0 /\ shutdown = FALSE /\ state = "idle" /\ reply = "none"
  /\ toGo = 0 /\ budget = 0

\* A call for n blocks; maxtries is read as an unsigned 64-bit budget.
Call(n, mt) ==
  /\ state \in {"idle", "done"} /\ ~shutdown /\ height < MaxHeight
  /\ state' = "busy" /\ toGo' = n /\ budget' = mt % 2^TriesBits
  /\ UNCHANGED <<height, shutdown, reply>>

Working == state = "busy" /\ toGo > 0 /\ ~shutdown

\* A hash that misses the target.
Try == Working /\ budget > 0 /\ budget' = budget - 1
       /\ UNCHANGED <<height, shutdown, state, toGo, reply>>

\* A block is found and accepted.
Mine ==
  /\ Working /\ budget > 0
  /\ toGo' = toGo - 1
  /\ height' \in {height, height + 1}
  /\ UNCHANGED <<shutdown, state, budget, reply>>

\* No template can be built.
Fail == Working /\ state' = "done" /\ reply' = "Could not create block template"
        /\ UNCHANGED <<height, shutdown, toGo, budget>>

\* The call returns the hashes mined.
Finish ==
  /\ state = "busy" /\ (toGo <= 0 \/ budget = 0 \/ shutdown)
  /\ state' = "done" /\ reply' = "hashes"
  /\ UNCHANGED <<height, shutdown, toGo, budget>>

Other ==
  \/ height < MaxHeight /\ height' = height + 1
     /\ UNCHANGED <<shutdown, state, toGo, budget, reply>>
  \/ ~shutdown /\ shutdown' = TRUE
     /\ UNCHANGED <<height, state, toGo, budget, reply>>

Next ==
  \/ \E n \in Generate, mt \in MaxTriesArgs : Call(n, mt)
  \/ Try \/ Mine \/ Fail \/ Finish \/ Other

\* A busy call keeps making progress until it returns.
Spec == Init /\ [][Next]_vars /\ WF_vars(Try \/ Mine \/ Fail \/ Finish)

=============================================================================
