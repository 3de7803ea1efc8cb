------------------------------- MODULE MCPure ---------------------------------
(***************************************************************************)
(* Checks the project's pure operators on their bounded inputs.  A        *)
(* behaviour either builds a block's transaction list one hash at a time,  *)
(* for the Merkle operators of module Merkle, or builds a node's command   *)
(* line one -vbparams value at a time, for CreateChainParams of module     *)
(* ChainParams.  The two kinds of input never share a behaviour: vtx is    *)
(* empty on a command line and chain is "none" on a transaction list.      *)
(***************************************************************************)
EXTENDS Merkle, ChainParams, TLC

CONSTANTS
  TxHashes,     (* the transaction hashes a list is built from             *)
  MaxLeaves,    (* the longest list checked                                *)
  Networks,     (* -chain values, known and unknown                        *)
  SegwitArgs,   (* -segwitheight: <<>> when unset, else <<height>>         *)
  VbparamArgs,  (* -vbparams values, as their ':'-separated parts          *)
  MaxVbparams   (* the most -vbparams values on one command line           *)

VARIABLES vtx, chain, segwit, vbparams

vars == <<vtx, chain, segwit, vbparams>>

Init ==
  \/ /\ vtx \in {<<h>> : h \in TxHashes}
     /\ chain = "none" /\ segwit = <<>> /\ vbparams = <<>>
  \/ /\ vtx = <<>>
     /\ chain \in Networks /\ segwit \in SegwitArgs /\ vbparams = <<>>

\* The next transaction of the list.
AddTx(h) ==
  vtx # <<>> /\ vtx' = Append(vtx, h) /\ UNCHANGED <<chain, segwit, vbparams>>

\* One more -vbparams value on the command line.
AddVbparam(p) ==
  /\ chain # "none" /\ vbparams' = Append(vbparams, p)
  /\ UNCHANGED <<vtx, chain, segwit>>

Next ==
  \/ \E h \in TxHashes : AddTx(h)
  \/ \E p \in VbparamArgs : AddVbparam(p)

InputBound == Len(vtx) <= MaxLeaves /\ Len(vbparams) <= MaxVbparams

(***************************************************************************)
(* ComputeMerkleRootFromBranch, which the AuxPoW verifier runs on a proof, *)
(* recovers the block's Merkle root from any transaction, its branch and   *)
(* its 0-based index: in odd levels, whose last node pairs with itself,    *)
(* at odd indices, whose sibling is on the left, and when hashes repeat.   *)
(***************************************************************************)
MerkleBranchesSound ==
  \A pos \in 0..(Len(vtx) - 1) :
    ComputeMerkleRootFromBranch(vtx[pos + 1],
                                ComputeMerkleBranch(vtx, pos), pos)
      = ComputeMerkleRoot(vtx)

\* Unset, below -1, -1, in range, the two ends of int and beyond int.
MCSegwitArgs ==
  {<<>>, <<-2>>, <<-1>>, <<0>>, <<7>>, <<IntMax - 1>>, <<IntMax>>, <<99999>>}

\* Decimal and negative numerals; any other part fails ParseInt64.
MCDecimal == ("1" :> 1) @@ ("2" :> 2) @@ ("9" :> 9) @@ ("-5" :> -5)

\* Good values, an unknown name, parts that are not numbers, two and four
\* parts.
MCVbparamArgs ==
  {<<"testdummy", "1", "2">>, <<"testdummy", "-5", "9">>, <<"csv", "1", "2">>,
   <<"testdummy", "x", "2">>, <<"testdummy", "1", "">>, <<"testdummy", "1">>,
   <<"testdummy", "1", "2", "9">>}

-----------------------------------------------------------------------------
(***************************************************************************)
(* What spec 6, 7 and S7 say of startup, written without the code's loop.  *)
(***************************************************************************)

\* Spec 6, "Consensus constants (main)".
SpecMain(c) ==
  /\ c.nSubsidyHalvingInterval = 210000
  /\ \A h \in {c.BIP34Height, c.BIP65Height, c.BIP66Height, c.CSVHeight,
               c.SegwitHeight} : h = 29000
  /\ c.nPowTargetSpacing = 600 /\ c.nPowTargetSpacingV2 = 120
  /\ c.nPowTargetTimespan = 86400
  /\ c.nRuleChangeActivationThreshold = 720 /\ c.nMinerConfirmationWindow = 540

\* Spec 6, "Wire magic" and "Address prefixes": every field it gives.
SpecIdentity(net, id) ==
  LET hrp == [main |-> "plm", test |-> "tplm", regtest |-> "rplm"]
  IN /\ id.magic = [main |-> [start |-> <<\hfa, \hc7, \hb2, \hda>>, port |-> 2333],
                    test |-> [start |-> <<\h0b, \h11, \h09, \h07>>, port |-> 12333],
                    regtest |-> [start |-> <<\hfa, \hbf, \hb5, \hda>>,
                                 port |-> 28444]][net]
     /\ id.prefixes.hrp = hrp[net]
     /\ net = "main" =>
          id.prefixes = [pubkey |-> <<55>>, script |-> <<5>>, secret |-> <<128>>,
                         extPub |-> <<\h04, \h88, \hB2, \h1E>>,
                         extSec |-> <<\h04, \h88, \hAD, \hE4>>, hrp |-> "plm"]
     /\ net = "test" =>
          id.prefixes = [pubkey |-> <<127>>, script |-> <<115>>, secret |-> <<255>>,
                         extPub |-> <<\h04, \h35, \h87, \hCF>>,
                         extSec |-> <<\h04, \h35, \h83, \h94>>, hrp |-> "tplm"]

\* Spec 6, "CLI/regtest knobs": name:start:timeout with a known name.
WellFormedVbparam(p) ==
  /\ Len(p) = 3
  /\ p[1] \in {VersionBitsDeploymentInfo[j] : j \in DeploymentPos}
  /\ {p[2], p[3]} \subseteq DOMAIN Decimal

\* S7: a height of the int range; its maximum is the value -1 stands for.
SegwitInRange == segwit = <<>> \/ segwit[1] \in -1..(IntMax - 1)

SpecAborts ==
  \/ chain \notin {"main", "test", "regtest"}
  \/ /\ chain = "regtest"
     /\ \/ ~SegwitInRange
        \/ \E i \in 1..Len(vbparams) : ~WellFormedVbparam(vbparams[i])

\* On regtest -segwitheight sets the height (-1: the int maximum), and the
\* last -vbparams value for a deployment gives its times; nothing else moves.
SpecRegtest(c) ==
  LET last == vbparams[Len(vbparams)]
  IN c = [RegTestConsensus EXCEPT
            !.SegwitHeight = IF segwit = <<>> THEN @
                             ELSE IF segwit[1] = -1 THEN IntMax ELSE segwit[1],
            !.vDeployments[FirstNamed("testdummy")] =
               IF vbparams = <<>> THEN @
               ELSE [@ EXCEPT !.nStartTime = Decimal[last[2]],
                              !.nTimeout = Decimal[last[3]]]]

(***************************************************************************)
(* CreateChainParams with UpdateActivationParametersFromArgs agrees with   *)
(* the spec on every command line: startup aborts exactly on an unknown    *)
(* chain, an out-of-range -segwitheight or a malformed or unknown          *)
(* -vbparams anywhere on the line; every network has the spec's magic,     *)
(* port and prefixes; main has the spec's constants; main and             *)
(* testnet ignore the regtest knobs; on regtest the last -vbparams wins.   *)
(***************************************************************************)
ParamsPerSpec ==
  chain # "none" =>
    LET r == CreateChainParams(chain, segwit, vbparams)
    IN /\ (r.err # "none") <=> SpecAborts
       /\ r.err = "none" =>
            /\ chain = "main" => SpecMain(r.consensus)
            /\ SpecIdentity(chain, NetworkIdentity(chain))
            /\ chain \in {"main", "test"} =>
                 r = CreateChainParams(chain, <<>>, <<>>)
            /\ chain = "regtest" => SpecRegtest(r.consensus)

=============================================================================
