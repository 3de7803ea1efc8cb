----------------------------- MODULE ChainParams -----------------------------
(***************************************************************************)
(* The chain parameters chosen at startup (chainparams.cpp, params.h):     *)
(* CreateChainParams builds the consensus parameters of main, testnet or   *)
(* regtest, and regtest applies -segwitheight and -vbparams               *)
(* (UpdateActivationParametersFromArgs).  The integer and boolean         *)
(* consensus fields are kept, and each network's message start, port and  *)
(* address prefixes; hashes, the genesis block and the seeds are left out. *)
(*                                                                         *)
(* A -vbparams value is given as the list of its ':'-separated parts, as   *)
(* boost::split returns it; a part is a string.  Decimal maps the parts    *)
(* ParseInt64 accepts to their values.  int is IntMax wide and int64       *)
(* Int64Max wide, scaled down together so that both fit TLC's integers.    *)
(* An outcome is a record: err is "none" or the message thrown, consensus  *)
(* the parameters built so far.                                            *)
(***************************************************************************)
EXTENDS Integers, Sequences

CONSTANTS
  IntMax,     (* std::numeric_limits<int>::max()                           *)
  Int64Max,   (* std::numeric_limits<int64_t>::max()                       *)
  Decimal     (* the part strings ParseInt64 accepts, and their values     *)

MAX_BLOCK_HEIGHT == IntMax
NO_TIMEOUT == Int64Max

\* DEPLOYMENT_TESTDUMMY is the only deployment position.
DeploymentPos == {0}

\* VersionBitsDeploymentInfo[j].name (versionbitsinfo.cpp).
VersionBitsDeploymentInfo == [j \in DeploymentPos |-> "testdummy"]

ParseInt64(s) == s \in DOMAIN Decimal

\* Consensus::Params(): every field zero, AuxPoW at MAX_BLOCK_HEIGHT.
DefaultConsensus ==
  [nSubsidyHalvingInterval |-> 0, BIP34Height |-> 0, BIP65Height |-> 0,
   BIP66Height |-> 0, CSVHeight |-> 0, SegwitHeight |-> 0,
   MinBIP9WarningHeight |-> 0, nRuleChangeActivationThreshold |-> 0,
   nMinerConfirmationWindow |-> 0,
   vDeployments |-> [d \in DeploymentPos |->
                       [bit |-> 0, nStartTime |-> 0, nTimeout |-> 0]],
   fPowAllowMinDifficultyBlocks |-> FALSE, fPowNoRetargeting |-> FALSE,
   nPowTargetSpacing |-> 0, nPowTargetSpacingV2 |-> 0,
   nPowTargetTimespan |-> 0, nAuxpowStartHeight |-> MAX_BLOCK_HEIGHT]

\* The BIP34/65/66, CSV and Segwit heights, which every network sets alike.
SoftForkHeights(c, h) ==
  [c EXCEPT !.BIP34Height = h, !.BIP65Height = h, !.BIP66Height = h,
            !.CSVHeight = h, !.SegwitHeight = h]

CMainParams ==
  [SoftForkHeights(DefaultConsensus, 29000) EXCEPT
     !.nSubsidyHalvingInterval = 210000, !.MinBIP9WarningHeight = 29540,
     !.nPowTargetTimespan = 86400, !.nPowTargetSpacing = 600,
     !.nPowTargetSpacingV2 = 120,
     !.fPowAllowMinDifficultyBlocks = FALSE, !.fPowNoRetargeting = FALSE,
     !.nRuleChangeActivationThreshold = 720,
     !.nMinerConfirmationWindow = 540,
     !.vDeployments[0] = [bit |-> 28, nStartTime |-> 1199145601,
                          nTimeout |-> 1230767999]]

\* nPowTargetSpacingV2 is not set and keeps its default.
CTestNetParams ==
  [SoftForkHeights(DefaultConsensus, 0) EXCEPT
     !.nSubsidyHalvingInterval = 210000, !.MinBIP9WarningHeight = 0,
     !.nPowTargetTimespan = 86400, !.nPowTargetSpacing = 120,
     !.fPowAllowMinDifficultyBlocks = TRUE, !.fPowNoRetargeting = FALSE,
     !.nRuleChangeActivationThreshold = 720,
     !.nMinerConfirmationWindow = 540,
     !.vDeployments[0] = [bit |-> 28, nStartTime |-> 0,
                          nTimeout |-> NO_TIMEOUT]]

\* The regtest constructor's assignments, before its arguments are applied.
RegTestConsensus ==
  [SoftForkHeights(DefaultConsensus, 0) EXCEPT
     !.nSubsidyHalvingInterval = 150, !.MinBIP9WarningHeight = 0,
     !.nPowTargetTimespan = 86400, !.nPowTargetSpacing = 120,
     !.fPowAllowMinDifficultyBlocks = TRUE, !.fPowNoRetargeting = TRUE,
     !.nRuleChangeActivationThreshold = 108,
     !.nMinerConfirmationWindow = 144,
     !.vDeployments[0] = [bit |-> 28, nStartTime |-> 0,
                          nTimeout |-> NO_TIMEOUT]]

(***************************************************************************)
(* Each network's identity on the wire: pchMessageStart and nDefaultPort,  *)
(* then base58Prefixes (one-byte P2PKH, P2SH and secret-key prefixes, the *)
(* four-byte BIP32 ones) and bech32_hrp.                                   *)
(***************************************************************************)
MainMagic == [start |-> <<\hfa, \hc7, \hb2, \hda>>, port |-> 2333]

MainPrefixes ==
  [pubkey |-> <<55>>, script |-> <<5>>, secret |-> <<128>>,
   extPub |-> <<\h04, \h88, \hB2, \h1E>>, extSec |-> <<\h04, \h88, \hAD, \hE4>>,
   hrp |-> "plm"]

TestNetMagic == [start |-> <<\h0b, \h11, \h09, \h07>>, port |-> 12333]

TestNetPrefixes ==
  [pubkey |-> <<127>>, script |-> <<115>>, secret |-> <<255>>,
   extPub |-> <<\h04, \h35, \h87, \hCF>>, extSec |-> <<\h04, \h35, \h83, \h94>>,
   hrp |-> "tplm"]

RegTestMagic == [start |-> <<\hfa, \hbf, \hb5, \hda>>, port |-> 28444]

\* Testnet's prefixes with the "rplm" human-readable part.
RegTestPrefixes == [TestNetPrefixes EXCEPT !.hrp = "rplm"]

\* The identity of a network CreateChainParams knows.
NetworkIdentity(chain) ==
  CASE chain = "main" -> [magic |-> MainMagic, prefixes |-> MainPrefixes]
    [] chain = "test" -> [magic |-> TestNetMagic, prefixes |-> TestNetPrefixes]
    [] OTHER          -> [magic |-> RegTestMagic, prefixes |-> RegTestPrefixes]

Ok(c) == [err |-> "none", consensus |-> c]

Throw(r, msg) == [r EXCEPT !.err = msg]

UpdateVersionBitsParameters(c, d, nStartTime, nTimeout) ==
  [c EXCEPT !.vDeployments[d].nStartTime = nStartTime,
            !.vDeployments[d].nTimeout = nTimeout]

(***************************************************************************)
(* -segwitheight, given as <<>> when the argument is not set and as        *)
(* <<height>> otherwise.  The first operator is a mutant whose range test  *)
(* is one off at the top.                                                  *)
(***************************************************************************)
UpdateSegwitHeightOffByOne(r, segwit) ==
  IF segwit = <<>> THEN r
  ELSE IF segwit[1] < -1 \/ segwit[1] > IntMax
       THEN Throw(r, "Activation height out of valid range")
       ELSE [r EXCEPT !.consensus.SegwitHeight =
                        IF segwit[1] = -1 THEN IntMax ELSE segwit[1]]

UpdateSegwitHeight(r, segwit) ==
  IF segwit = <<>> THEN r
  ELSE IF segwit[1] < -1 \/ segwit[1] >= IntMax
       THEN Throw(r, "Activation height out of valid range")
       ELSE [r EXCEPT !.consensus.SegwitHeight =
                        IF segwit[1] = -1 THEN IntMax ELSE segwit[1]]

\* The deployment positions whose name is the first part.
Named(name) == {j \in DeploymentPos : VersionBitsDeploymentInfo[j] = name}

\* The loop over the deployments stops at the first match.
FirstNamed(name) == CHOOSE j \in Named(name) : \A k \in Named(name) : j <= k

(***************************************************************************)
(* The -vbparams loop: each value, in order, must have three parts, two    *)
(* int64 times and a deployment name, or startup throws; a good value      *)
(* overwrites that deployment's times.                                     *)
(***************************************************************************)
RECURSIVE ApplyVbparams(_, _)
ApplyVbparams(r, vbparams) ==
  IF vbparams = <<>> \/ r.err # "none" THEN r
  ELSE LET p == Head(vbparams)
           next ==
             CASE Len(p) # 3 -> Throw(r, "Version bits parameters malformed")
               [] ~ParseInt64(p[2]) -> Throw(r, "Invalid nStartTime")
               [] ~ParseInt64(p[3]) -> Throw(r, "Invalid nTimeout")
               [] Named(p[1]) = {} -> Throw(r, "Invalid deployment")
               [] OTHER ->
                    [r EXCEPT !.consensus = UpdateVersionBitsParameters(
                                 @, FirstNamed(p[1]),
                                 Decimal[p[2]], Decimal[p[3]])]
       IN ApplyVbparams(next, Tail(vbparams))

UpdateActivationParametersFromArgs(c, segwit, vbparams) ==
  ApplyVbparams(UpdateSegwitHeight(Ok(c), segwit), vbparams)

\* The chain named on the command line, with regtest's two arguments.
CreateChainParams(chain, segwit, vbparams) ==
  CASE chain = "main" -> Ok(CMainParams)
    [] chain = "test" -> Ok(CTestNetParams)
    [] chain = "regtest" ->
         UpdateActivationParametersFromArgs(RegTestConsensus, segwit, vbparams)
    [] OTHER -> [err |-> "Unknown chain", consensus |-> DefaultConsensus]

=============================================================================
