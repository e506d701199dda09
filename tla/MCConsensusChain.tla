-------------------------- MODULE MCConsensusChain --------------------------
(* Small instances of ConsensusChain: two primaries, heads from MinHead to MaxHead. *)
EXTENDS ConsensusChain

NoHashValue == -1

ChainReports ==
  [latest : MinHead..MaxHead, hash : 0..MaxHead, safe : {1}, finalized : {1, 2},
   peerCount : {MinPeerCount}, inSync : {TRUE}]
=============================================================================
