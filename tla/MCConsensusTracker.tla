------------------------- MODULE MCConsensusTracker -------------------------
(* Small instances of ConsensusTracker. *)
EXTENDS ConsensusTracker

S(n) == [latest |-> n, safe |-> n, finalized |-> n]
TwoStates == {S(0), S(1)}
ThreeStates == {S(0), S(1), S(2)}
=============================================================================
