-------------------------- MODULE MCConsensusPoller --------------------------
(* Small instances of ConsensusPoller. *)
EXTENDS ConsensusPollerView, TLC

Report(latest, hash, safe, finalized, peerCount, inSync) ==
  [latest |-> latest, hash |-> hash, safe |-> safe, finalized |-> finalized,
   peerCount |-> peerCount, inSync |-> inSync]

\* Two heads within the lag and on two forks; the higher one has tags that
\* earn a ban, so that it is a candidate only until the ban.
TagReports ==
  {Report(2, "h1", 2, 1, 2, TRUE), Report(3, "h2", 1, 2, 2, TRUE)}

\* Every reason for which FilterCandidates turns a backend down.
FilterReports ==
  {Report(2, "h1", 2, 2, 2, TRUE), Report(2, "h1", 2, 2, 1, TRUE),
   Report(3, "h1", 2, 2, 2, FALSE), Report(3, "h1", 1, 1, 2, TRUE)}
\* Heads of a chain that is still within the lag of its genesis.
YoungReports ==
  {Report(1, "h1", 1, 1, 2, TRUE), Report(2, "h1", 2, 1, 2, TRUE)}

PrimarySymmetry == Permutations(Primaries)
=============================================================================
