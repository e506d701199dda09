------------------------- MODULE ConsensusPollerView -------------------------
(***************************************************************************)
(* The consensus poller implements ConsensusView: a round of the view is   *)
(* resolved when all candidates agreed (or none has recorded a head), and  *)
(* published by the four writes that end UpdateBackendGroupConsensus.      *)
(***************************************************************************)
EXTENDS ConsensusPoller

TagsOf(s) == [latest |-> s.latest, safe |-> s.safe, finalized |-> s.finalized]

PollerTags == {TagsOf(r) : r \in Reports} \cup {ZeroTracker}

\* The round of the view while the poller publishes.
PollerRound ==
  IF gpc \in {"setLatest", "setSafe", "setFinalized", "setGroup"}
    THEN [phase |-> gpc, group |-> candidates, latest |-> proposed.number,
          members |-> [be \in Backends |->
                         IF be \in candidates THEN TagsOf(snapshot[be]) ELSE ZeroTracker]]
    ELSE [phase |-> "resolving", group |-> {}, latest |-> 0,
          members |-> [be \in Backends |-> ZeroTracker]]

View == INSTANCE ConsensusView WITH
  GroupBackends <- Backends, TagSet <- PollerTags, round <- PollerRound

\* Whatever the pollers record meanwhile, readers see a sequence of rounds each
\* published number by number and then its group, as ConsensusView says.
\* (This is View!ViewSpec, with the steps the view does not see tested first.)
ImplementsView ==
  View!ViewInit /\ [][UNCHANGED View!viewVars \/ View!ViewNext]_vars
=============================================================================
