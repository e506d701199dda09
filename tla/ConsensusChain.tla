--------------------------- MODULE ConsensusChain ---------------------------
(***************************************************************************)
(* The consensus poller of proxyd together with the chains its backends    *)
(* follow.  ConsensusPoller lets backends answer anything; here a backend  *)
(* answers from its own chain, which grows and is reorganised while the    *)
(* poller asks, and a backend with wrong tags is repaired at some time.    *)
(* The actions are those of ConsensusPoller with their inputs fixed.       *)
(***************************************************************************)
EXTENDS ConsensusPoller

CONSTANTS
  MinHead,     \* the block no head falls below
  MaxHead,     \* bound: the highest block
  MaxChanges,  \* bound: how often chains change
  Faulty,      \* the backends whose tags are wrong until they are repaired
  Faults       \* whether queries fail and reorganisations shorten a chain

\* Hashes are told apart as in HashAt; a poll of any chain is a report.
ASSUME ChainAssumption ==
  /\ MinHead \in Nat \ {0} /\ MaxHead \in Nat /\ Faults \in BOOLEAN
  /\ Genesis = 0 /\ 0..MaxHead \subseteq Hashes
  /\ [latest : MinHead..MaxHead, hash : 0..MaxHead, safe : {1}, finalized : {1, 2},
      peerCount : {MinPeerCount}, inSync : {TRUE}] \subseteq Reports

VARIABLES
  chain,       \* what each backend follows
  changes,     \* how often a chain has changed
  stable       \* history: no chain has changed since BeginRound

chainVars == <<chain, changes, stable>>
allVars == <<vars, chainVars>>

\* The head of a backend, the block from which it is on a fork of its own
\* (MaxHead + 1: it is on the common chain), and whether its tags are right.
Chain == {c \in [head : MinHead..MaxHead, fork : 1..(MaxHead + 1), ok : BOOLEAN] :
            c.fork <= c.head \/ c.fork = MaxHead + 1}

\* Block n of a backend: 0 on the common chain, else the fork it is on.
HashAt(be, n) == IF n < chain[be].fork THEN 0 ELSE chain[be].fork

\* What a poll of be finds.
PollOf(be) ==
  [latest |-> chain[be].head, hash |-> HashAt(be, chain[be].head), safe |-> 1,
   finalized |-> IF chain[be].ok THEN 1 ELSE 2,
   peerCount |-> MinPeerCount, inSync |-> TRUE]

ChainInit ==
  /\ Init
  /\ chain \in [Backends -> Chain]
  /\ \A be \in Backends : chain[be].ok <=> be \notin Faulty
  /\ changes = 0
  /\ stable = FALSE

\* A backend's chain grows, or part of it is replaced.
Change(be, new) ==
  /\ changes < MaxChanges
  /\ new # chain[be] /\ new.ok = chain[be].ok
  /\ Faults \/ new.head >= chain[be].head
  /\ chain' = [chain EXCEPT ![be] = new]
  /\ changes' = changes + 1
  /\ stable' = FALSE
  /\ UNCHANGED vars

Repair(be) ==
  /\ ~chain[be].ok
  /\ chain' = [chain EXCEPT ![be].ok = TRUE]
  /\ UNCHANGED <<changes, stable, vars>>

\* A poll finds what the chain holds.  Backends stay healthy.
Poll(be) == /\ SetBackendState(be, PollOf(be))
            /\ UNCHANGED chainVars

PollBackend(be) ==
  \/ StartPolling(be) /\ UNCHANGED chainVars
  \/ Poll(be)
  \/ BanUnexpectedTags(be) /\ UNCHANGED chainVars

\* A block above the head is answered with null, which fetchBlock reports as
\* an error; any other is answered from the chain.
Query(be) ==
  /\ IF proposed.number > chain[be].head
       THEN AskFails(be)
       ELSE \/ Ask(be, [number |-> proposed.number, hash |-> HashAt(be, proposed.number)])
            \/ Faults /\ AskFails(be)
  /\ UNCHANGED chainVars

GroupStep ==
  \/ BeginRound /\ stable' = TRUE /\ UNCHANGED <<chain, changes>>
  \/ /\ \/ \E be \in Backends : Inspect(be)
        \/ TurnToFallbacks
        \/ DropLagging
        \/ \E be \in Backends : CompareLowest(be)
        \/ Propose
        \/ AllAgreed
        \/ SetLatest
        \/ SetSafe
        \/ SetFinalized
        \/ SetGroup
     /\ UNCHANGED chainVars
  \/ \E be \in Backends : Query(be)

\* Time passes no faster than the poll interval, which is far below the
\* update threshold: every backend that is not banned is polled in between.
TimelyTick ==
  /\ \A be \in Backends : IsBanned(be) \/ freshFor[be] > MaxUpdateThreshold
  /\ Tick
  /\ UNCHANGED chainVars

ChainNext ==
  \/ \E be \in Backends : PollBackend(be)
  \/ GroupStep
  \/ TimelyTick
  \/ \E be \in Backends, new \in Chain : Change(be, new)
  \/ \E be \in Backends : Repair(be)

\* Every goroutine is woken by its ticker and every RPC returns (its client
\* has a timeout), so no goroutine stays at a step it can take; time passes.
Fairness ==
  /\ \A be \in Backends : WF_allVars(PollBackend(be)) /\ WF_allVars(Repair(be))
  /\ WF_allVars(GroupStep)
  /\ WF_allVars(TimelyTick)

ChainSpec == ChainInit /\ [][ChainNext]_allVars /\ Fairness

-----------------------------------------------------------------------------
(* Properties. *)

\* The members of S hold the same block n.
Agree(S, n) == \A a, b \in S : /\ n <= chain[a].head
                               /\ HashAt(a, n) = HashAt(b, n)

\* The block UpdateBackendGroupConsensus publishes as latest has the same hash
\* in the entire group it installs, unless a chain changed under the round.
GroupAgrees ==
  gpc = "setGroup" /\ stable => Agree(candidates, tracker.latest)

\* The candidates once all is well, and the newest block they share.
Members == NotLagging(Backends, [be \in Backends |-> [latest |-> chain[be].head]])
CommonAncestor(n) ==
  /\ Agree(Members, n)
  /\ \A m \in 0..MaxHead : Agree(Members, m) => m <= n

\* Once chains are quiet and the faulty backends repaired, bans run out, the
\* backends rejoin, and the group settles on all that do not lag, with their
\* newest common block as latest.
Converges == <>[](consensusGroup = Members /\ CommonAncestor(tracker.latest))
=============================================================================
