--------------------------- MODULE ConsensusPoller ---------------------------
(***************************************************************************)
(* proxyd/consensus_poller.go: the goroutines that poll every backend of a *)
(* consensus-aware group, the goroutine that resolves the group consensus  *)
(* from what they recorded, and the in-memory tracker it publishes to.     *)
(*                                                                         *)
(* Every critical section of the code is one action.  UpdateBackend is     *)
(* split at its RPCs and between setBackendState and Ban;                  *)
(* UpdateBackendGroupConsensus is split at every copy of a backend's       *)
(* state, every RPC, and every one of the four writes that publish.        *)
(*                                                                         *)
(* Backends are unconstrained: what they answer is any element of Reports  *)
(* (to a poll) or of Answers(n) (to a query for block n).  Clock values    *)
(* are kept as the time left until they matter (bannedFor, freshFor).      *)
(***************************************************************************)
EXTENDS Integers

CONSTANTS
  Primaries,          \* backendGroup.Primaries()
  Fallbacks,          \* backendGroup.Fallbacks()
  Forced,             \* the backends with forcedCandidate
  SkipPeerCount,      \* the backends with skipPeerCountCheck
  Reports,            \* what one poll of a backend can find
  Hashes,             \* block hashes, told apart by fork
  Genesis,            \* the hash of block 0, the same in all backends
  NoHash,             \* the empty string
  OtherNumbers,       \* numbers a backend may answer instead of the asked one
  MinPeerCount,       \* cp.minPeerCount
  BanPeriod,          \* cp.banPeriod, in ticks
  MaxUpdateThreshold, \* cp.maxUpdateThreshold, in ticks
  MaxBlockLag,        \* cp.maxBlockLag
  Flaky,              \* the backends whose error rate or latency varies
  UintMod             \* 2^64: block numbers are hexutil.Uint64

Backends == Primaries \cup Fallbacks

\* The part of the struct backendState that a poll writes.
BackendState == [latest : Nat, hash : Hashes \cup {NoHash}, safe : Nat,
                 finalized : Nat, peerCount : Nat, inSync : BOOLEAN]

\* A poll that answers 0 for a number returns before it is recorded.
ASSUME ReportsAssumption ==
  /\ Reports \subseteq BackendState
  /\ \A r \in Reports : /\ r.latest > 0 /\ r.safe > 0 /\ r.finalized > 0
                        /\ r.peerCount > 0
                        /\ r.latest < UintMod
ASSUME ConfigAssumption ==
  /\ Primaries \cap Fallbacks = {}
  /\ Forced \subseteq Backends /\ SkipPeerCount \subseteq Backends
  /\ MinPeerCount \in Nat /\ BanPeriod \in Nat \ {0}
  /\ MaxUpdateThreshold \in Nat /\ MaxBlockLag \in Nat
  /\ UintMod \in Nat \ {0} /\ OtherNumbers \subseteq Nat
  /\ NoHash \notin Hashes /\ NoHash # Genesis

VARIABLES
  backendState,   \* cp.backendState: what the last poll of each backend found
  freshFor,       \* ticks until lastUpdate + maxUpdateThreshold is past
  bannedFor,      \* ticks until bannedUntil
  healthy,        \* be.IsHealthy(): error rate and latency within bounds
  upc,            \* control point of each backend's UpdateBackend
  tracker,        \* cp.tracker: the published latest, safe and finalized
  consensusGroup, \* cp.consensusGroup
  gpc,            \* control point of UpdateBackendGroupConsensus
  pending,        \* backends the current loop of gpc has still to visit
  candidates,     \* the keys of the map candidates
  snapshot,       \* its values: the states copied by GetBackendState
  lowest,         \* lowestLatestBlock, its hash, lowestSafe, lowestFinalized
  proposed,       \* proposedBlock and proposedBlockHash
  current,        \* currentConsensusBlockNumber
  broken,         \* the local of the same name
  bannedGroups    \* history: groups published with be since be was banned

updateVars == <<backendState, freshFor, bannedFor, upc>>
roundVars  == <<gpc, pending, candidates, snapshot, lowest, proposed, current, broken>>
vars == <<updateVars, healthy, tracker, consensusGroup, roundVars, bannedGroups>>

-----------------------------------------------------------------------------
(* State and initial state. *)

ZeroState == [latest |-> 0, hash |-> NoHash, safe |-> 0, finalized |-> 0,
              peerCount |-> 0, inSync |-> FALSE]
ZeroTracker == [latest |-> 0, safe |-> 0, finalized |-> 0]
NoBlock == [number |-> 0, hash |-> NoHash]

\* NewConsensusPoller and Reset: empty states, nobody banned, no group.
Init ==
  /\ backendState = [be \in Backends |-> ZeroState]
  /\ freshFor = [be \in Backends |-> 0]
  /\ bannedFor = [be \in Backends |-> 0]
  /\ healthy = [be \in Backends |-> TRUE]
  /\ upc = [be \in Backends |-> "idle"]
  /\ tracker = ZeroTracker
  /\ consensusGroup = {}
  /\ gpc = "idle" /\ pending = {} /\ candidates = {}
  /\ snapshot = [be \in Backends |-> ZeroState]
  /\ lowest = ZeroState /\ proposed = NoBlock
  /\ current = 0 /\ broken = FALSE
  /\ bannedGroups = [be \in Backends |-> 0]

-----------------------------------------------------------------------------
(* Candidates. *)

IsBanned(be) == bannedFor[be] > 0

\* Mutants of Eligible: banned backends qualify; the update threshold is off
\* by one.
EligibleBanned(be) ==
  \/ be \in Forced
  \/ /\ healthy[be]
     /\ be \in SkipPeerCount \/ backendState[be].peerCount >= MinPeerCount
     /\ backendState[be].inSync
     /\ freshFor[be] > 0

EligibleOffByOne(be) ==
  \/ be \in Forced
  \/ /\ ~IsBanned(be)
     /\ healthy[be]
     /\ be \in SkipPeerCount \/ backendState[be].peerCount >= MinPeerCount
     /\ backendState[be].inSync
     /\ freshFor[be] > 1

\* The conditions FilterCandidates puts on a backend before it compares heads.
Eligible(be) ==
  \/ be \in Forced
  \/ /\ ~IsBanned(be)
     /\ healthy[be]
     /\ be \in SkipPeerCount \/ backendState[be].peerCount >= MinPeerCount
     /\ backendState[be].inSync
     /\ freshFor[be] > 0

\* The candidates left once those too far behind the highest are deleted.
NotLagging(cands, state) ==
  {be \in cands : \A other \in cands :
                    state[other].latest - state[be].latest <= MaxBlockLag}

FilterCandidates(backends) ==
  NotLagging({be \in backends : Eligible(be)}, backendState)

-----------------------------------------------------------------------------
(* UpdateBackend, run by one goroutine per backend. *)

\* Mutant of ExpectedBlockTags: finalized is not looked at.
ExpectedSafeTag(old, new) ==
  new.safe >= old.safe /\ new.safe <= new.latest

\* checkExpectedBlockTags: tags ordered, safe and finalized not decreasing.
ExpectedBlockTags(old, new) ==
  /\ new.finalized >= old.finalized
  /\ new.safe >= old.safe
  /\ new.finalized <= new.safe
  /\ new.safe <= new.latest

\* Ban: the numbers are zeroed, hash, peers, sync and lastUpdate are kept.
Ban(be) ==
  /\ bannedFor' = [bannedFor EXCEPT ![be] = BanPeriod]
  /\ backendState' = [backendState EXCEPT
        ![be] = [@ EXCEPT !.latest = 0, !.safe = 0, !.finalized = 0]]
  /\ bannedGroups' = [bannedGroups EXCEPT ![be] = 0]

\* A goroutine wakes up.  A primary is always updated; a fallback only while
\* no primary is a candidate.  A banned backend is skipped.
MayUpdate(be) ==
  /\ upc[be] = "idle"
  /\ be \in Fallbacks => FilterCandidates(Primaries) = {}
  /\ ~IsBanned(be)

BanUnhealthy(be) ==
  /\ MayUpdate(be)
  /\ ~healthy[be] /\ be \notin Forced
  /\ Ban(be)
  /\ UNCHANGED <<freshFor, upc, healthy, tracker, consensusGroup, roundVars>>

StartPolling(be) ==
  /\ MayUpdate(be)
  /\ healthy[be] \/ be \in Forced
  /\ upc' = [upc EXCEPT ![be] = "polling"]
  /\ UNCHANGED <<backendState, freshFor, bannedFor, healthy, tracker,
                 consensusGroup, roundVars, bannedGroups>>

\* One of the RPCs fails, or answers no peers or block 0: nothing is recorded.
PollFails(be) ==
  /\ upc[be] = "polling"
  /\ upc' = [upc EXCEPT ![be] = "idle"]
  /\ UNCHANGED <<backendState, freshFor, bannedFor, healthy, tracker,
                 consensusGroup, roundVars, bannedGroups>>

\* What setBackendState stores of a poll that found r.
Recorded(be, r) == IF be \in SkipPeerCount THEN [r EXCEPT !.peerCount = 0] ELSE r

\* setBackendState; the tags are then compared with the copy taken at the
\* start of UpdateBackend, which this goroutine alone could have changed.
SetBackendState(be, r) ==
  /\ upc[be] = "polling"
  /\ backendState' = [backendState EXCEPT ![be] = Recorded(be, r)]
  /\ freshFor' = [freshFor EXCEPT ![be] = MaxUpdateThreshold + 1]
  /\ upc' = [upc EXCEPT ![be] =
        IF ExpectedBlockTags(backendState[be], r) \/ be \in Forced
          THEN "idle" ELSE "banning"]
  /\ UNCHANGED <<bannedFor, healthy, tracker, consensusGroup, roundVars, bannedGroups>>

BanUnexpectedTags(be) ==
  /\ upc[be] = "banning"
  /\ Ban(be)
  /\ upc' = [upc EXCEPT ![be] = "idle"]
  /\ UNCHANGED <<freshFor, healthy, tracker, consensusGroup, roundVars>>

-----------------------------------------------------------------------------
(* UpdateBackendGroupConsensus, run by one goroutine per group. *)

BeginRound ==
  /\ gpc = "idle"
  /\ gpc' = "primaries"
  /\ current' = tracker.latest
  /\ pending' = Primaries
  /\ UNCHANGED <<updateVars, healthy, tracker, consensusGroup, candidates,
                 snapshot, lowest, proposed, broken, bannedGroups>>

\* FilterCandidates copies and judges one backend.
Inspect(be) ==
  /\ gpc \in {"primaries", "fallbacks"}
  /\ be \in pending
  /\ pending' = pending \ {be}
  /\ IF Eligible(be)
       THEN /\ candidates' = candidates \cup {be}
            /\ snapshot' = [snapshot EXCEPT ![be] = backendState[be]]
       ELSE UNCHANGED <<candidates, snapshot>>
  /\ UNCHANGED <<updateVars, healthy, tracker, consensusGroup, gpc, lowest,
                 proposed, current, broken, bannedGroups>>

\* No primary is a candidate: getConsensusCandidates turns to the fallbacks.
TurnToFallbacks ==
  /\ gpc = "primaries"
  /\ pending = {} /\ candidates = {}
  /\ gpc' = "fallbacks"
  /\ pending' = Fallbacks
  /\ UNCHANGED <<updateVars, healthy, tracker, consensusGroup, candidates,
                 snapshot, lowest, proposed, current, broken, bannedGroups>>

\* The laggards are deleted and the candidates known.
DropLagging ==
  /\ gpc \in {"primaries", "fallbacks"}
  /\ pending = {}
  /\ candidates # {} \/ gpc = "fallbacks"
  /\ gpc' = "lowest"
  /\ candidates' = NotLagging(candidates, snapshot)
  /\ pending' = candidates'
  /\ UNCHANGED <<updateVars, healthy, tracker, consensusGroup, snapshot,
                 lowest, proposed, current, broken, bannedGroups>>

\* Mutant of Lower: the comparison is the wrong way round.
Higher(low, n) == IF low = 0 \/ n > low THEN n ELSE low

\* The running minimum of a number, for which 0 stands for "none yet".
Lower(low, n) == IF low = 0 \/ n < low THEN n ELSE low

\* One iteration of the range over the map candidates, in any order.
CompareLowest(be) ==
  /\ gpc = "lowest"
  /\ be \in pending
  /\ pending' = pending \ {be}
  /\ LET s == snapshot[be] IN
       lowest' = [lowest EXCEPT
         !.latest    = Lower(@, s.latest),
         !.hash      = IF lowest.latest = 0 \/ s.latest < lowest.latest THEN s.hash ELSE @,
         !.safe      = Lower(@, s.safe),
         !.finalized = Lower(@, s.finalized)]
  /\ UNCHANGED <<updateVars, healthy, tracker, consensusGroup, gpc, candidates,
                 snapshot, proposed, current, broken, bannedGroups>>

\* The lowest latest block is proposed; block 0 is not put to the candidates.
Propose ==
  /\ gpc = "lowest"
  /\ pending = {}
  /\ proposed' = [number |-> lowest.latest, hash |-> lowest.hash]
  /\ IF lowest.latest > 0 THEN gpc' = "agree" /\ pending' = candidates
                          ELSE gpc' = "setLatest" /\ UNCHANGED pending
  /\ UNCHANGED <<updateVars, healthy, tracker, consensusGroup, candidates,
                 snapshot, lowest, current, broken, bannedGroups>>

\* What a backend may answer to eth_getBlockByNumber(n): the block it has at n,
\* or an earlier one (a proxy in front of nodes that are behind).
Answers(n) ==
  IF n = 0 THEN {[number |-> 0, hash |-> Genesis]}
  ELSE [number : {n} \cup {k \in OtherNumbers : k < n}, hash : Hashes]

\* fetchBlock fails: the candidate is passed over.
AskFails(be) ==
  /\ gpc = "agree"
  /\ be \in pending
  /\ pending' = pending \ {be}
  /\ UNCHANGED <<updateVars, healthy, tracker, consensusGroup, gpc, candidates,
                 snapshot, lowest, proposed, current, broken, bannedGroups>>

\* Mutants of Ask: the walk-back takes two blocks at a time; the previous
\* consensus block itself is not counted as broken; hashes are not compared.
AskByTwo(be, answer) ==
  /\ gpc = "agree"
  /\ be \in pending
  /\ LET hash == IF proposed.hash = NoHash THEN answer.hash ELSE proposed.hash
     IN  IF answer.number = proposed.number /\ answer.hash = hash
           THEN /\ pending' = pending \ {be}
                /\ proposed' = [proposed EXCEPT !.hash = hash]
                /\ UNCHANGED broken
           ELSE /\ pending' = candidates
                /\ proposed' = [number |-> (proposed.number - 2) % UintMod,
                                hash   |-> NoHash]
                /\ broken' = (broken \/ current >= answer.number)
  /\ UNCHANGED <<updateVars, healthy, tracker, consensusGroup, gpc, candidates,
                 snapshot, lowest, current, bannedGroups>>

AskStrict(be, answer) ==
  /\ gpc = "agree"
  /\ be \in pending
  /\ LET hash == IF proposed.hash = NoHash THEN answer.hash ELSE proposed.hash
     IN  IF answer.number = proposed.number /\ answer.hash = hash
           THEN /\ pending' = pending \ {be}
                /\ proposed' = [proposed EXCEPT !.hash = hash]
                /\ UNCHANGED broken
           ELSE /\ pending' = candidates
                /\ proposed' = [number |-> (proposed.number - 1) % UintMod,
                                hash   |-> NoHash]
                /\ broken' = (broken \/ current > answer.number)
  /\ UNCHANGED <<updateVars, healthy, tracker, consensusGroup, gpc, candidates,
                 snapshot, lowest, current, bannedGroups>>

AskNumberOnly(be, answer) ==
  /\ gpc = "agree"
  /\ be \in pending
  /\ answer.number = proposed.number
  /\ pending' = pending \ {be}
  /\ UNCHANGED <<updateVars, healthy, tracker, consensusGroup, gpc, candidates,
                 snapshot, lowest, proposed, current, broken, bannedGroups>>

\* A candidate answers.  The first answer after a step back gives the hash;
\* any difference ends the pass and steps back to the block before.
Ask(be, answer) ==
  /\ gpc = "agree"
  /\ be \in pending
  /\ LET hash == IF proposed.hash = NoHash THEN answer.hash ELSE proposed.hash
     IN  IF answer.number = proposed.number /\ answer.hash = hash
           THEN /\ pending' = pending \ {be}
                /\ proposed' = [proposed EXCEPT !.hash = hash]
                /\ UNCHANGED broken
           ELSE /\ pending' = candidates
                /\ proposed' = [number |-> (proposed.number - 1) % UintMod,
                                hash   |-> NoHash]
                /\ broken' = (broken \/ current >= answer.number)
  /\ UNCHANGED <<updateVars, healthy, tracker, consensusGroup, gpc, candidates,
                 snapshot, lowest, current, bannedGroups>>

\* Mutant of AllAgreed: the group is published before the numbers.
AllAgreedGroupFirst ==
  /\ gpc = "agree"
  /\ pending = {}
  /\ gpc' = "setLatest"
  /\ consensusGroup' = candidates
  /\ UNCHANGED <<updateVars, healthy, tracker, pending, candidates,
                 snapshot, lowest, proposed, current, broken, bannedGroups>>

\* allAgreed; the listeners are told when the consensus was broken.
AllAgreed ==
  /\ gpc = "agree"
  /\ pending = {}
  /\ gpc' = "setLatest"
  /\ UNCHANGED <<updateVars, healthy, tracker, consensusGroup, pending, candidates,
                 snapshot, lowest, proposed, current, broken, bannedGroups>>

\* The three numbers are published one after the other.
SetLatest ==
  /\ gpc = "setLatest"
  /\ tracker' = [tracker EXCEPT !.latest = proposed.number]
  /\ gpc' = "setSafe"
  /\ UNCHANGED <<updateVars, healthy, consensusGroup, pending, candidates,
                 snapshot, lowest, proposed, current, broken, bannedGroups>>

SetSafe ==
  /\ gpc = "setSafe"
  /\ tracker' = [tracker EXCEPT !.safe = lowest.safe]
  /\ gpc' = "setFinalized"
  /\ UNCHANGED <<updateVars, healthy, consensusGroup, pending, candidates,
                 snapshot, lowest, proposed, current, broken, bannedGroups>>

SetFinalized ==
  /\ gpc = "setFinalized"
  /\ tracker' = [tracker EXCEPT !.finalized = lowest.finalized]
  /\ gpc' = "setGroup"
  /\ UNCHANGED <<updateVars, healthy, consensusGroup, pending, candidates,
                 snapshot, lowest, proposed, current, broken, bannedGroups>>

\* The group is published last, and the round's locals go out of scope.
SetGroup ==
  /\ gpc = "setGroup"
  /\ consensusGroup' = candidates
  /\ bannedGroups' = [be \in Backends |->
        IF be \in candidates /\ IsBanned(be) THEN bannedGroups[be] + 1
                                             ELSE bannedGroups[be]]
  /\ gpc' = "idle"
  /\ candidates' = {}
  /\ snapshot' = [be \in Backends |-> ZeroState]
  /\ lowest' = ZeroState /\ proposed' = NoBlock
  /\ current' = 0 /\ broken' = FALSE
  /\ UNCHANGED <<updateVars, healthy, tracker, pending>>

-----------------------------------------------------------------------------
(* The environment: time, and the sliding windows behind IsHealthy. *)

Less(n) == IF n > 0 THEN n - 1 ELSE 0

Tick ==
  /\ freshFor' = [be \in Backends |-> Less(freshFor[be])]
  /\ bannedFor' = [be \in Backends |-> Less(bannedFor[be])]
  /\ UNCHANGED <<backendState, upc, healthy, tracker, consensusGroup, roundVars,
                 bannedGroups>>

HealthChanges(be) ==
  /\ be \in Flaky
  /\ healthy' = [healthy EXCEPT ![be] = ~@]
  /\ UNCHANGED <<updateVars, tracker, consensusGroup, roundVars, bannedGroups>>

UpdateBackend(be) ==
  \/ BanUnhealthy(be)
  \/ StartPolling(be)
  \/ PollFails(be)
  \/ \E r \in Reports : SetBackendState(be, r)
  \/ BanUnexpectedTags(be)

UpdateBackendGroupConsensus ==
  \/ BeginRound
  \/ \E be \in Backends : Inspect(be)
  \/ TurnToFallbacks
  \/ DropLagging
  \/ \E be \in Backends : CompareLowest(be)
  \/ Propose
  \/ \E be \in Backends : AskFails(be)
  \/ \E be \in Backends : \E answer \in Answers(proposed.number) : Ask(be, answer)
  \/ AllAgreed
  \/ SetLatest
  \/ SetSafe
  \/ SetFinalized
  \/ SetGroup

Next ==
  \/ \E be \in Backends : UpdateBackend(be)
  \/ UpdateBackendGroupConsensus
  \/ Tick
  \/ \E be \in Backends : HealthChanges(be)

Spec == Init /\ [][Next]_vars

-----------------------------------------------------------------------------
(* Properties. *)

GroupControl == {"idle", "primaries", "fallbacks", "lowest", "agree",
                 "setLatest", "setSafe", "setFinalized", "setGroup"}

\* Every variable has the type of the Go variable it stands for.
TypeOK ==
  /\ backendState \in [Backends -> BackendState]
  /\ freshFor \in [Backends -> Nat] /\ bannedFor \in [Backends -> Nat]
  /\ healthy \in [Backends -> BOOLEAN]
  /\ upc \in [Backends -> {"idle", "polling", "banning"}]
  /\ tracker \in [latest : Nat, safe : Nat, finalized : Nat]
  /\ consensusGroup \subseteq Backends
  /\ gpc \in GroupControl
  /\ pending \subseteq Backends /\ candidates \subseteq Backends
  /\ snapshot \in [Backends -> BackendState]
  /\ lowest \in BackendState
  /\ proposed \in [number : Nat, hash : Hashes \cup {Genesis, NoHash}]
  /\ current \in Nat /\ broken \in BOOLEAN
  /\ bannedGroups \in [Backends -> Nat]

\* Every backend is so far past genesis that one which recorded nothing is
\* always lagging behind one which did.
MatureChain == \A r \in Reports : r.latest > MaxBlockLag

IsLowest(n, numbers) == n \in numbers /\ \A m \in numbers : n <= m

\* When UpdateBackendGroupConsensus installs a group, the published safe and
\* finalized are the lowest its members reported and no member's head is below
\* the published latest, whatever was recorded while the round was running.
PublishedTagsLowest ==
  gpc = "setGroup" /\ candidates # {} =>
    /\ \A be \in candidates : tracker.latest <= snapshot[be].latest
    /\ IsLowest(tracker.safe, {snapshot[be].safe : be \in candidates})
    /\ IsLowest(tracker.finalized, {snapshot[be].finalized : be \in candidates})

\* The group is resolved on the lowest safe block: no member that reported a
\* safe block reported one below the published safe.
LowestSafePublished ==
  gpc = "setGroup" =>
    \A be \in candidates : snapshot[be].safe > 0 => tracker.safe <= snapshot[be].safe

\* A ban takes effect within one round: UpdateBackendGroupConsensus publishes
\* at most one more group with a backend after Ban, the one it was resolving.
BannedPublishedAtMostOnce == \A be \in Backends : bannedGroups[be] <= 1

\* proposedBlock never passes below 0 into the top of the uint64 range, nor
\* above the head it started from.
WalkBackNeverWraps == proposed.number <= lowest.latest

\* The published latest goes back below the previous one without a consensus
\* broken event only when a candidate's own head is below the previous one.
RegressionIsSignalled ==
  /\ gpc \in {"setSafe", "setFinalized", "setGroup"}
  /\ tracker.latest < current /\ current <= lowest.latest
  => broken

\* What is recorded of a backend breaks finalized <= safe <= latest only
\* between setBackendState and the Ban that answers it.
InvertedTagsAwaitBan ==
  \A be \in Backends \ Forced :
    upc[be] # "banning" =>
      /\ backendState[be].finalized <= backendState[be].safe
      /\ backendState[be].safe <= backendState[be].latest

\* The recorded safe and finalized of a backend go back only when
\* checkExpectedBlockTags has called for a ban, or when Ban zeroes them.
TagsRegressOnlyIntoBan ==
  [][\A be \in Backends \ Forced :
       \/ backendState'[be].safe < backendState[be].safe
       \/ backendState'[be].finalized < backendState[be].finalized
       => upc'[be] = "banning" \/ bannedFor'[be] > 0]_vars
=============================================================================
