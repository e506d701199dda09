# Verification of infra

TLA+ models, TLC instances and TLAPS proofs for the services of this
repository. The models are translated from the Go and Python sources under
`src/`; `PROJECT.json` maps every definition to the lines it stands for. The
core is the consensus-aware load balancer of **proxyd**: the pollers that watch
the backends, the rounds that resolve which backends agree, the Redis tracker
that shares the result between several proxyd processes, and the path of a
client request through all of it, from the HTTP body to the calls to the
backends and back. Around it are models of the other services.

Contents: 1 the system, 2 the modules, 3 the runs, 4 the proofs, 5 findings,
6 what is abstracted, 7 what is not modelled.

## 1. The system

### proxyd

| part | source | state | operations |
| --- | --- | --- | --- |
| consensus poller | `consensus_poller.go` | per backend: numbers, hash, peers, sync, lastUpdate, bannedUntil; the group | `UpdateBackend` (a goroutine per backend), `UpdateBackendGroupConsensus` (a goroutine per group), `Ban`, `FilterCandidates` |
| tracker | `consensus_tracker.go` | local and remote numbers, leader flag, mutex in Redis | `stateHeartbeat`, `postPayload`, getters and setters |
| request path | `backend.go`, `rewriter.go` | none of its own; copies of the group and the numbers | `Forward`, `OverwriteConsensusResponses`, `ForwardRequestToBackendGroup` |
| backend | `backend.go` | sliding windows, semaphore | `Forward` with retries, `doForward`, `IsHealthy` |
| multicall | `backend.go` | a channel and a wait group per request | `ExecuteMulticall`, `ProcessMulticallResponses` |
| WebSocket proxy | `backend.go` | two connections, two mutexes, an error channel | `clientPump`, `backendPump`, `close` |
| RPC server | `server.go`, `rpc.go`, `methods.go` | none shared | `HandleRPC`, `handleBatchRPC`, `HandleWS` |
| cache | `cache.go` | LRU or Redis | `GetRPC`, `PutRPC` |
| rate limiters | `frontend_rate_limiter.go` | a map per window, keys in Redis | `Take` |
| sliding window | `pkg/avg-sliding-window` | buckets, their sum and count | `AddWithTime`, `advance`, `Sum`, `Avg` |

How they interact. Each backend's goroutine asks its node for sync state, peers
and the latest, safe and finalized blocks, and records them. The group's
goroutine copies these records, drops the backends that do not qualify, takes
the lowest numbers, asks every candidate for the proposed block and walks back
until all hashes agree. It then publishes three numbers to the tracker and,
last, the group. A client request takes a copy of the group, reads the three
numbers, rewrites its block tags and tries the backends of its copy in turn.
Its failures and latencies feed the sliding windows from which the pollers
decide that a backend is unhealthy and ban it. In front of this, the server
takes a body apart into calls, answers some of them itself, from its limits or
from the cache, and forwards the others in minibatches. With the Redis tracker, the
numbers that requests read are those of the instance that holds the lock.

### Other services

| service | source | what it does |
| --- | --- | --- |
| peer management service | `peer-mgmt-service/pkg/pms` | polls p2p nodes and connects those that should be peers |
| op-ufm | `op-ufm/pkg/provider` | sends transactions through providers and measures when they are seen |
| op-conductor-mon | `op-conductor-mon/pkg/monitor` | polls conductors and reports who leads |
| op-txproxy | `op-txproxy` | rate-limits and forwards conditional transactions |
| op-signer | `op-signer/service` | signs for authenticated clients |
| op-nat | `op-nat` | runs acceptance tests against a network |
| cci-stats | `cci-stats` | copies CI pipelines to a database, incrementally |
| op-conductor-ops | `op-conductor-ops` | operator commands on a sequencer cluster |

### What is hard to test here

`PROJECT.json` lists the main hazards at the line where each bites. In proxyd they
come from four places: a poll is visible before it is judged; a round works on
copies of records that go on changing; publication takes four writes; and a
request reads group and numbers at different times. In the tracker they come
from locks that expire under their holder and from calls that fail after they
took effect. Numeric edges are specific to this code: block numbers are
unsigned, 0 also means "none yet", and a rate limit's counter lives a
millisecond less than its window. In the smaller services they come from
decisions taken on what was read some calls ago (peer management, the conductor
tools), from one call of several failing (cci-stats, op-signer, op-nat), and
from waits that something has to end (multicall, WebSockets, op-ufm).

## 2. The modules

| module | models | role |
| --- | --- | --- |
| `ConsensusPoller` | `consensus_poller.go` | the component; backends answer anything |
| `ConsensusChain` | the same, with the chains of the backends | composition: answers come from chains that grow and fork |
| `ConsensusView` | what readers of the poller may rely on | abstract specification |
| `ConsensusPollerView` | the refinement mapping from poller to view | `ImplementsView` |
| `ConsensusRequest` | `BackendGroup.Forward` and tag rewriting | component; reads what others publish |
| `ConsensusServing` | request and view | composition |
| `ConsensusTracker` | `consensus_tracker.go` with Redis | component |
| `BackendForward` | `Backend.Forward`, `doForward`, `DoLimited` and the fail-over of `ForwardRequestToBackendGroup` | component |
| `SlidingWindow` | `sliding.go`, `IsHealthy`, `ErrorRate` | component |
| `Totals` | the sum over the buckets of a window | operator of `SlidingWindow` |
| `Rewriter` | `rewriter.go`, `OverwriteConsensusResponses`, `OverrideResponses` | operators, applied to lists of requests |
| `BatchServer` | `HandleRPC`, `handleBatchRPC`, `cache.go`, `methods.go`, `rpc.go` | component |
| `RateLimiter` | `frontend_rate_limiter.go` | component |
| `Multicall` | `ExecuteMulticall`, `ProcessMulticallResponses` | component |
| `WSProxier` | `HandleWS`, `ProxyWS`, `WSProxier` | component |
| `ProxydStart` | `Start`, `Shutdown` | component |
| `PeerManagement` | `peer-mgmt-service/pkg/pms` | component, with the p2p nodes |
| `UserFlowMonitor` | `op-ufm/pkg/provider` | component, with the chain |
| `ConductorMonitor` | `op-conductor-mon/pkg/monitor` | component, with the cluster |
| `TxProxy` | `op-txproxy/conditional_txs.go` | component, with the rate limiter it uses |
| `Signer` | `op-signer` | component, with the key service |
| `Nat` | `op-nat` | component, with two networks |
| `CciStats` | `cci-stats` | component, with the database |
| `ConductorOps` | `op-conductor-ops` | component, with the conductors |
| `NumberProofs` | | lemmas about numbers that the proofs share |
| `ConsensusProofs` | | theorems about `ConsensusPoller`, `ConsensusPollerView`, `ConsensusChain` |
| `ForwardProofs` | | ... `BackendForward`, `Multicall`, `ProxydStart` |
| `ServingProofs` | | ... `ConsensusServing`, `BatchServer`, `WSProxier` |
| `WindowProofs` | | ... `SlidingWindow`, `TxProxy` |
| `RequestProofs` | | ... `Rewriter`, `RateLimiter` |
| `LeadershipProofs` | | ... `ConsensusTracker`, `ConductorOps`, `ConductorMonitor` |
| `ServicesProofs` | | ... `PeerManagement`, `UserFlowMonitor`, `Signer`, `CciStats`, `Nat` |
| `MC...` | | instances for TLC |

Operators named in a comment as mutants of a definition are deliberately wrong
variants of it. No specification uses them; they record which plausible
mistake in the code each property would catch.

### ConsensusPoller

State. `backendState` holds what a poll stores. `lastUpdate` and `bannedUntil`
are kept as the ticks until they matter, `freshFor` and `bannedFor`, so that the
clock itself is not part of the state. `upc[be]` is where a backend's goroutine
stands: `idle`, `polling` (between its first and last RPC) or `banning` (its
record is visible, its tags are bad, `Ban` has not run yet). `gpc` is where the
round stands; `pending`, `candidates`, `snapshot`, `lowest`, `proposed`,
`current` and `broken` are the locals of `UpdateBackendGroupConsensus`.
`bannedGroups` is a history variable: the groups published with a backend since
its ban.

| code | actions |
| --- | --- |
| `UpdateBackend` 306-420 | `BanUnhealthy`, `StartPolling`, `PollFails`, `SetBackendState`, `BanUnexpectedTags` |
| `getConsensusCandidates`, `FilterCandidates` 716-798 | `BeginRound`, `Inspect`, `TurnToFallbacks`, `DropLagging` |
| lowest numbers 444-462 | `CompareLowest`, in any order of the map |
| agreement 464-523 | `Propose`, `Ask`, `AskFails`, `AllAgreed` |
| publication 526-546 | `SetLatest`, `SetSafe`, `SetFinalized`, `SetGroup` |
| time, sliding windows | `Tick`, `HealthChanges` |

Block numbers wrap at `UintMod`, which stands for 2^64.

### ConsensusChain

A backend has a chain: a head from `MinHead` to `MaxHead`, the block from which
it is on a fork of its own, and whether its tags are right. `Poll` and `Query` fix the inputs of
`SetBackendState` and `Ask` to what that chain holds. Chains change while the
poller asks. `Faults` allows failing queries and reorganisations that shorten a
chain.

### ConsensusView

A round fixes a group, the numbers its members reported and a latest block not
above any member's head, and publishes in four steps. `ConsensusPollerView`
maps the poller's locals to the round of the view.

### ConsensusRequest, ConsensusServing

`inflight` is one client request: `OrderBackends` copies the members of the group
that `IsHealthy` lets through, any of them, `ReadLatest`, `ReadSafe` and `ReadFinalized` read the numbers one at
a time and rewrite the tag, `SendTo`, `Served` and `Failed` try the backends.
`eth_blockNumber` and blocks above latest are answered without a call
(`AnswerAtOnce`). `ConsensusServing` runs this against the view, so what is
shown there holds of anything that implements the view. The view knows nothing
of bans: how long a banned backend stays in the published group, and so may be
sent requests, is the subject of `BannedPublishedAtMostOnce`.

### ConsensusTracker

`lock`, `lockTTL`, `posted` and `postedTTL` are the Redis keys; the others are
the fields and locals of each instance. Lock values are numbered in the order
they are issued: redsync draws 16 random bytes, so values are distinct. The
heartbeat is split at each Redis call. A failing call may have taken effect
(`ExtendFails`, `UnlockFails`, `LockFails`, `SetStateFails`). `postPayload`
marshals `ct.local` without its mutex, so `Marshal` and `CopyLocal` read one
field at a time and a poller may write in between. `author` is a history
variable.

### BackendForward

Several requests run at once and share the semaphore, which is one for all
backends (`proxyd.go:118`). `pc[r]` is where a request stands: between backends
(`next`), before an attempt, waiting for the semaphore, waiting for the header,
or reading the body. `method` is the method in the caller's request, which
`doForward` overwrites; `translated` is the local `translatedReqs`. `requests`
and `errors` are what each request adds to a backend's sliding windows.
`skipped` is a history variable.

| code | actions |
| --- | --- |
| `ForwardRequestToBackendGroup` 1394-1470 | `TryBackend`, `ServeEmpty`, `NoBackends`; `Refuse` for the errors that end a request |
| `Backend.Forward` 357-443 | `Again`, in every action that ends in its default branch |
| translation 489-540 | `RefuseBatch`, `Translate`, `Prepare` |
| `DoLimited` 1328-1335 | `Acquire`, `AcquireFails`; released in `SendFails` and `Responds` |
| the answer 584-676 | `SendFails`, `Responds`, `ReadFails`, `BadResponse`, `TooLarge`, `UnexpectedJSONRPC`, `Serve` |
| the client's deadline | `Expire` |

### SlidingWindow

`buckets[w]` is the sequence a window's linked map is, in insertion order;
`qty` and `sum` are its totals. An `Add` reads the clock (`Add`), evicts in one
critical section (`AddAdvance`) and inserts in another (`AddWithTime`), so
adders overtake each other. `health` is one `IsHealthy` at work: each `Sum`
evicts first (`SumAdvance`) and is read without the mutex (`ReadRequests`,
`ReadErrors`, `ReadTotal`, then `ReadQty`, `ReadSum` and `Divide` for the average
latency). `Total` adds up the buckets. `added` and `lastAdd`, how much was added and
when last, are history variables, and so is `since` of `health`, when it began.

### Rewriter

`rewriteTag`, `rewriteParam`, `rewriteRange` and the others are operators with
the code's names. A block parameter has a tag, a number and whether it is an
EIP-1898 object. `ForwardList` applies `RewriteTags` to a whole list, keeps the
`Positions` of what is forwarded and of what is answered without a backend, and
splices the answers back in by index, as `OverrideResponses` does. Unsigned subtraction is modulo `Word`.

### BatchServer

`http[h]` is an HTTP request, `work` the group of calls at hand, `responses` its
answers so far; limits and both caches are shared between handlers. The slices
of `batchElem` in the code hold calls in the order of the batch, so a slice is the
set of its positions, and its first element the least (`Foremost`).

| code | actions |
| --- | --- |
| `HandleRPC` 252-389 | `HandleRPC`, which may end in `RefuseBody` |
| the loop over the calls 407-495 | `Loop` per call, `Healthz`; `LimitersOf`, `SenderLimiter` and `TakenOf` say which limits a call takes from, `GroupId` how repeated ids are told apart |
| cache lookup | `GetRPC` (a lookup may miss what is there: entries expire) |
| minibatches 525-563 | `ShortCircuit`, `Forward`, `ForwardFails`, `ReceiptsFail`, `PutRPC`, `EndGroup` |

### RateLimiter

`rdb` is Redis, `gens` the generations of the in-memory limiter, `taker[t]` where
a `Take` is. A `Take` names its window (`Take`), runs its command some time later
(`RedisTake`, or `RedisFails` with or without effect), falls back
(`MemoryTake` pulls out the generation, `Count` counts in it after the unlock).
`byRedis` and `byMemory` are histories of what was granted.

### Multicall, WSProxier

`Multicall`: one goroutine per backend forwards and puts in the buffered channel
`ch`, one closes it after all of them, `main` receives. The client's answer does
not wait for the others.

`WSProxier`: `HandleWS` dials the backends in turn, then two pumps run. A pump is
`read`ing, `route`s a message (`Receiver` says to whom), or on its way out
(`sendClose`, `fail`, `ended`). `ProxyReturns` takes the first error and
`close`s both connections. A peer may go away or fall silent at any time.

### ProxydStart

`conf` is the configuration `Start` was given; its checks are predicates in the
code's order. The servers listen from their own goroutines (`MakeServer`,
`Listen`) while `Configure` makes the pollers group by group.

### PeerManagement

A tick is `cleanup`, `pollSelf` and `pollNode` per member, `reportMetrics`,
then `connectPeer` per pair with one `CallPeer` per RPC (both disconnects,
unblocks, connect, protect). `ids`, `conn` and `blocked` are the nodes
themselves, which restart under another id, drop connections and block peers.

### UserFlowMonitor

`sender[p]` is a provider's `RoundTrip` (nonce, send, add to the pool, wait for
the receipt) under `exclusive`, the pool's mutex; `beat[p]` its `Heartbeat`, which
marks transactions of the others as seen and removes those everyone saw. Clocks
are the saturated time since an event. `silent` are providers that never answer:
the client has no deadline (`metrics/clients/eth.go:24`), so such a call hangs.

### CciStats

`runner` is the process; `worker[p]` is `processPipeline` of a pipeline, split at
each call to the API and the database; `inTx[p]` is what its open transaction sees
and `conns` who holds a connection of the pool. Calls fail, the process is
interrupted or killed, and the next run starts from what is stored.

### ConductorMonitor, ConductorOps

`ConductorMonitor`: the leader and the leader each node knows of change between
the calls `PollLeader`, `PollLeaderWithID` and `PollClusterMembership` of a poll.
`view[n]` is the leader node `n` knows of, which it learns of some time after the
election. `sinceLed`, how long ago a node took itself for the leader, is a history.

`ConductorOps`: a command line (`Command`) reads all sequencers, the conductor and
the node of each at different times and in any order (`Update`), then sends its calls; each call (`Post`) may be refused, or lost before
or after it took effect. Conductors that are not paused elect leaders (`OpsElect`)
and start and stop their sequencers (`Conduct`) meanwhile.

### TxProxy, Signer, Nat

`TxProxy`: the limiter of `golang.org/x/time` is external; tokens are reserved
ahead (`Reserve`) and given back by a wait that is cancelled. `excess` is a
history variable: tokens given back that had not been taken (see section 5).

`Signer`: `InitPart`, `InitFails`, `AppStarted` and `Stop` of the application, and
requests that choose an entry (`GetAuthConfigForClient`), read the public key,
sign, and convert and verify; the key service may answer anything.

`Nat`: `suites` and `nat` follow the gate through its suites and tests; `Mine` lets
the networks mine and derive blocks, or not. Block numbers are words. `blind` is a
history variable: the transactions taken for confirmed when `BlockNumber` failed.

## 3. The runs

All sizes are of the instance that TLC explores completely.

| run | instance | checks |
| --- | --- | --- |
| `poller_tags` | two primaries, two heads on two forks, one with inverted tags, arbitrary answers | `PublishedTagsLowest`, `WalkBackNeverWraps`, `RegressionIsSignalled`, `InvertedTagsAwaitBan`, `TagsRegressOnlyIntoBan`, `ImplementsView` |
| `poller_bans` | a flaky primary and a fallback, a report for each reason to turn a backend down | `BannedPublishedAtMostOnce` |
| `chain_live` | two primaries, heads up to 2, every pair of forks, one with wrong tags until repaired | `Converges` |
| `chain_agree` | the same with right tags and one change of a chain at any time | `GroupAgrees` |
| `tracker` | two instances, three lock values, one restart, three local writes, failing calls, late heartbeats | `PostsUnderOwnValue` |
| `tracker_timely` | two instances, heartbeats in time, one restart | `RemoteIsCopied`, `LockIsHeld` |
| `components` | twelve components, one at a time, see below | safety |
| `progress` | five components that wait for others, one at a time, see below | safety and liveness |
| `poller_young`, `chain_fault`, `tracker_stall`, `forward_receipts` | | violated: see 5 |

Type correctness is proved where a module has proofs (section 4), for every value
of the constants, and is not checked again here.

`components` and `progress` hold small components that share no state. The
initial state chooses one (`part`), and only that one moves, so each is explored
completely and by itself; the variables of the others keep their initial values,
and the `VIEW` of `components` leaves them out of the fingerprint, with what neither
a step nor a property looks at.

| run | part | instance | checks |
| --- | --- | --- | --- |
| `components` | serving | two backends, two sets of tags, every tag and a given number | `TargetHasBlock` |
| | batch | two handlers, batches with repeated ids and calls, singles, two calls per minibatch, a limit of one's own and a sender's | `ResponsesAligned`, `CacheSound` |
| | window | two adders, three additions, a window of two buckets, an insertion one bucket late, a verdict from two requests on | `WindowBounded`, `UnhealthyNeedsErrors` |
| | limiter | two goroutines, a limit of one, windows of three milliseconds, failing Redis | `MemoryWithinLimit`, `RedisWithinTwice` |
| | rewriter | every parameter in every method, every pair of log bounds, every list of up to three of three kinds of answers | `TagsResolved`, `RangeBounded`, `SplicedInPlace` |
| | start | right configurations, and each that is wrong in one way | `ServedAsConfigured` |
| | monitor | two nodes, a third server, three elections, departures or failures | `LeadersShown` |
| | txproxy | four concurrent requests, as many as it takes to give back too much, every reason to refuse one | `CostWithinRate` |
| | signer | a client with two entries, another with one, wrong senders, chains, values | `SignedAsAsked` |
| | ops | two sequencers, two commands, one failure, one election | `StartsAlone`, `MembershipMatches` |
| | cci | three pipelines with two jobs, two workers, two connections, two runs, one failure | `ResultsOnce`, `BeginFindsConnection` |
| | nat | two networks, a wallet that can pay for a transfer and one for a deposit, enough blocks for a green report, one failing call | `ReportIsTrue` |
| `progress` | forward | three pairs of the six kinds of requests that meet at the semaphore, two backends with different targets (one unsupported), one retry, one place in the semaphore | `WrappedNamesTarget`, `ForwardAnswered` |
| | multicall | three backends | `FailureOnlyIfAllFailed`, `MulticallEnds` |
| | ws | two backends to dial, two messages of the client, one of the backend | `MessagesInOrder`, `PumpsEndTogether` |
| | peers | two members, three ids, two faults | `NamesFollowIds`, `MutuallyConnected` |
| | ufm | two providers, any of them silent, two transactions, one failing call | `PoolDrains` |

What they show.

* `PublishedTagsLowest`: at the moment a group is installed, the published safe
  and finalized are the minimum over the members' reports and latest is above
  nobody's head, whatever was polled or banned during the round.
* `WalkBackNeverWraps`: the unsigned walk-back stops at genesis.
* `RegressionIsSignalled`: latest moves back without the broken event only if a
  candidate's own head is below the previous consensus block.
* `InvertedTagsAwaitBan`, `TagsRegressOnlyIntoBan`: the window between
  `setBackendState` and `Ban` is the only one in which bad tags are on record.
* `BannedPublishedAtMostOnce`: only the round that was running when a backend
  was banned can still publish it.
* `Converges`: after repair, bans run out, the backend rejoins, and the group
  settles on everyone who does not lag, at their newest common block.
* `GroupAgrees`: the published block has one hash in the group, unless a chain
  changed under the round.
* `TargetHasBlock`: a backend is asked only for a block it had reported, unless
  a round is published between the first and the last read of the request.
* `PostsUnderOwnValue`: late leaders post only under a value they acquired, so
  followers of the present lock never read a former leader's state.
* `RemoteIsCopied`, `LockIsHeld`: followers keep following, and a leader that
  dies with the lock is replaced.
* `ForwardAnswered`: every path through retries and fail-over gives its place in
  the semaphore back, so that the requests that wait for it are answered.
* `WrappedNamesTarget`: a wrapped result names the target of the backend that
  served it. It holds because `translatedReqs` is made anew in each attempt;
  keeping it, the obvious repair of `forward_receipts`, breaks this one.
* `ResponsesAligned`, `SplicedInPlace`: whatever was limited, cached, grouped,
  overridden or answered out of order, a client finds each answer at the place
  of its call, and no minibatch makes `sortBatchRPCResponse` panic.
* `CacheSound`: a cache holds under a key only results that stay right.
* `WindowBounded`, `UnhealthyNeedsErrors`: late insertions
  neither make the totals drift nor keep a bucket longer than they are late,
  and a verdict read in three steps has an error behind it that was added in the
  window, or while `IsHealthy` ran.
* `MemoryWithinLimit`, `RedisWithinTwice`: the first is the limit; the second is
  twice the limit, because a counter lives a millisecond less than its window.
* `TagsResolved`, `RangeBounded`: the blocks a backend is asked for are a hash, the
  first one, or numbers up to the agreed ones, whether the client wrote them or
  left them out. Three things pass as they are, and the property names them:
  `pending`, a null or empty block, and a filter of logs with neither bound, which
  the backend reads as its own latest. The unsigned length of a range hides no
  range that is too long or the wrong way round.
* `ServedAsConfigured`: whatever listens can route what it is configured to, and
  after `Start` a consensus aware group has its poller. A request that comes while
  `Start` still runs may be served without it.
* `FailureOnlyIfAllFailed`, `MulticallEnds`: a success is never given up, and no
  goroutine is left behind.
* `MessagesInOrder`, `PumpsEndTogether`: each side gets what the other sent, in
  order and once, and a connection that ends takes its other half with it.
* `NamesFollowIds`, `MutuallyConnected`: ids that move between
  nodes never leave a wrong name behind (they may leave none until the next poll),
  and every pair that may is connected for good once faults cease.
* `PoolDrains`: with any set of providers that never answer, the others go on. The
  mutex that lets one provider send is held for ever only by a `RoundTrip` without
  an answer, and the pool runs empty of the transactions whose other providers
  all answer. That a silent sender stops all sending is what the code does.
* `ResultsOnce`, `BeginFindsConnection`: storing again what is stored, failing
  halfway and being killed leave each result exactly once; a run without an
  error has stored everything; and the connections that failed inserts lose are
  missed by no worker, because the first error cancels those that would come.
* `LeadersShown`: how long ago a node that is counted as a leader took itself for
  one, and what the gauges may still say of servers that left.
* `CostWithinRate`: no interleaving of reservations and cancellations lets more
  through than burst and rate, and what the limiter gives back beyond what was
  taken.
* `SignedAsAsked`: a signature is of what was asked, by the right entry, whatever
  the key service answers.
* `StartsAlone`: while conductors go on electing, `force_active_sequencer` starts
  its sequencer only when none is active (that none is active afterwards, when
  the start fails, is left to the operator).
* `MembershipMatches`: each read or call that fails costs at most one sequencer
  its configured place in the cluster; the loop goes on and sets the others right.
* `ReportIsTrue`: a test that moves money and passed has its transaction mined and
  with the confirmations it asks for, unless a failed `BlockNumber` stood for
  them; and a report hides no failure. The run reaches a report in which all
  tests passed.

Bounds. Two backends are enough for disagreement, for a member being banned
while the other stays, and for the group turning to a fallback; a third is used
where the defect needs it (`poller_young`). Heads of 2 and 3 with a lag of 1
reach walk-backs to genesis, where wrapping would show. Ban periods of 1 and 2
ticks let a ban start, overlap rounds, and end. The tracker needs two lock
values to have a former and a present leader, and a third for the lead to come
back; writes of local states are bounded because each multiplies the states by
the torn reads it allows. One retry and two backends give a request
both a second attempt and a second target; one place in the semaphore makes two
requests wait for each other. In the smaller components two of everything that
runs concurrently, and a budget of one or two faults, reach every step of the
code in every order with the other's; each bound is a constant whose comment says
`bound`. The theorems of section 4 remove these bounds for
the safety properties. Symmetry is used in `poller_tags`, which checks no liveness.

Fairness. `ConsensusChain` assumes weak fairness of each backend's goroutine,
of the group's goroutine and of time: each is an endless loop on a timer, and
every RPC returns since its client has a timeout. `TimelyTick` lets time pass
only after every backend that is not banned was polled: the poll interval is far
below `maxUpdateThreshold`. In `ConsensusTracker` the heartbeat is weakly fair
for the same reason; `TimelySpec` adds that the heartbeat interval (2 s) is far
below the lock period (30 s), and `FairSpec` does not. In `BackendForward` the step of
each request is weakly fair: the HTTP client has a timeout (5 s unless
configured), which covers the body, so a call that was sent returns. In
`Multicall` and `WSProxier` goroutines run and the system tells a reader that its
connection was closed; a peer is never assumed to send or to answer.
`PeerManagement` runs on a timer, with a timeout on its calls
(`opp2p_client/opp2p.go:26`); faults are bounded, so that they cease. The
goroutines of `UserFlowMonitor` run on timers but their calls have no deadline:
the steps of a provider are fair only if it is not in `silent`, a set that the
initial state chooses freely, and the property says what the silent ones may
hold up. Deadlock is not checked where a system
ends: in `forward_receipts`, `components` and `progress`.

## 4. The proofs

| theorem | states |
| --- | --- |
| `ConsensusProofs!TypeCorrect` | `Spec => []TypeOK` |
| `BanEffective` | `Spec => []BannedPublishedAtMostOnce` |
| `TagsOrdered`, `TagsMonotone` | `Spec => []InvertedTagsAwaitBan`, `Spec => TagsRegressOnlyIntoBan` |
| `WalkBackBounded` | `Spec => []WalkBackNeverWraps` |
| `RegressionSignalled` | `Spec => []RegressionIsSignalled` |
| `TagsLowest` | under `MatureChain`, `Spec => []PublishedTagsLowest` |
| `PollerImplementsView` | under `MatureChain`, `Spec => ImplementsView` |
| `ChainRefinesPoller` | `ChainSpec => Spec` |
| `GroupAgreesHolds` | under `MatureChain` and `~Faults`, `ChainSpec => []GroupAgrees` |
| `ForwardProofs!ForwardInvariant` | `Spec => []ForwardInv`, the inductive invariant, `TypeOK` included |
| `ForwardTypes` | `Spec => []TypeOK` |
| `ErrorsWithinRequestsHolds`, `NoBackendsOnlyAfterAllHolds`, `WrappedNamesTargetHolds`, `SemaphoreBalancedHolds` | `Spec => []P` for the property each is named after |
| `McInvariant` | `McSpec => []McInv`, the inductive invariant |
| `FailureIfAllFailed`, `NoSendOnClosed` | `McSpec => []FailureOnlyIfAllFailed`, `McSpec => []ClosedAfterSends` |
| `ServedAsConfiguredHolds` | `StSpec => []ServedAsConfigured` |
| `ServingProofs!TargetHasBlockHolds` | `ServingSpec => []TargetHasBlock` |
| `ResponsesAlignedHolds`, `CacheSoundHolds` | `BsSpec => []ResponsesAligned`, `BsSpec => []CacheSound` |
| `MessagesInOrderHolds` | `WsSpec => []MessagesInOrder` |
| `WindowProofs!WindowBoundedHolds`, `UnhealthyNeedsErrorsHolds` | `SwSpec => []WindowBounded`, `SwSpec => []UnhealthyNeedsErrors` |
| `CostWithinRateHolds` | `TpSpec => []CostWithinRate` |
| `RequestProofs!ForwardedTagsResolved`, `ForwardedRangeBounded` | `RwSpec => []TagsResolved`, `RwSpec => []RangeBounded` |
| `SplicedInPlaceHolds` | `RwSpec => []SplicedInPlace` |
| `RlInvariant` | `RlSpec => []RlInv`, the inductive invariant |
| `LimiterTypes`, `MemoryLimit` | `RlSpec => []RlTypeOK`, `RlSpec => []MemoryWithinLimit` |
| `RedisLimit` | under `LimiterLag < Lifetime`, `RlSpec => []RedisWithinTwice` |
| `LeadershipProofs!TypeCorrect` | `Spec => []TypeOK` of the tracker |
| `OwnPosts` | `Spec => []PostsUnderOwnValue` |
| `StartsAloneHolds`, `MembershipHolds` | `OpsSpec => []StartsAlone`, `OpsSpec => []MembershipMatches` |
| `LeadersShownHolds` | `MonSpec => []LeadersShown` |
| `ServicesProofs!NamesFollow` | `PmSpec => []NamesFollowIds` |
| `PoolAwaited` | under `SeveralProviders`, `UfSpec => []Awaited` |
| `SendExclusive` | `UfSpec => []SendIsExclusive` |
| `SignedAsAskedHolds` | `SgSpec => []SignedAsAsked` |
| `ResultsOnceHolds`, `BeginFindsConnectionHolds` | `CsSpec => []ResultsOnce`, `CsSpec => []BeginFindsConnection` |
| `ReportIsTrueHolds` | `NatSpec => []ReportIsTrue` |

So every invariant and action property of the passing runs is proved, and the
runs add what the proofs cannot: that the interesting cases happen, that each
property catches a mistake in the code (the mutants), and liveness.

Proved only, and in no run: the type invariants; `ErrorsWithinRequests` (every
counted error belongs to a counted request, so no error rate is above 1),
`NoBackendsOnlyAfterAll` (fail-over never loses an attempt), `SemaphoreBalanced`
(the semaphore counts exactly the calls under way), `ClosedAfterSends` (nobody
sends on a closed channel), `SendIsExclusive` (op-ufm holds its lock exactly
while it sends) and `Awaited` (every transaction in the pool of op-ufm is still
looked for by a provider, or about to be compared with `Expected`), which is the
safety behind `PoolDrains`.

They hold for any sets of backends, instances, requests or messages, any reports,
periods, sizes and bounds. They rest on the named assumptions of the modules,
which say of the constants what the code or its configuration says:
`ReportsAssumption` (a poll that answers 0 is not recorded, as the code's early
returns have it), `ConfigAssumption`, `ChainAssumption` (what a chain answers is
among the reports), `NumbersAreNaturals` (block numbers of the view are natural
numbers), `TrackerAssumption`, `ForwardAssumption`, `TargetsAssumption`
and others (finitely many backends, requests or goroutines),
`BodiesAssumption` and `SignerAssumption` (batches and entries are lists),
`LimiterAssumption`, `WindowAssumption` (a lag is of whole buckets),
`TxProxyAssumption`, `RewriterAssumption` (agreed blocks stay below the largest
word by the maximum range), `StartAssumption`, `OpsAssumption` (sequencers have
distinct names), `MonitorAssumption`, `PmsAssumption`, `UfmAssumption`, `CciAssumption` and
`NatAssumption` (block numbers fit the word).

Five theorems have a hypothesis of their own. `MatureChain` says that every
reported head is above `maxBlockLag`; `poller_young` shows what happens otherwise.
`~Faults` says that queries do not fail and chains do not shrink; `chain_fault`
shows what happens otherwise. `LimiterLag < Lifetime` says that a command is
delayed by less than a counter lives: one delayed for longer can find a third
counter of its window. `SeveralProviders` says that a network has two providers
or more: with one, no heartbeat looks at its transactions and they stay in the pool.

The inductive invariants, and why the properties alone are not inductive:

* `BanInv`. A count of 1 says nothing about whether the round under way can
  publish the backend again. `BanInv` adds that a candidate that is banned was
  banned after it was inspected, so no group has been published with it since.
* `WalkInv` carries, through every pass, that the proposed block is at most the
  lowest head, that at block 0 every answer has the genesis hash, and that
  `broken` is set once the walk-back has passed the previous consensus block.
* `LowestInv` says of each control point what the running minimum is the
  minimum of: the candidates already visited. It needs that either all
  candidates have a state or none has, which is where `MatureChain` enters: a
  backend without a state lags behind any that has one and is dropped.
* `TagsInv` (for the refinement): every snapshot is one of the tag sets of the
  view.
* `OwnInv`: `lock <= issued`, and each instance is the author of the value of
  its mutex and of the value it posts under. A leader about to extend may have
  read another instance's value; the lock has then moved on for good, since
  values are not issued twice, and `Extend` fails before anything is posted.
* `ForwardInv` is stated for one request and lifted by a frame lemma: a step of
  one request moves no other. It says that the requests counted at the backend
  being tried are the attempts made there, that an attempt under way has one
  error still to count, that backends already left had all their attempts, and
  that a translated attempt carries the target of the backend it goes to. The
  semaphore is the number of requests waiting for a header, by cardinality.
* `RlInv` adds to the limit that a window has one generation at most, the
  generations being in the order of their windows, and that what a generation
  granted is what it counted, up to the maximum. A `Take` that counts late holds
  the index of its own generation, so it cannot be granted from a later one.
* `McInv` says where each backend's answer is: not there yet, in the channel once,
  or taken; that what was taken before the end had failed; and that the channel
  is closed after the last put. A failure is returned when the channel is closed
  and empty, so then every answer was taken and had failed.
* `NamesInv` adds that every state of a node has an id. A poll deletes the
  name of the node's old id first; that it may then be another node's is why only
  this direction holds.
* `AgreeInv` (for `ConsensusChain`): while no chain changes, a candidate that was
  asked in this pass has the proposed hash at the proposed number, and on
  publication all of them have. It rests on `WalkInv` and `LowestInv`, which hold
  of the composition because it refines the poller.
* `WsInv` adds to the property that a pump that holds a message has read one, and
  that no pump runs before `Dial` has returned.
* `ServingInv` says of each phase of a round which of the published fields fit its
  members already (`RoundInv`), and of each step of a request, while no round is
  published, that what it has read is what is published (`ReadInv`).
* `BsInv` follows a batch: a call the loop has seen waits in a group, is at work,
  or has its own response; no group has an id twice, because the number of a
  group is at most the number of calls before it with the same id; what is to be
  stored is a result of its call. That no id is twice in a minibatch makes the
  backend's answers a permutation that the sort undoes.
* `RedisCounted` says how late in its window a counter was last incremented: from
  the start for the first one, at least a lifetime later for one that replaced a
  lost one. A third counter would begin after two lifetimes, when no command of
  the window is left.
* `WinInv`: the totals are the sums of the buckets; a bucket is older than one
  before it by at most the lag; what the windows hold and what is on its way was
  added. `advance` stops at the first bucket in the window, so what is left
  behind it is too old by the lag at most. `RecentInv` adds that no bucket and no
  addition under way is later than `lastAdd`: a sum of errors above 0 then leaves a
  bucket in the window, and `lastAdd` is at least as late.
* `TpInv` (`Covered`): tokens are taken before they are there, so a bound on what
  was sent is not inductive. What was sent and all that is waited for is covered
  by the tokens taken, and for each time to come, what was sent and what may be
  sent until then by burst and rate. The sums are over the requests in some order.
* For tags and ranges in the rewriter there is no invariant to find: the lemmas say
  what each operator returns for any parameter (`Resolved`), and that an unsigned
  difference that is at most the maximum range is a true difference when both
  ends stay that far below the word size. For `SplicedInPlace` the lemmas say that
  `Positions` lists the positions of a kind in order, and that inserting the
  answers at their positions, the least first, restores the list.
* `StInv`: a server runs only on a configuration that passed all checks, and the
  groups whose pollers are made are those no longer to do. That the fallbacks are
  backends of the group follows from the number of matching pairs.
* `AloneInv`: what the command read of a paused conductor's sequencer is still so.
  `MemberInv`: as long as no election was held since the command began (`Calm`), no
  more of the sequencers before the one at work differ from the configuration
  than calls have failed (`FewBehind`), and those after it are as the leader
  answered.
* `MonInv`: a node took itself for the leader at most as long ago as the state kept of it is old, and a
  state is aged past the expiration only until the tick removes it.
* `PoolInv` adds to `Awaited` that no provider has seen, or is to look at, a
  transaction of its own, so that a count of `SeenBy` below `Expected` leaves a
  provider that has not seen it. `SenderInv` adds types to the property.
* `SignInv`: a request past the choice of an entry has the key of an entry that
  entitles the client to it, and a payload is refused only if no entry fits.
* `CsInv`: inside its transaction a worker has deleted the old results of the jobs
  it inserted, and inserted one for each it has done; a pipeline that was over is
  stored, to be started or being processed. `ConnInv`: the pipelines that hold a
  connection, lost ones included, or have yet to ask for one are at most as many as
  the workers, since a connection is lost only once the context is cancelled and
  no fetch ends well after that.
* `NatInv`: which tests have run is told by the place in the suites; a leaf that
  passed has its transactions among the confirmed; a test past its poll has the
  transaction of the network it is at. `Heights`: no transaction is mined in a
  block above the head, so the difference of two heights that were read does not
  wrap, and what is confirmed stays so as blocks are added.

Induction. A recursive function of the model (`Total`, `Positions`, `Splice`) is
reasoned about with two lemmas of `NumberProofs`: a set of naturals that is not
empty has a least member (from `WellFoundedInduction`), and one that holds 0 and
the successor of each of its members holds all. Each use names a set, so no
theorem with an operator for a parameter is needed; that the recursive function
exists and is what its definition says is proved first, by the same induction.

Checking. `tlapm M.tla` checks the proofs of module `M`; the longest modules take
under ten minutes. A leaf that needs no arithmetic cites `Zenon`: the SMT encoding
grows slower with every obligation of a module, and in modules of this size it
is kept for the leaves that need it.

The refinement proof has one step per action of the round: before publication
nothing of the view changes, `AllAgreed` (or `Propose` at block 0) is the
view's `Resolve`, and the four writes are its four steps.

Only model-checked: the liveness properties `Converges`, `RemoteIsCopied`,
`LockIsHeld`, `ForwardAnswered`, `MulticallEnds`, `PumpsEndTogether`,
`MutuallyConnected` and `PoolDrains`, since TLAPS does not reason about
fairness and `ENABLED`.

## 5. Findings

| run | what the code does | what is said |
| --- | --- | --- |
| `poller_young` | with a forced candidate that has no state yet, the published safe block can be above a member's | `proxyd/README.md:32`: "the lowest `safe` block" |
| `chain_fault` | a candidate whose `fetchBlock` fails counts as agreeing | `consensus_poller.go:465`: "the proposed block needs have the same hash in the entire consensus group" |
| `tracker_stall` | a leader that lost the lock to another instance never stops calling itself leader | `consensus_tracker.go:128-129`: "holds a copy of the remote shared state" |
| `forward_receipts` | `consensus_getReceipts` that is retried, or fails over, is answered without wrapping | `proxyd/README.md:119`: "The selected target is returned in the response, in a wrapped result." |

Other places where the code and what is written about it part, met while
modelling. No run is about them; where a property has to exclude one, its
comment says so.

* `op-nat/network/network.go:112`: a block number whose call failed is used as
  0; the unsigned difference wraps and the transaction counts as confirmed. The
  comment at lines 77-78 says it waits until the transaction "has been confirmed at
  least `confs` times" (`ReportIsTrue` excepts what is in `blind`).
* `op-nat/gate.go`, `suite.go`: a failed suite's result is failed, but the error
  returned is nil unless a test returned one; `Stopped` is inverted in `nat.go`.
* `op-nat/validators/suites/deposit.go`: the suite's parameters leave
  `DepositAmount` 0, so the L2 check compares a balance with itself.
* `cci-stats/pkg/service/service.go:132`: the deferred rollback sees an `err` that the
  inserts shadow. The transaction of a failed insert is not rolled back, its
  connection is not given back, and `Close` waits for it for ever, so that the
  process does not end of itself. No property says that it does.
* `op-conductor-ops.py:398` "Ensure all conductors are paused": a conductor that
  could not be read counts as paused (`StartsAlone`).
* `op-txproxy/cli.go` calls the limit the cost "in a given second"; the burst comes
  on top of it (`CostWithinRate`).
* `golang.org/x/time/rate`, as op-txproxy uses it: `CancelAt` deducts from what it
  gives back what was reserved after the cancelled reservation, told by the
  distance to the last event. The tokens given back let a later reservation be
  due before one that waits already, and the last event is then the earlier one;
  the reservation behind it gets back more than it took when it is cancelled. With
  a rate of 1 and a burst of 3: 3, 3 and 1 are reserved, the second is cancelled, 1
  is reserved, and cancelling the third gives back 2. `CostWithinRate` allows for
  this (`excess`); without it the bound is false for four requests.
* `op-ufm/pkg/provider/tx_pool.go:38` "Once all providers have seen the transaction":
  a provider that answers not found counts as having seen it.
* `proxyd/proxyd.go:78`: the check of the read replica pings the primary.
* `proxyd/proxyd.go:243`: fallbacks are compared by the number of matching pairs, so
  a group that names a backend twice may have an unknown fallback (`ServedAsConfigured`).
* `op-signer/client` calls `eth_signBlockPayload`; the server registers
  `opsigner_signBlockPayload`.

## 6. What is abstracted

* Health. In the poller `IsHealthy` is a Boolean that changes at any time for
  `Flaky` backends; the windows behind it are a module of their own.
* The guard of a fallback's goroutine (`FilterCandidates` over the primaries)
  and the comparison `MayLead` are evaluated in one step. The code evaluates
  them backend by backend and number by number; the result only decides whether
  an interval is skipped.
* A poll's five answers are one input. In `ConsensusChain` they are taken at one
  time; in `ConsensusPoller` any combination in `Reports` can be answered. A chain
  that advances between two answers can have safe above latest on record, and the
  backend banned (`consensus_poller.go:355`).
* What the tracker posts can mix two rounds (`consensus_tracker.go:324`). The model
  has this mixture; no property is about it, since no document excludes it.
* `ConnectPeer` followed by a failing `ProtectPeer` leaves a connected peer without
  protection, and the pair is not tried again (`pms/poll.go:449`).
* An answer to a query never has a number above the one asked for.
* `PollerWrites` merges one or more setters of the tracker into one step.
* A request keeps its copy of the group: a backend that is banned meanwhile, or
  since the last round was published, is still sent requests
  (`proxyd/README.md:49-50` says it "won't receive any traffic during this
  period"). No run is about this window; what bounds it is
  `BannedPublishedAtMostOnce`.
* Degraded backends are tried last by the code; the model tries the copy of the
  group in any order.
* The broken event itself calls listeners, which only tests and the metrics
  register; the model keeps the flag.
* In `BackendForward` a backend's URL is well formed, an answer carries the ID of
  its request, an answer with status 400 has an error object, and
  `consensus_getReceipts` with parameters that parse has at least one. Backends
  are tried in any order. The windows are counted, not evicted. A context that
  is done may still get a free place in the semaphore, or an answer.
* In `Rewriter` one method stands for each place of the block parameter, and a
  panic of the code (`eth_getLogs` without parameters) is a result of its own. An
  explicit `null` passes unrewritten, as in the code.
* In `BatchServer` what a call may be is its kind; a cached entry may be missed at
  any lookup, which covers expiry and eviction; the windows of the limits do not
  end, `RateLimiter` being the model of those.
* In `SlidingWindow` and `RateLimiter` an insertion or a command is late by at most
  a bound; both properties that depend on it say how.
* In `PeerManagement` a health state is its age in ticks, networks are one, and
  `DryRun` is off. In `UserFlowMonitor` the heartbeat's unlocked reads of the shared
  maps see a consistent value, and its dial succeeds (when it fails the code goes on
  with a nil client).
* In `CciStats` every job has one test result; in `Nat` balances count units of gas.
* In `ConductorMonitor` the gauges of expired nodes keep their values, as in the
  code; only leaders are followed.
* `Unban`, `Reset`, `AddListener`, `ClearListeners` and the poller's own shutdown
  are left out: they run in tests, at set-up, or once.

## 7. What is not modelled

* Parsing of configurations and flags, metrics, TLS, logging, the HTTP and RPC
  clients, and the layout of reports: values passed on, counters nothing reads
  back, wrappers of libraries. No property would be about them.
* In proxyd: authentication of paths, request headers, body sizes while reading,
  compression of cached values, degraded backends.
* `op-conductor-ops status` and the other commands that only print; op-signer's
  client command; the release tooling, scripts that compute and push a git tag.
* A chain that moves between the five answers of one poll, and the tracker
  composed with two whole pollers: both are larger than TLC explores here.
  `ConsensusPoller` covers the first by reports of any combination, and
  `ConsensusTracker` the second by local states that change at any time.
