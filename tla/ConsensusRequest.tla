-------------------------- MODULE ConsensusRequest --------------------------
(***************************************************************************)
(* A client request to a consensus-aware backend group of proxyd:          *)
(* BackendGroup.Forward in backend.go with the tag rewriting of            *)
(* rewriter.go.  The request first takes a copy of the consensus group,    *)
(* then reads the three published numbers one by one, then tries the       *)
(* backends of the copy in turn.  The actions constrain only inflight; a   *)
(* module that composes them with a publisher says what else happens.      *)
(***************************************************************************)
EXTENDS Integers

CONSTANTS
  GroupBackends,  \* the backends of the group
  BlockTags,      \* what requests ask for: tags, "number" or "blockNumber"
  Numbers,        \* the block numbers of requests that give a number
  NoBackend       \* no backend has been sent the request

VARIABLES
  tracker,        \* the published numbers, read only
  consensusGroup, \* the published group, read only
  inflight        \* the request being served

NoRequest == [pc |-> "idle", asked |-> "latest", block |-> 0, backends |-> {},
              latest |-> 0, safe |-> 0, target |-> NoBackend]

\* loadBalancedConsensusGroup: those members of a copy of the group of which
\* IsHealthy says so, one after the other, in an order drawn at random.
OrderBackends(asked, number, healthy) ==
  /\ inflight.pc = "idle"
  /\ inflight' = [NoRequest EXCEPT !.pc = "readLatest", !.asked = asked,
                    !.block = IF asked = "number" THEN number ELSE 0,
                    !.backends = consensusGroup \cap healthy]

\* OverwriteConsensusResponses fills its RewriteContext.
ReadLatest ==
  /\ inflight.pc = "readLatest"
  /\ inflight' = [inflight EXCEPT !.pc = "readSafe", !.latest = tracker.latest]

ReadSafe ==
  /\ inflight.pc = "readSafe"
  /\ inflight' = [inflight EXCEPT !.pc = "readFinalized", !.safe = tracker.safe]

\* RewriteTags: the block number in the request that is sent on.
Rewritten(r, finalized) ==
  CASE r.asked = "latest"    -> r.latest
    [] r.asked = "safe"      -> r.safe
    [] r.asked = "finalized" -> finalized
    [] OTHER                 -> r.block

ReadFinalized ==
  /\ inflight.pc = "readFinalized"
  /\ inflight' = [inflight EXCEPT !.pc = "forward",
                                  !.block = Rewritten(inflight, tracker.finalized)]

\* Mutant of SkipsBackends: blocks above latest are sent on.
SkipsForBlockNumber(r) == r.asked = "blockNumber"

\* eth_blockNumber is answered with latest and a block above latest with an
\* error; neither is sent on, but a backend is still needed to answer.
SkipsBackends(r) ==
  r.asked = "blockNumber" \/ (r.asked = "number" /\ r.block > r.latest)

\* ForwardRequestToBackendGroup with nothing to send on, or nobody to send to.
AnswerAtOnce ==
  /\ inflight.pc = "forward"
  /\ SkipsBackends(inflight) \/ inflight.backends = {}
  /\ inflight' = NoRequest

\* The next backend of the copy is sent the request.
SendTo(be) ==
  /\ inflight.pc = "forward"
  /\ ~SkipsBackends(inflight)
  /\ be \in inflight.backends
  /\ inflight' = [inflight EXCEPT !.pc = "sent", !.target = be]

\* It answers, or fails with an error that ends the loop.
Served ==
  /\ inflight.pc = "sent"
  /\ inflight' = NoRequest

\* It is offline, over capacity or fails otherwise: the next one is tried.
Failed ==
  /\ inflight.pc = "sent"
  /\ inflight' = [inflight EXCEPT !.pc = "forward", !.target = NoBackend,
                                  !.backends = @ \ {inflight.target}]

RequestNext ==
  \/ \E asked \in BlockTags, number \in Numbers, healthy \in SUBSET GroupBackends :
       OrderBackends(asked, number, healthy)
  \/ ReadLatest
  \/ ReadSafe
  \/ ReadFinalized
  \/ AnswerAtOnce
  \/ \E be \in GroupBackends : SendTo(be)
  \/ Served
  \/ Failed
=============================================================================
