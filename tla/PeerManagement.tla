--------------------------- MODULE PeerManagement ---------------------------
(***************************************************************************)
(* peer-mgmt-service/pkg/pms: the ticks of one network, which poll its     *)
(* members for their own peer id and their peers and connect, call by      *)
(* call, those that are not connected, while members restart under another *)
(* id, connections drop, peers are blocked and calls fail.                 *)
(***************************************************************************)
EXTENDS Integers, Sequences, FiniteSets

CONSTANTS
  Members,      \* networkConfig.Members, each one configured
  PeerIDs,      \* peer ids, strings other than ""
  NoOutbound,   \* members with PreventOutbound
  NoInbound,    \* members with PreventInbound
  Expiration,   \* NodeStateExpiration, in ticks
  MaxPmFaults   \* bound on restarts, drops, blocks and failed calls

ASSUME PmsAssumption ==
  /\ IsFiniteSet(Members) /\ NoOutbound \subseteq Members /\ NoInbound \subseteq Members
  /\ Expiration \in Nat /\ MaxPmFaults \in Nat

VARIABLES
  phase,          \* where the tick is
  pmTodo,         \* members yet to poll, or pairs yet to resolve
  self,           \* the answer of Self to the member being polled
  nodes,          \* n.state.nodes: id, connected peer ids, age in ticks
  nodesByPeerID,  \* n.state.nodesByPeerID
  healthy,        \* healthyPeers as last reported
  call,           \* the pair connectPeer works on and its next call
  ids, conn, blocked,  \* the members themselves: ids, connections, blocked ids
  pmFaults        \* faults so far

pmVars == <<phase, pmTodo, self, nodes, nodesByPeerID, healthy, call, ids, conn, blocked, pmFaults>>
network == <<ids, conn, blocked, pmFaults>>

NoPeer == ""
NoCall == [node |-> "", peer |-> "", step |-> 0]

PmInit ==
  /\ phase = "off" /\ pmTodo = {} /\ self = NoPeer
  /\ nodes = <<>> /\ nodesByPeerID = <<>>
  /\ healthy = 0 /\ call = NoCall
  /\ ids = [m \in Members |-> NoPeer] /\ conn = {} /\ blocked = {} /\ pmFaults = 0

\* Service.Start, with the members running under distinct ids.
StartNetwork ==
  /\ phase = "off"
  /\ phase' = "tick"
  /\ ids' \in {f \in [Members -> PeerIDs] : \A a, b \in Members : f[a] = f[b] => a = b}
  /\ UNCHANGED <<pmTodo, self, nodes, nodesByPeerID, healthy, call, conn, blocked, pmFaults>>

Without(f, S) == [x \in (DOMAIN f) \ S |-> f[x]]
With(f, x, v) == [y \in DOMAIN f \union {x} |-> IF y = x THEN v ELSE f[y]]

-----------------------------------------------------------------------------
(* The environment. *)

Fault == phase # "off" /\ pmFaults < MaxPmFaults /\ pmFaults' = pmFaults + 1

\* A member restarts under an id that no other has; it has no connections.
Restart(m, id) ==
  /\ Fault /\ \A n \in Members : ids[n] # id
  /\ ids' = [ids EXCEPT ![m] = id]
  /\ conn' = {c \in conn : m \notin c}
  /\ UNCHANGED <<phase, pmTodo, self, nodes, nodesByPeerID, healthy, call, blocked>>

Drop(c) ==
  /\ Fault /\ c \in conn
  /\ conn' = conn \ {c}
  /\ UNCHANGED <<phase, pmTodo, self, nodes, nodesByPeerID, healthy, call, ids, blocked>>

\* m blocks the id of n, and their connection goes.
Block(m, n) ==
  /\ Fault /\ m # n
  /\ blocked' = blocked \union {<<m, ids[n]>>}
  /\ conn' = conn \ {{m, n}}
  /\ UNCHANGED <<phase, pmTodo, self, nodes, nodesByPeerID, healthy, call, ids>>

-----------------------------------------------------------------------------
(* Tick. *)

\* cleanup, then the first poll.  The age of a state is what a tick adds to it.
cleanup ==
  LET old == {n \in DOMAIN nodes : nodes[n].age > Expiration}
  IN /\ phase = "tick"
     /\ nodes' = Without(nodes, old)
     /\ nodesByPeerID' = Without(nodesByPeerID, {nodes[n].id : n \in old})
     /\ phase' = "poll" /\ pmTodo' = Members
     /\ UNCHANGED <<self, healthy, call, network>>

\* pollNode, the call of Self.
pollSelf(n) ==
  /\ phase = "poll" /\ n \in pmTodo
  /\ phase' = "peers" /\ pmTodo' = (pmTodo \ {n}) /\ self' = ids[n]
  /\ call' = [NoCall EXCEPT !.node = n]
  /\ UNCHANGED <<nodes, nodesByPeerID, healthy, network>>

\* What Peers lists as connected: peers by id, and the node itself.
PeersOf(n) == {ids[n]} \union {ids[m] : m \in {x \in Members \ {n} : {n, x} \in conn}}

\* Mutant of pollNode: the name of the old id stays.
pollNodeKeepsOld ==
  LET n == call.node
  IN /\ phase = "peers"
     /\ nodes' = With(nodes, n, [id |-> self, peers |-> PeersOf(n), age |-> 0])
     /\ nodesByPeerID' = With(nodesByPeerID, self, n)
     /\ phase' = "poll" /\ call' = NoCall /\ self' = NoPeer
     /\ UNCHANGED <<pmTodo, healthy, network>>

\* pollNode, the call of Peers: both answered, and the state is replaced.
pollNode ==
  LET n == call.node
      old == IF n \in DOMAIN nodes /\ nodes[n].id # self THEN {nodes[n].id} ELSE {}
  IN /\ phase = "peers"
     /\ nodes' = With(nodes, n, [id |-> self, peers |-> PeersOf(n), age |-> 0])
     /\ nodesByPeerID' = With(Without(nodesByPeerID, old), self, n)
     /\ phase' = "poll" /\ call' = NoCall /\ self' = NoPeer
     /\ UNCHANGED <<pmTodo, healthy, network>>

\* Self or Peers fails, and the state of the node stays as it is.
pollFails ==
  /\ phase \in {"poll", "peers"} /\ Fault
  /\ IF phase = "peers" THEN UNCHANGED pmTodo ELSE \E n \in pmTodo : pmTodo' = pmTodo \ {n}
  /\ phase' = "poll" /\ call' = NoCall /\ self' = NoPeer
  /\ UNCHANGED <<nodes, nodesByPeerID, healthy, ids, conn, blocked>>

\* The healthy peers of updateGraph and reportMetrics.
knownPeers(n) == (nodes[n].peers \ {nodes[n].id}) \intersect DOMAIN nodesByPeerID

\* updateGraph, reportMetrics, and the pairs that resolveState finds apart.
\* The state of the network does not change until the next tick.
reportMetrics ==
  /\ phase = "poll" /\ pmTodo = {}
  /\ healthy' = Cardinality(UNION {{n} \X knownPeers(n) : n \in DOMAIN nodes})
  /\ pmTodo' = {p \in (DOMAIN nodes) \X Members :
                  /\ p[1] # p[2]
                  /\ \A i \in nodes[p[1]].peers \intersect DOMAIN nodesByPeerID : nodesByPeerID[i] # p[2]}
  /\ phase' = "resolve"
  /\ UNCHANGED <<self, nodes, nodesByPeerID, call, network>>

mayConnect(n, p) == n \notin NoOutbound /\ p \notin NoInbound

\* connectPeer: its early returns, or its first call.
connectPeer(n, p) ==
  /\ phase = "resolve" /\ <<n, p>> \in pmTodo /\ call = NoCall
  /\ pmTodo' = pmTodo \ {<<n, p>>}
  /\ call' = IF p \in DOMAIN nodes /\ mayConnect(n, p)
               THEN [node |-> n, peer |-> p, step |-> 1] ELSE NoCall
  /\ UNCHANGED <<phase, self, nodes, nodesByPeerID, healthy, network>>

Calls == <<"UnprotectPeer", "UnprotectPeer (reverse)", "UnblockPeer", "UnblockPeer (reverse)",
           "DisconnectPeer", "DisconnectPeer (reverse)", "ConnectPeer", "ProtectPeer">>

\* The connection of a with the member whose id is i.
Link(a, i) == {{a, m} : m \in {x \in Members \ {a} : ids[x] = i}}

\* Mutant of Calling: the peer is not asked to unblock the node.
CallingOneSided(op) ==
  LET n == call.node  p == call.peer  np == nodes[n].id  pp == nodes[p].id
  IN /\ blocked' = CASE op = "UnblockPeer" -> blocked \ {<<n, pp>>} [] OTHER -> blocked
     /\ conn' = CASE op = "DisconnectPeer" -> conn \ Link(n, pp)
                  [] op = "DisconnectPeer (reverse)" -> conn \ Link(p, np)
                  [] op = "ConnectPeer" -> conn \union Link(n, pp)
                  [] OTHER -> conn
     /\ op = "ConnectPeer" => Link(n, pp) # {} /\ {<<n, pp>>, <<p, ids[n]>>} \intersect blocked = {}

\* What a call does to the members when it succeeds.  Protection, which has
\* no effect on these connections, is left out.
Calling(op) ==
  LET n == call.node  p == call.peer  np == nodes[n].id  pp == nodes[p].id
  IN /\ blocked' = CASE op = "UnblockPeer" -> blocked \ {<<n, pp>>}
                     [] op = "UnblockPeer (reverse)" -> blocked \ {<<p, np>>}
                     [] OTHER -> blocked
     /\ conn' = CASE op = "DisconnectPeer" -> conn \ Link(n, pp)
                  [] op = "DisconnectPeer (reverse)" -> conn \ Link(p, np)
                  [] op = "ConnectPeer" -> conn \union Link(n, pp)
                  [] OTHER -> conn
     /\ op = "ConnectPeer" => Link(n, pp) # {} /\ {<<n, pp>>, <<p, ids[n]>>} \intersect blocked = {}

CallPeer ==
  /\ call.step > 0
  /\ Calling(Calls[call.step])
  /\ call' = IF call.step = Len(Calls) THEN NoCall ELSE [call EXCEPT !.step = @ + 1]
  /\ UNCHANGED <<phase, pmTodo, self, nodes, nodesByPeerID, healthy, ids, pmFaults>>

\* A call fails, by itself or because the peer is blocked or has another id:
\* connectPeer returns.
CallFails ==
  /\ call.step > 0
  /\ \/ Fault
     \/ /\ Calls[call.step] = "ConnectPeer" /\ UNCHANGED pmFaults
        /\ LET pp == nodes[call.peer].id
           IN \/ Link(call.node, pp) = {}
              \/ {<<call.node, pp>>, <<call.peer, ids[call.node]>>} \intersect blocked # {}
  /\ call' = NoCall
  /\ UNCHANGED <<phase, pmTodo, self, nodes, nodesByPeerID, healthy, ids, conn, blocked>>

\* The tick is over; the states age.
TickDone ==
  /\ phase = "resolve" /\ pmTodo = {} /\ call = NoCall
  /\ phase' = "tick"
  /\ nodes' = [n \in DOMAIN nodes |->
                 [nodes[n] EXCEPT !.age = IF @ > Expiration THEN @ ELSE @ + 1]]
  /\ UNCHANGED <<pmTodo, self, nodesByPeerID, healthy, call, network>>

PmStep ==
  \/ StartNetwork \/ cleanup \/ (\E n \in Members : pollSelf(n)) \/ pollNode
  \/ reportMetrics \/ (\E n, p \in Members : connectPeer(n, p))
  \/ CallPeer \/ CallFails \/ TickDone

PmNext ==
  \/ PmStep \/ pollFails
  \/ \E m \in Members, id \in PeerIDs : Restart(m, id)
  \/ \E m, n \in Members : Drop({m, n}) \/ Block(m, n)

PmSpec == PmInit /\ [][PmNext]_pmVars

\* schedule runs Tick over and over, and every call returns (RPCTimeout).
PmFairSpec == PmSpec /\ WF_pmVars(PmStep)

-----------------------------------------------------------------------------
(* Properties. *)

\* nodesByPeerID never gives the name of a node for an id that is not the one
\* last polled from it, whatever ids move between members.  (The converse fails:
\* when two members exchange ids, the id that moved first is forgotten until it
\* is polled again.)
NamesFollowIds ==
  \A i \in DOMAIN nodesByPeerID :
    nodesByPeerID[i] \in DOMAIN nodes /\ nodes[nodesByPeerID[i]].id = i

\* Members one of which may connect to the other end up connected for good,
\* once faults cease, although both sides tear the connection down first.
MutuallyConnected ==
  phase # "off" ~> [](\A a, b \in Members : a # b /\ mayConnect(a, b) => {a, b} \in conn)
=============================================================================
