--------------------------- MODULE ServicesProofs ---------------------------
(***************************************************************************)
(* The smaller services, for every size: the peer management service, op-  *)
(* ufm, op-signer, cci-stats and op-nat.                                   *)
(***************************************************************************)
EXTENDS PeerManagement, UserFlowMonitor, Signer, CciStats, Nat, FiniteSetTheorems, NumberProofs, TLAPS

-----------------------------------------------------------------------------
(***************************************************************************)
(* That nodesByPeerID follows the ids last polled, for every network.  Two *)
(* names for one id cannot be told from the map alone: each step that      *)
(* takes a state out of nodes, or gives it another id, also takes out the  *)
(* name under the id it had.                                               *)
(***************************************************************************)

\* Every state has an id, which its ageing keeps.
StatesHaveIds == \A n \in DOMAIN nodes : "id" \in DOMAIN nodes[n]

NamesInv == NamesFollowIds /\ StatesHaveIds

\* The steps that leave the two maps of the state alone.
LEMMA NamesUnchanged ==
  ASSUME NamesInv, UNCHANGED <<nodes, nodesByPeerID>>
  PROVE NamesInv'
BY Zenon DEF NamesInv, NamesFollowIds, StatesHaveIds

\* cleanup takes the name of every state it takes out.
LEMMA NamesCleanup ==
  ASSUME NamesInv, cleanup
  PROVE NamesInv'
<1> DEFINE old == {n \in DOMAIN nodes : nodes[n].age > Expiration}
           gone == {nodes[n].id : n \in old}
<1>1. nodes' = [x \in (DOMAIN nodes) \ old |-> nodes[x]]
  BY Zenon DEF cleanup, Without
<1>2. nodesByPeerID' = [i \in (DOMAIN nodesByPeerID) \ gone |-> nodesByPeerID[i]]
  BY Zenon DEF cleanup, Without
<1>3. ASSUME NEW i \in DOMAIN nodesByPeerID'
      PROVE nodesByPeerID'[i] \in DOMAIN nodes' /\ nodes'[nodesByPeerID'[i]].id = i
  <2>1. i \in DOMAIN nodesByPeerID /\ i \notin gone /\ nodesByPeerID'[i] = nodesByPeerID[i]
    BY <1>2, <1>3, Zenon
  <2>2. nodesByPeerID[i] \in DOMAIN nodes /\ nodes[nodesByPeerID[i]].id = i
    BY <2>1, Zenon DEF NamesInv, NamesFollowIds
  <2>3. nodesByPeerID[i] \notin old
    BY <2>1, <2>2, Zenon
  <2> QED
    BY <1>1, <2>1, <2>2, <2>3, Zenon
<1>4. StatesHaveIds'
  BY <1>1, Zenon DEF NamesInv, StatesHaveIds
<1> QED
  BY <1>3, <1>4, Zenon DEF NamesInv, NamesFollowIds

\* A poll that answers with another id takes the name under the old one.
LEMMA NamesPolled ==
  ASSUME NamesInv, pollNode
  PROVE NamesInv'
<1> DEFINE n == call.node
           state == [id |-> self, peers |-> PeersOf(n), age |-> 0]
           old == IF n \in DOMAIN nodes /\ nodes[n].id # self THEN {nodes[n].id} ELSE {}
           kept == (DOMAIN nodesByPeerID) \ old
<1>1. nodes' = [y \in DOMAIN nodes \union {n} |-> IF y = n THEN state ELSE nodes[y]]
  BY Zenon DEF pollNode, With
<1>2. nodesByPeerID' = [i \in kept \union {self} |-> IF i = self THEN n ELSE nodesByPeerID[i]]
  BY Zenon DEF pollNode, With, Without
<1>3. ASSUME NEW i \in DOMAIN nodesByPeerID'
      PROVE nodesByPeerID'[i] \in DOMAIN nodes' /\ nodes'[nodesByPeerID'[i]].id = i
  <2>1. CASE i = self
    BY <1>1, <1>2, <2>1, Zenon
  <2>2. CASE i # self
    <3>1. i \in kept /\ nodesByPeerID'[i] = nodesByPeerID[i]
      BY <1>2, <1>3, <2>2, Zenon
    <3>2. nodesByPeerID[i] \in DOMAIN nodes /\ nodes[nodesByPeerID[i]].id = i
      BY <3>1, Zenon DEF NamesInv, NamesFollowIds
    <3>3. nodesByPeerID[i] # n
      BY <2>2, <3>1, <3>2, Zenon
    <3> QED
      BY <1>1, <3>1, <3>2, <3>3, Zenon
  <2> QED
    BY <2>1, <2>2, Zenon
<1>4. StatesHaveIds'
  BY <1>1, Zenon DEF NamesInv, StatesHaveIds
<1> QED
  BY <1>3, <1>4, Zenon DEF NamesInv, NamesFollowIds

\* The ageing of the states changes no id.
LEMMA NamesAged ==
  ASSUME NamesInv, TickDone
  PROVE NamesInv'
<1>1. /\ DOMAIN nodes' = DOMAIN nodes
      /\ \A n \in DOMAIN nodes : nodes'[n].id = nodes[n].id
  BY Zenon DEF TickDone, NamesInv, StatesHaveIds
<1>2. StatesHaveIds'
  BY Zenon DEF TickDone, NamesInv, StatesHaveIds
<1> QED
  BY <1>1, <1>2 DEF TickDone, NamesInv, NamesFollowIds

\* Whatever ids move between members, whatever fails and whatever expires, a
\* name in nodesByPeerID is that of a node with a state, whose last polled id
\* it is filed under (pollNode, cleanup and their order in a tick).
THEOREM NamesFollow == PmSpec => []NamesFollowIds
<1>1. PmInit => NamesInv
  BY DEF PmInit, NamesInv, NamesFollowIds, StatesHaveIds
<1>2. NamesInv /\ [PmNext]_pmVars => NamesInv'
  <2> SUFFICES ASSUME NamesInv, [PmNext]_pmVars PROVE NamesInv'
    BY Zenon
  <2>1. CASE cleanup
    BY <2>1, NamesCleanup, Zenon
  <2>2. CASE pollNode
    BY <2>2, NamesPolled, Zenon
  <2>3. CASE TickDone
    BY <2>3, NamesAged, Zenon
  <2>4. CASE StartNetwork \/ reportMetrics \/ CallPeer \/ CallFails \/ pollFails
    BY <2>4, NamesUnchanged, Zenon DEF StartNetwork, reportMetrics, CallPeer, CallFails, pollFails, network
  <2>5. CASE \E n \in Members : pollSelf(n)
    BY <2>5, NamesUnchanged, Zenon DEF pollSelf, network
  <2>6. CASE \E n, p \in Members : connectPeer(n, p)
    BY <2>6, NamesUnchanged, Zenon DEF connectPeer, network
  <2>7. CASE \E m \in Members, id \in PeerIDs : Restart(m, id)
    BY <2>7, NamesUnchanged, Zenon DEF Restart
  <2>8. CASE \E m, n \in Members : Drop({m, n}) \/ Block(m, n)
    BY <2>8, NamesUnchanged, Zenon DEF Drop, Block
  <2>9. CASE UNCHANGED pmVars
    BY <2>9, NamesUnchanged, Zenon DEF pmVars
  <2> QED
    BY <2>1, <2>2, <2>3, <2>4, <2>5, <2>6, <2>7, <2>8, <2>9, Zenon DEF PmNext, PmStep
<1> QED
  BY <1>1, <1>2, PTL DEF PmSpec, NamesInv

-----------------------------------------------------------------------------
(***************************************************************************)
(* UserFlowMonitor: a transaction leaves the pool when a count is met.     *)
(* What a count says of the providers follows from that no provider is     *)
(* counted for a transaction of its own.                                   *)
(***************************************************************************)

SenderPcs == {"idle", "cooldown", "send", "add", "receipt"}

\* The senders and the holder of ExclusiveSend.
SenderInv ==
  /\ DOMAIN sender = Providers
  /\ \A p \in Providers : DOMAIN sender[p] = {"pc", "nonce", "elapsed"}
  /\ exclusive \in Providers \cup {""}
  /\ SendIsExclusive

\* The pool and the heartbeats: no provider is to look at, or has seen, a
\* transaction of its own.
PoolInv ==
  /\ transactions \subseteq DOMAIN seenBy
  /\ \A t \in DOMAIN seenBy : t.source \in Providers /\ seenBy[t] \subseteq Providers \ {t.source}
  /\ DOMAIN beat = Providers
  /\ \A p \in Providers : DOMAIN beat[p] = {"todo", "marked"}
  /\ \A p \in Providers : \A t \in beat[p].todo : t \in DOMAIN seenBy /\ t.source # p

\* A step that moves one sender.
LEMMA SenderMoves ==
  ASSUME SenderInv, NEW p \in Providers, DOMAIN sender' = Providers,
         DOMAIN sender'[p] = {"pc", "nonce", "elapsed"}, \A q \in Providers : q # p => sender'[q] = sender[q],
         \/ sender[p].pc # "idle" /\ sender'[p].pc # "idle" /\ exclusive' = exclusive
         \/ sender[p].pc # "idle" /\ sender'[p].pc = "idle" /\ exclusive' = ""
         \/ exclusive = "" /\ sender'[p].pc # "idle" /\ exclusive' = p
  PROVE SenderInv'
<1>1. \A q \in Providers : DOMAIN sender'[q] = {"pc", "nonce", "elapsed"}
  BY Zenon DEF SenderInv
<1>2. \A q \in Providers : q # "" /\ (sender[q].pc # "idle" <=> exclusive = q)
  BY UfmAssumption, Zenon DEF SenderInv, SendIsExclusive
<1>3. exclusive' \in Providers \cup {""}
  BY Zenon DEF SenderInv
<1>4. ASSUME NEW q \in Providers PROVE sender'[q].pc # "idle" <=> exclusive' = q
  <2>1. CASE q = p
    BY <1>2, <2>1, Zenon
  <2>2. CASE q # p
    <3>1. sender'[q].pc # "idle" <=> exclusive = q
      BY <1>2, <2>2, Zenon
    <3>2. q # "" /\ (sender[p].pc # "idle" => exclusive = p)
      BY <1>2, Zenon
    <3> QED
      BY <2>2, <3>1, <3>2, Zenon
  <2> QED
    BY <2>1, <2>2, Zenon
<1> QED
  BY <1>1, <1>3, <1>4, Zenon DEF SenderInv, SendIsExclusive

\* RoundTrip returns.
LEMMA SenderReturns ==
  ASSUME SenderInv, NEW p \in Providers, sender[p].pc # "idle", Return(p)
  PROVE SenderInv'
<1>1. DOMAIN Idle = {"pc", "nonce", "elapsed"} /\ Idle.pc = "idle"
  BY Zenon DEF Idle
<1>2. exclusive' = "" /\ DOMAIN sender' = Providers /\ sender'[p] = Idle
      /\ \A q \in Providers : q # p => sender'[q] = sender[q]
  BY Zenon DEF Return, SenderInv
<1> QED
  BY <1>1, <1>2, SenderMoves, Zenon

\* The steps of RoundTrip and of time keep it; Heartbeat and the chain do not
\* touch it.
LEMMA SendStep ==
  ASSUME SenderInv, UfNext
  PROVE SenderInv'
<1>0. DOMAIN sender = Providers /\ \A p \in Providers : DOMAIN sender[p] = {"pc", "nonce", "elapsed"}
  BY Zenon DEF SenderInv
<1>1. ASSUME NEW p \in Providers, RoundTrip(p) PROVE SenderInv'
  <2>1. /\ exclusive = "" /\ exclusive' = p /\ DOMAIN sender' = Providers
        /\ DOMAIN sender'[p] = {"pc", "nonce", "elapsed"} /\ sender'[p].pc = "cooldown"
        /\ \A q \in Providers : q # p => sender'[q] = sender[q]
    BY <1>0, <1>1, Zenon DEF RoundTrip
  <2> QED
    BY <2>1, SenderMoves, Zenon
<1>2. ASSUME NEW p \in Providers, createTx(p) PROVE SenderInv'
  <2>1. sender[p].pc # "idle"
    BY <1>2, Zenon DEF createTx
  <2>2. CASE Return(p)
    BY <2>1, <2>2, SenderReturns, Zenon
  <2>3. CASE UNCHANGED exclusive /\ ~Return(p)
    <3>1. /\ DOMAIN sender' = Providers /\ DOMAIN sender'[p] = {"pc", "nonce", "elapsed"} /\ sender'[p].pc = "send"
          /\ \A q \in Providers : q # p => sender'[q] = sender[q]
      BY <1>0, <1>2, <2>3, Zenon DEF createTx
    <3> QED
      BY <2>1, <2>3, <3>1, SenderMoves, Zenon
  <2> QED
    BY <1>2, <2>2, <2>3, Zenon DEF createTx
<1>3. ASSUME NEW p \in Providers, SendTransaction(p) PROVE SenderInv'
  <2>1. sender[p].pc # "idle"
    BY <1>3, Zenon DEF SendTransaction
  <2>2. CASE Return(p)
    BY <2>1, <2>2, SenderReturns, Zenon
  <2>3. CASE ~Return(p)
    <3>1. /\ UNCHANGED exclusive
          /\ \/ sender' = [sender EXCEPT ![p].pc = "add"]
             \/ sender' = [sender EXCEPT ![p].pc = "cooldown", ![p].nonce = @ + 1]
      BY <1>3, <2>3, Zenon DEF SendTransaction
    <3>2. /\ DOMAIN sender' = Providers /\ DOMAIN sender'[p] = {"pc", "nonce", "elapsed"}
          /\ sender'[p].pc \in {"add", "cooldown"} /\ \A q \in Providers : q # p => sender'[q] = sender[q]
      BY <1>0, <3>1, Zenon
    <3> QED
      BY <2>1, <3>1, <3>2, SenderMoves, Zenon
  <2> QED
    BY <2>2, <2>3, Zenon
<1>4. ASSUME NEW p \in Providers, AddTransaction(p) PROVE SenderInv'
  <2>1. /\ sender[p].pc # "idle" /\ UNCHANGED exclusive
        /\ DOMAIN sender' = Providers /\ DOMAIN sender'[p] = {"pc", "nonce", "elapsed"} /\ sender'[p].pc = "receipt"
        /\ \A q \in Providers : q # p => sender'[q] = sender[q]
    BY <1>0, <1>4, Zenon DEF AddTransaction
  <2> QED
    BY <2>1, SenderMoves, Zenon
<1>5. ASSUME NEW p \in Providers, TransactionReceipt(p) PROVE SenderInv'
  <2>1. sender[p].pc # "idle" /\ Return(p)
    BY <1>5, Zenon DEF TransactionReceipt
  <2> QED
    BY <2>1, SenderReturns, Zenon
<1>6. ASSUME UNCHANGED <<sender, exclusive>> PROVE SenderInv'
  BY <1>6, Zenon DEF SenderInv, SendIsExclusive
<1>7. ASSUME UfTick PROVE SenderInv'
  <2>1. UNCHANGED exclusive /\ DOMAIN sender' = Providers
    BY <1>7, Zenon DEF UfTick
  <2>2. ASSUME NEW p \in Providers
        PROVE DOMAIN sender'[p] = {"pc", "nonce", "elapsed"} /\ sender'[p].pc = sender[p].pc
    <3>1. \E e : sender'[p] = [sender[p] EXCEPT !.elapsed = e] \/ sender'[p] = sender[p]
      <4>1. sender'[p] = CASE sender[p].pc \in {"cooldown", "send"} -> [sender[p] EXCEPT !.elapsed = Up(@, RetryTimeout)]
                           [] sender[p].pc = "receipt" -> [sender[p] EXCEPT !.elapsed = Up(@, ReceiptTimeout)]
                           [] OTHER -> sender[p]
        BY <1>7, Zenon DEF UfTick
      <4> QED
        BY <4>1, Zenon
    <3> QED
      BY <1>0, <3>1, Zenon
  <2> QED
    BY <2>1, <2>2, Zenon DEF SenderInv, SendIsExclusive
<1>8. ASSUME NEW p \in Providers, Beating(p) PROVE UNCHANGED <<sender, exclusive>>
  BY <1>8, Zenon DEF Beating, Heartbeat, TransactionByHash, RemoveSeen, rest
<1>9. ASSUME NEW p \in Providers, NEW t \in sent, Propagate(p, t) PROVE UNCHANGED <<sender, exclusive>>
  BY <1>9, Zenon DEF Propagate
<1> QED
  BY <1>1, <1>2, <1>3, <1>4, <1>5, <1>6, <1>7, <1>8, <1>9, Zenon DEF UfNext, UfStep, Sending

\* In RoundTrip of op-ufm at most one provider is past its lock, and none keeps
\* the lock when RoundTrip has returned, for any providers, timeouts and failures.
THEOREM SendExclusive == UfSpec => []SendIsExclusive
<1>1. UfInit => SenderInv
  <2> SUFFICES ASSUME UfInit PROVE SenderInv
    BY Zenon
  <2>1. DOMAIN sender = Providers /\ exclusive = "" /\ \A p \in Providers : sender[p] = Idle /\ p # ""
    BY UfmAssumption, Zenon DEF UfInit
  <2>2. DOMAIN Idle = {"pc", "nonce", "elapsed"} /\ Idle.pc = "idle"
    BY Zenon DEF Idle
  <2> QED
    BY <2>1, <2>2, Zenon DEF SenderInv, SendIsExclusive
<1>2. SenderInv /\ [UfNext]_ufVars => SenderInv'
  <2>1. SenderInv /\ UfNext => SenderInv'
    BY SendStep, Zenon
  <2>2. SenderInv /\ UNCHANGED ufVars => SenderInv'
    BY Zenon DEF SenderInv, SendIsExclusive, ufVars
  <2> QED
    BY <2>1, <2>2, Zenon
<1>3. SenderInv => SendIsExclusive
  BY Zenon DEF SenderInv
<1> QED
  BY <1>1, <1>2, <1>3, PTL DEF UfSpec

\* A provider that has not seen a transaction of another is to look at it; a count
\* of seers that is not Expected leaves such a provider.
LEMMA SeenOrExpected ==
  ASSUME PoolInv, NEW t \in transactions, Cardinality(seenBy[t]) # Expected
  PROVE \E q \in Providers : t \in expectedTransactions(q)
<1>1. t.source \in Providers /\ seenBy[t] \subseteq Providers \ {t.source}
  BY Zenon DEF PoolInv
<1>2. IsFiniteSet(Providers)
  BY UfmAssumption, Zenon
<1>3. Cardinality(Providers \ {t.source}) = Expected
  BY <1>1, <1>2, FS_RemoveElement, Zenon DEF Expected
<1>4. seenBy[t] # Providers \ {t.source}
  BY <1>3, Zenon
<1>5. PICK q \in Providers \ {t.source} : q \notin seenBy[t]
  BY <1>1, <1>4, Zenon
<1> QED
  BY <1>5, Zenon DEF expectedTransactions

\* The pool grows by a transaction nobody has seen.
LEMMA AddedAwaited ==
  ASSUME SeveralProviders, PoolInv, Awaited, NEW p \in Providers, AddTransaction(p)
  PROVE PoolInv' /\ Awaited'
<1> DEFINE t == [nonce |-> sender[p].nonce, source |-> p]
<1>1. /\ transactions' = transactions \union {t} /\ UNCHANGED beat /\ t.source = p
      /\ seenBy' = [u \in DOMAIN seenBy \union {t} |-> IF u = t THEN {} ELSE seenBy[u]]
  BY Zenon DEF AddTransaction
<1> HIDE DEF t
<1>2. /\ DOMAIN seenBy' = DOMAIN seenBy \union {t} /\ seenBy'[t] = {}
      /\ \A u \in DOMAIN seenBy : u # t => seenBy'[u] = seenBy[u]
  BY <1>1, Zenon
<1>3. PoolInv'
  <2>1. \A u \in DOMAIN seenBy' : u.source \in Providers /\ seenBy'[u] \subseteq Providers \ {u.source}
    BY <1>1, <1>2, Zenon DEF PoolInv
  <2> QED
    BY <1>1, <1>2, <2>1, Zenon DEF PoolInv
<1>4. ASSUME NEW u \in transactions'
      PROVE \/ \E q \in Providers : u \in expectedTransactions(q)'
            \/ \E q \in Providers : beat'[q].marked = u
  <2>1. CASE u = t
    <3>1. PICK q \in Providers : q # p
      BY Zenon DEF SeveralProviders
    <3> QED
      BY <1>1, <1>2, <2>1, <3>1, Zenon DEF expectedTransactions
  <2>2. CASE u # t
    <3>1. u \in transactions /\ seenBy'[u] = seenBy[u]
      BY <1>1, <1>2, <2>2, Zenon DEF PoolInv
    <3>2. \A q \in Providers : u \in expectedTransactions(q) => u \in expectedTransactions(q)'
      BY <1>4, <3>1, Zenon DEF expectedTransactions
    <3> QED
      BY <1>1, <3>1, <3>2, Zenon DEF Awaited
  <2> QED
    BY <2>1, <2>2, Zenon
<1> QED
  BY <1>3, <1>4, Zenon DEF Awaited

\* Heartbeat looks at a transaction and marks it.
LEMMA MarkedAwaited ==
  ASSUME PoolInv, Awaited, NEW p \in Providers, NEW t \in TxIds, TransactionByHash(p, t)
  PROVE PoolInv' /\ Awaited'
<1>1. beat[p].marked = NoTx /\ t \in beat[p].todo /\ UNCHANGED transactions
  BY Zenon DEF TransactionByHash
<1>2. t \in DOMAIN seenBy /\ t.source # p /\ t.source \in Providers
  BY <1>1, Zenon DEF PoolInv
<1>3. \A u \in transactions : u # NoTx
  <2>1. \A u \in transactions : u.source \in Providers
    BY Zenon DEF PoolInv
  <2>2. NoTx.source \notin Providers
    BY UfmAssumption, Zenon DEF NoTx
  <2> QED
    BY <2>1, <2>2, Zenon
<1>4. CASE seenBy' = [seenBy EXCEPT ![t] = @ \union {p}] /\ beat' = [beat EXCEPT ![p] = [todo |-> @.todo \ {t}, marked |-> t]]
  <2>1. /\ DOMAIN seenBy' = DOMAIN seenBy /\ seenBy'[t] = seenBy[t] \union {p}
        /\ \A u \in DOMAIN seenBy : u # t => seenBy'[u] = seenBy[u]
    BY <1>2, <1>4, Zenon
  <2>2. /\ DOMAIN beat' = Providers /\ DOMAIN beat'[p] = {"todo", "marked"}
        /\ beat'[p].marked = t /\ beat'[p].todo = beat[p].todo \ {t}
        /\ \A q \in Providers : q # p => beat'[q] = beat[q]
    BY <1>4, Zenon DEF PoolInv
  <2>3. PoolInv'
    <3>1. \A u \in DOMAIN seenBy' : u.source \in Providers /\ seenBy'[u] \subseteq Providers \ {u.source}
      BY <1>2, <2>1, Zenon DEF PoolInv
    <3>2. \A q \in Providers : DOMAIN beat'[q] = {"todo", "marked"}
      BY <2>2, Zenon DEF PoolInv
    <3>3. \A q \in Providers : \A u \in beat'[q].todo : u \in DOMAIN seenBy' /\ u.source # q
      BY <2>1, <2>2, Zenon DEF PoolInv
    <3> QED
      BY <1>1, <2>1, <2>2, <3>1, <3>2, <3>3, Zenon DEF PoolInv
  <2>4. ASSUME NEW u \in transactions'
        PROVE \/ \E q \in Providers : u \in expectedTransactions(q)'
              \/ \E q \in Providers : beat'[q].marked = u
    <3>1. CASE u = t
      BY <2>2, <3>1, Zenon
    <3>2. CASE u # t
      <4>1. u \in transactions /\ seenBy'[u] = seenBy[u]
        BY <1>1, <2>1, <3>2, Zenon DEF PoolInv
      <4>2. \A q \in Providers : u \in expectedTransactions(q) => u \in expectedTransactions(q)'
        BY <2>4, <4>1, Zenon DEF expectedTransactions
      <4>3. \A q \in Providers : beat[q].marked = u => beat'[q].marked = u
        BY <1>1, <1>3, <2>2, <4>1, Zenon
      <4> QED
        BY <4>1, <4>2, <4>3, Zenon DEF Awaited
    <3> QED
      BY <3>1, <3>2, Zenon
  <2> QED
    BY <2>3, <2>4, Zenon DEF Awaited
<1>5. CASE UNCHANGED seenBy /\ beat' = [beat EXCEPT ![p].todo = @ \ {t}]
  <2>1. /\ DOMAIN beat' = Providers /\ DOMAIN beat'[p] = {"todo", "marked"}
        /\ beat'[p].marked = beat[p].marked /\ beat'[p].todo = beat[p].todo \ {t}
        /\ \A q \in Providers : q # p => beat'[q] = beat[q]
    BY <1>5, Zenon DEF PoolInv
  <2>2. \A q \in Providers : /\ DOMAIN beat'[q] = {"todo", "marked"} /\ beat'[q].marked = beat[q].marked
                             /\ beat'[q].todo \subseteq beat[q].todo
    BY <2>1, Zenon DEF PoolInv
  <2>3. PoolInv'
    BY <1>1, <1>5, <2>1, <2>2, Zenon DEF PoolInv
  <2>4. Awaited'
    BY <1>1, <1>5, <2>2, Zenon DEF Awaited, expectedTransactions
  <2> QED
    BY <2>3, <2>4, Zenon
<1> QED
  BY <1>4, <1>5, Zenon DEF TransactionByHash

\* Heartbeat compares what it marked with Expected.
LEMMA RemovedAwaited ==
  ASSUME PoolInv, Awaited, NEW p \in Providers, RemoveSeen(p)
  PROVE PoolInv' /\ Awaited'
<1> DEFINE t == beat[p].marked
<1>1. /\ transactions' = IF Cardinality(seenBy[t]) = Expected THEN transactions \ {t} ELSE transactions
      /\ UNCHANGED seenBy
  BY Zenon DEF RemoveSeen, rest
<1>2. \A q \in Providers : /\ DOMAIN beat' = Providers /\ DOMAIN beat'[q] = {"todo", "marked"}
                           /\ beat'[q].todo = beat[q].todo /\ (q # p => beat'[q] = beat[q])
  BY Zenon DEF RemoveSeen, PoolInv
<1>3. transactions' \subseteq transactions
  BY <1>1, Zenon
<1>4. PoolInv'
  BY <1>1, <1>2, <1>3, Zenon DEF PoolInv
<1>5. ASSUME NEW u \in transactions'
      PROVE \/ \E q \in Providers : u \in expectedTransactions(q)'
            \/ \E q \in Providers : beat'[q].marked = u
  <2>1. u \in transactions
    BY <1>3, <1>5, Zenon
  <2>2. \A q \in Providers : u \in expectedTransactions(q) => u \in expectedTransactions(q)'
    BY <1>1, <1>5, Zenon DEF expectedTransactions
  <2>3. CASE u = t
    <3>1. Cardinality(seenBy[u]) # Expected
      BY <1>1, <1>5, <2>3, Zenon
    <3> QED
      BY <2>1, <2>2, <3>1, SeenOrExpected, Zenon
  <2>4. CASE u # t
    BY <1>2, <2>1, <2>2, <2>4, Zenon DEF Awaited
  <2> QED
    BY <2>3, <2>4, Zenon
<1> QED
  BY <1>4, <1>5, Zenon DEF Awaited

\* Heartbeat begins: it looks at transactions of others.
LEMMA HeartbeatAwaited ==
  ASSUME PoolInv, Awaited, NEW p \in Providers, Heartbeat(p)
  PROVE PoolInv' /\ Awaited'
<1>1. UNCHANGED <<transactions, seenBy>> /\ beat' = [beat EXCEPT ![p].todo = expectedTransactions(p)]
  BY Zenon DEF Heartbeat
<1>2. /\ DOMAIN beat' = Providers /\ beat'[p].todo = expectedTransactions(p)
      /\ \A q \in Providers : DOMAIN beat'[q] = {"todo", "marked"} /\ beat'[q].marked = beat[q].marked
      /\ \A q \in Providers : q # p => beat'[q] = beat[q]
  BY <1>1, Zenon DEF PoolInv
<1>3. \A u \in expectedTransactions(p) : u \in DOMAIN seenBy /\ u.source # p
  BY Zenon DEF expectedTransactions, PoolInv
<1>4. \A q \in Providers : \A u \in beat'[q].todo : u \in DOMAIN seenBy /\ u.source # q
  BY <1>2, <1>3, Zenon DEF PoolInv
<1>5. PoolInv'
  BY <1>1, <1>2, <1>4, Zenon DEF PoolInv
<1>6. \A q \in Providers : expectedTransactions(q)' = expectedTransactions(q)
  BY <1>1, Zenon DEF expectedTransactions
<1>7. ASSUME NEW u \in transactions'
      PROVE \/ \E q \in Providers : u \in expectedTransactions(q)'
            \/ \E q \in Providers : beat'[q].marked = u
  <2>1. u \in transactions
    BY <1>1, <1>7, Zenon
  <2>2. CASE \E q \in Providers : u \in expectedTransactions(q)
    BY <1>6, <2>2, Zenon
  <2>3. CASE \E q \in Providers : beat[q].marked = u
    BY <1>2, <2>3, Zenon
  <2> QED
    BY <2>1, <2>2, <2>3, Zenon DEF Awaited
<1> QED
  BY <1>5, <1>7, Zenon DEF Awaited

\* In the pool of op-ufm every transaction is still looked for by a provider that
\* is not its source, or is about to be compared with Expected, for any providers,
\* two or more, in whatever order their heartbeats see the transactions and
\* whichever calls fail.  With one provider nobody looks for its transactions.
THEOREM PoolAwaited ==
  ASSUME SeveralProviders
  PROVE UfSpec => []Awaited
<1> DEFINE Inv == PoolInv /\ Awaited
<1>1. UfInit => Inv
  <2> SUFFICES ASSUME UfInit PROVE Inv
    BY Zenon
  <2>1. transactions = {} /\ DOMAIN beat = Providers /\ \A p \in Providers : beat[p] = NoBeat
    BY Zenon DEF UfInit
  <2>2. DOMAIN seenBy = {}
    <3>1. seenBy = <<>>
      BY Zenon DEF UfInit
    <3> QED
      BY <3>1
  <2>3. DOMAIN NoBeat = {"todo", "marked"} /\ NoBeat.todo = {}
    BY Zenon DEF NoBeat
  <2> QED
    BY <2>1, <2>2, <2>3, Zenon DEF PoolInv, Awaited
<1>2. Inv /\ [UfNext]_ufVars => Inv'
  <2> SUFFICES ASSUME Inv, [UfNext]_ufVars PROVE Inv'
    BY Zenon
  <2>1. ASSUME UNCHANGED monitor PROVE Inv'
    BY <2>1, Zenon DEF PoolInv, Awaited, expectedTransactions, monitor
  <2>2. ASSUME NEW p \in Providers, RoundTrip(p) \/ Sending(p) PROVE Inv'
    <3>1. UNCHANGED monitor \/ AddTransaction(p)
      BY <2>2, Zenon DEF RoundTrip, Sending, createTx, SendTransaction, TransactionReceipt
    <3> QED
      BY <2>1, <3>1, AddedAwaited, Zenon
  <2>3. ASSUME NEW p \in Providers, Beating(p) PROVE Inv'
    BY <2>3, HeartbeatAwaited, MarkedAwaited, RemovedAwaited, Zenon DEF Beating
  <2>4. ASSUME NEW p \in Providers, NEW t \in sent, Propagate(p, t) PROVE Inv'
    BY <2>1, <2>4, Zenon DEF Propagate
  <2>5. ASSUME UfTick PROVE Inv'
    BY <2>1, <2>5, Zenon DEF UfTick
  <2>6. ASSUME UNCHANGED ufVars PROVE Inv'
    BY <2>1, <2>6, Zenon DEF ufVars, monitor
  <2> QED
    BY <2>2, <2>3, <2>4, <2>5, <2>6, Zenon DEF UfNext, UfStep
<1> QED
  BY <1>1, <1>2, PTL DEF UfSpec

-----------------------------------------------------------------------------
(***************************************************************************)
(* Signer: a request past the choice of an entry has the key of an entry   *)
(* that entitles the client to it.                                         *)
(***************************************************************************)

\* An entry of the configuration entitles the client to the key.
Entitled(a, key) ==
  \E i \in DOMAIN Auth : /\ Auth[i].client = a.client /\ Auth[i].key = key
                         /\ a.kind = "block_payload" => Auth[i].from = a.from /\ Auth[i].chain = a.chain

\* Why a payload may be refused.
NoEntry(a) ==
  LET mine == {i \in DOMAIN Auth : Auth[i].client = a.client /\ Auth[i].from = a.from}
  IN mine = {} \/ a.client = "" \/ \E i \in mine : Auth[i].chain # a.chain

RequestOk(s) ==
  /\ DOMAIN s = {"at", "args", "key", "pub", "sig"}
  /\ DOMAIN s.sig = {"key", "digest", "high"}
  /\ s.at \in {"public key", "sign", "convert", "signed"} => Entitled(s.args, s.key)
  /\ s.at = "signed" =>
       /\ s.sig.digest = s.args.digest /\ s.sig.key = s.pub /\ ~s.sig.high
       /\ s.args.kind = "transaction" => s.args.from \in {"", s.sig.key}
  /\ s.at = "refused" /\ s.args.kind = "block_payload" /\ s.args.valid => NoEntry(s.args)

SignInv ==
  /\ signing = [r \in SignRequests |-> signing[r]]
  /\ \A r \in SignRequests : RequestOk(signing[r])

\* The entries are numbered from 1.
LEMMA AuthEntries == DOMAIN Auth \subseteq Nat \ {0}
<1> DEFINE S == {Auth[i] : i \in DOMAIN Auth}
<1>1. Auth \in Seq(S)
  BY SignerAssumption, Zenon
<1> HIDE DEF S
<1>2. DOMAIN Auth = 1..Len(Auth) /\ Len(Auth) \in Nat
  BY <1>1
<1> QED
  BY <1>2

\* GetAuthConfigForClient finds an entry that fits, when there is one.
LEMMA FirstFits ==
  ASSUME NEW client, NEW from, GetAuthConfigForClient(client, from) # 0
  PROVE LET i == GetAuthConfigForClient(client, from)
        IN i \in DOMAIN Auth /\ Auth[i].client = client /\ from \in {"", Auth[i].from}
<1> DEFINE fits == {i \in DOMAIN Auth : Auth[i].client = client /\ from \in {"", Auth[i].from}}
<1>1. fits # {} /\ GetAuthConfigForClient(client, from) = CHOOSE i \in fits : \A j \in fits : i <= j
  BY Zenon DEF GetAuthConfigForClient
<1>3. fits \subseteq Nat
  BY AuthEntries, Zenon
<1>4. PICK k \in fits : \A j \in fits : k <= j
  BY <1>1, <1>3, Least, Zenon
<1>5. (CHOOSE i \in fits : \A j \in fits : i <= j) \in fits
  BY <1>4, Zenon
<1> QED
  BY <1>1, <1>5, Zenon

\* It finds one whenever the client has one.
LEMMA NoneFits ==
  ASSUME NEW client, NEW from, GetAuthConfigForClient(client, from) = 0
  PROVE client = "" \/ ~ \E i \in DOMAIN Auth : Auth[i].client = client /\ from \in {"", Auth[i].from}
<1> DEFINE fits == {i \in DOMAIN Auth : Auth[i].client = client /\ from \in {"", Auth[i].from}}
<1> SUFFICES ASSUME client # "", fits # {} PROVE FALSE
  BY Zenon
<1>1. GetAuthConfigForClient(client, from) = CHOOSE i \in fits : \A j \in fits : i <= j
  BY Zenon DEF GetAuthConfigForClient
<1>3. fits \subseteq Nat /\ 0 \notin fits
  BY AuthEntries, Zenon
<1>4. PICK k \in fits : \A j \in fits : k <= j
  BY <1>3, Least, Zenon
<1>5. (CHOOSE i \in fits : \A j \in fits : i <= j) \in fits
  BY <1>4, Zenon
<1> QED
  BY <1>1, <1>3, <1>5, Zenon

\* What an authorized request may use, and why a payload is refused.
LEMMA Judged ==
  ASSUME NEW a \in Args
  PROVE /\ Authorized(a) => Entitled(a, Auth[AuthOf(a)].key)
        /\ ~Authorized(a) /\ a.kind = "block_payload" /\ a.valid => NoEntry(a)
<1> DEFINE from == IF a.kind = "transaction" THEN "" ELSE a.from
<1>1. AuthOf(a) = GetAuthConfigForClient(a.client, from)
  BY Zenon DEF AuthOf
<1>2. AuthOf(a) # 0 => AuthOf(a) \in DOMAIN Auth /\ Auth[AuthOf(a)].client = a.client /\ from \in {"", Auth[AuthOf(a)].from}
  <2> HIDE DEF from
  <2>1. ASSUME GetAuthConfigForClient(a.client, from) # 0
        PROVE LET i == GetAuthConfigForClient(a.client, from)
              IN i \in DOMAIN Auth /\ Auth[i].client = a.client /\ from \in {"", Auth[i].from}
    BY <2>1, FirstFits, Zenon
  <2> QED
    BY <1>1, <2>1, Zenon
<1>3. ASSUME Authorized(a) PROVE Entitled(a, Auth[AuthOf(a)].key)
  <2>1. AuthOf(a) # 0 /\ (a.kind # "transaction" => a.from = Auth[AuthOf(a)].from /\ a.chain = Auth[AuthOf(a)].chain)
    BY <1>3, Zenon DEF Authorized
  <2> QED
    BY <1>2, <2>1, Zenon DEF Entitled
<1>4. ASSUME ~Authorized(a), a.kind = "block_payload", a.valid PROVE NoEntry(a)
  <2>1. from = a.from
    BY <1>4, Zenon
  <2>2. CASE AuthOf(a) = 0
    BY <1>1, <2>1, <2>2, NoneFits, Zenon DEF NoEntry
  <2>3. CASE AuthOf(a) # 0 /\ a.from = ""
    BY SignerAssumption, <2>3, Zenon DEF NoEntry
  <2>4. CASE AuthOf(a) # 0 /\ a.from # ""
    <3>1. a.from = Auth[AuthOf(a)].from /\ AuthOf(a) \in DOMAIN Auth /\ Auth[AuthOf(a)].client = a.client
      BY <1>2, <2>1, <2>4, Zenon
    <3>2. a.client = "" \/ a.chain # Auth[AuthOf(a)].chain
      BY <1>4, <2>4, <3>1, Zenon DEF Authorized
    <3> QED
      BY <3>1, <3>2, Zenon DEF NoEntry
  <2> QED
    BY <2>2, <2>3, <2>4, Zenon
<1> QED
  BY <1>3, <1>4, Zenon

\* A step of one request.
LEMMA OneRequest ==
  ASSUME SignInv, NEW r \in SignRequests, NEW new, signing' = [signing EXCEPT ![r] = new], RequestOk(new)
  PROVE SignInv'
<1>1. DOMAIN signing = SignRequests
  BY Zenon DEF SignInv
<1>2. signing' = [q \in SignRequests |-> IF q = r THEN new ELSE signing[q]]
  BY <1>1, Zenon
<1>3. signing'[r] = new /\ \A q \in SignRequests : q # r => signing'[q] = signing[q]
  BY <1>2, Zenon
<1>4. signing' = [q \in SignRequests |-> signing'[q]]
  BY <1>2, Zenon
<1>5. \A q \in SignRequests : RequestOk(signing'[q])
  BY <1>3, Zenon DEF SignInv
<1> QED
  BY <1>4, <1>5, Zenon DEF SignInv, RequestOk, Entitled, NoEntry

\* Nothing has been asked at the start.
LEMMA SignInitially == SgInit => SignInv
<1> SUFFICES ASSUME SgInit PROVE SignInv
  BY Zenon
<1>1. signing = [r \in SignRequests |-> NotAsked]
  BY Zenon DEF SgInit
<1>2. RequestOk(NotAsked)
  BY Zenon DEF RequestOk, NotAsked, NoSignature
<1> QED
  BY <1>1, <1>2, Zenon DEF SignInv

\* A request is judged once, by the entry found for it.
LEMMA SignKeeps ==
  ASSUME SignInv, NEW r \in SignRequests, NEW a \in Args, Sign(r, a)
  PROVE SignInv'
<1> DEFINE at == IF Authorized(a) THEN "public key" ELSE "refused"
<1> DEFINE key == IF Authorized(a) THEN Auth[AuthOf(a)].key ELSE ""
<1> DEFINE new == [NotAsked EXCEPT !.args = a, !.at = at, !.key = key]
<1>1. signing' = [signing EXCEPT ![r] = new]
  BY Zenon DEF Sign
<1>2. at \in {"public key", "refused"} /\ (Authorized(a) => at = "public key" /\ key = Auth[AuthOf(a)].key)
      /\ (~Authorized(a) => at = "refused")
  BY Zenon
<1> HIDE DEF at, key
<1>3. /\ DOMAIN new = {"at", "args", "key", "pub", "sig"} /\ DOMAIN new.sig = {"key", "digest", "high"}
      /\ new.args = a /\ new.at = at /\ new.key = key
  BY Zenon DEF NotAsked, NoSignature
<1> HIDE DEF new
<1>4. CASE Authorized(a)
  <2>1. new.at = "public key" /\ new.key = Auth[AuthOf(a)].key
    BY <1>2, <1>3, <1>4, Zenon
  <2> QED
    BY <1>1, <1>3, <1>4, <2>1, Judged, OneRequest, Zenon DEF RequestOk
<1>5. CASE ~Authorized(a)
  <2>1. new.at = "refused"
    BY <1>2, <1>3, <1>5, Zenon
  <2> QED
    BY <1>1, <1>3, <1>5, <2>1, Judged, OneRequest, Zenon DEF RequestOk
<1> QED
  BY <1>4, <1>5, Zenon

\* The public key read.
LEMMA PublicKeyKeeps ==
  ASSUME SignInv, NEW r \in SignRequests, GetPublicKey(r)
  PROVE SignInv'
<1>1. PICK pub \in Keys, crc \in BOOLEAN :
       signing' = [signing EXCEPT ![r].at = IF crc THEN "sign" ELSE "failed",
                                  ![r].pub = IF crc THEN pub ELSE ""]
  BY Zenon DEF GetPublicKey
<1> DEFINE at == IF crc THEN "sign" ELSE "failed"
<1> DEFINE key == IF crc THEN pub ELSE ""
<1> DEFINE new == [signing[r] EXCEPT !.at = at, !.pub = key]
<1>2. signing' = [signing EXCEPT ![r] = new]
  BY <1>1, Zenon
<1>3. at \in {"sign", "failed"} /\ signing[r].at = "public key" /\ RequestOk(signing[r])
  BY Zenon DEF GetPublicKey, SignInv
<1> HIDE DEF at, key
<1>4. /\ DOMAIN new = {"at", "args", "key", "pub", "sig"} /\ new.at = at /\ new.args = signing[r].args
      /\ new.key = signing[r].key /\ new.sig = signing[r].sig
  BY <1>3, Zenon DEF RequestOk
<1> HIDE DEF new
<1>5. RequestOk(new)
  BY <1>3, <1>4, Zenon DEF RequestOk
<1> QED
  BY <1>2, <1>5, OneRequest, Zenon

\* The answer of the key service.
LEMMA AsymmetricSignKeeps ==
  ASSUME SignInv, NEW r \in SignRequests, AsymmetricSign(r)
  PROVE SignInv'
<1>1. PICK key \in Keys, digest \in Digests, high \in BOOLEAN, intact \in BOOLEAN :
       signing' = [signing EXCEPT
            ![r].at = IF intact THEN "convert" ELSE "failed",
            ![r].sig = IF intact THEN [key |-> key, digest |-> digest, high |-> high] ELSE NoSignature]
  BY Zenon DEF AsymmetricSign
<1> DEFINE at == IF intact THEN "convert" ELSE "failed"
<1> DEFINE sig == IF intact THEN [key |-> key, digest |-> digest, high |-> high] ELSE NoSignature
<1> DEFINE new == [signing[r] EXCEPT !.at = at, !.sig = sig]
<1>2. signing' = [signing EXCEPT ![r] = new]
  BY <1>1, Zenon
<1>6. DOMAIN sig = {"key", "digest", "high"} /\ at \in {"convert", "failed"}
  BY Zenon DEF NoSignature
<1> HIDE DEF at, sig
<1>3. signing[r].at = "sign" /\ RequestOk(signing[r])
  BY Zenon DEF AsymmetricSign, SignInv
<1>4. /\ DOMAIN new = {"at", "args", "key", "pub", "sig"} /\ new.at = at /\ new.args = signing[r].args
      /\ new.key = signing[r].key /\ new.sig = sig
  BY <1>3, Zenon DEF RequestOk
<1> HIDE DEF new
<1>5. RequestOk(new)
  BY <1>3, <1>4, <1>6, Zenon DEF RequestOk
<1> QED
  BY <1>2, <1>5, OneRequest, Zenon

\* A signature is returned only when it verifies.
LEMMA ConvertKeeps ==
  ASSUME SignInv, NEW r \in SignRequests, convertToCompactRecoverableSignature(r)
  PROVE SignInv'
<1> DEFINE a == signing[r].args
<1> DEFINE sig == [signing[r].sig EXCEPT !.high = FALSE]
<1> DEFINE good == VerifySignature(signing[r].pub, a.digest, sig) /\ (a.kind = "transaction" => a.from \in {"", sig.key})
<1> DEFINE at == IF good THEN "signed" ELSE "failed"
<1> DEFINE kept == IF good THEN sig ELSE NoSignature
<1>1. /\ signing[r].at = "convert" /\ RequestOk(signing[r])
      /\ signing' = [signing EXCEPT ![r].at = at, ![r].sig = kept]
  BY Zenon DEF convertToCompactRecoverableSignature, SignInv
<1>2. DOMAIN sig = {"key", "digest", "high"} /\ ~sig.high
  BY <1>1, Zenon DEF RequestOk
<1> HIDE DEF sig
<1>3. good => sig.key = signing[r].pub /\ sig.digest = a.digest /\ (a.kind = "transaction" => a.from \in {"", sig.key})
  BY Zenon DEF VerifySignature
<1>4. DOMAIN kept = {"key", "digest", "high"}
  BY <1>2, Zenon DEF NoSignature
<1>5. at \in {"signed", "failed"} /\ (at = "signed" => good /\ kept = sig)
  BY Zenon
<1> HIDE DEF good, at, kept
<1> DEFINE new == [signing[r] EXCEPT !.at = at, !.sig = kept]
<1>6. signing' = [signing EXCEPT ![r] = new]
  BY <1>1, Zenon
<1>7. /\ DOMAIN new = {"at", "args", "key", "pub", "sig"} /\ new.at = at /\ new.args = signing[r].args
      /\ new.key = signing[r].key /\ new.sig = kept /\ new.pub = signing[r].pub
  BY <1>1, Zenon DEF RequestOk
<1> HIDE DEF new
<1>8. RequestOk(new)
  <2>1. Entitled(new.args, new.key)
    BY <1>1, <1>7, Zenon DEF RequestOk
  <2> QED
    BY <1>2, <1>3, <1>4, <1>5, <1>7, <2>1, Zenon DEF RequestOk
<1> QED
  BY <1>6, <1>8, OneRequest, Zenon

\* op-signer returns only low signatures of the digest asked for that verify with
\* the key read for the request, and signs a block payload only for an entry that
\* names its sender and chain, for any configuration, arguments and answers of
\* the key service.
THEOREM SignedAsAskedHolds == SgSpec => []SignedAsAsked
<1>1. SgInit => SignInv
  BY SignInitially, Zenon
<1>2. SignInv /\ [SgNext]_sgVars => SignInv'
  <2> SUFFICES ASSUME SignInv, [SgNext]_sgVars PROVE SignInv'
    BY Zenon
  <2>1. CASE UNCHANGED signing
    BY <2>1, Zenon DEF SignInv, RequestOk, Entitled, NoEntry
  <2>2. CASE \E r \in SignRequests, a \in Args : Sign(r, a)
    BY <2>2, SignKeeps, Zenon
  <2>3. CASE \E r \in SignRequests : GetPublicKey(r)
    BY <2>3, PublicKeyKeeps, Zenon
  <2>4. CASE \E r \in SignRequests : AsymmetricSign(r)
    BY <2>4, AsymmetricSignKeeps, Zenon
  <2>5. CASE \E r \in SignRequests : convertToCompactRecoverableSignature(r)
    BY <2>5, ConvertKeeps, Zenon
  <2> QED
    BY <2>1, <2>2, <2>3, <2>4, <2>5, Zenon DEF SgNext, sgVars, InitPart, InitFails, AppStarted, Stop
<1>3. SignInv => SignedAsAsked
  BY Zenon DEF SignInv, RequestOk, Entitled, NoEntry, SignedAsAsked
<1> QED
  BY <1>1, <1>2, <1>3, PTL DEF SgSpec

-----------------------------------------------------------------------------
(***************************************************************************)
(* CciStats: what a transaction has done so far, that no pipeline that was *)
(* over is forgotten, and who has a connection or is about to ask for one: *)
(* before the first error only workers that are busy, and after it nobody  *)
(* comes to ask.                                                           *)
(***************************************************************************)

WorkerSteps == {"none", "fetch", "begin", "pipeline", "jobs", "done"}

CsTypes ==
  /\ over \subseteq Pipelines /\ rows \subseteq Pipelines /\ results \in [Pipelines -> [Jobs -> Nat]]
  /\ runner \in [at : {"exited", "running", "closing"}, todo : SUBSET Pipelines]
  /\ worker \in [Pipelines -> [at : WorkerSteps, jobs : SUBSET Jobs, tests : SUBSET Jobs]]
  /\ inTx \in [Pipelines -> [Jobs -> Nat]] /\ listedOver \subseteq over

\* What a worker has done in its transaction: of the jobs it inserted the old
\* results are gone, and of those whose result it inserted there is one.
TxInv ==
  \A p \in Pipelines :
    /\ worker[p].at \in {"none", "fetch", "begin", "pipeline"} => worker[p].jobs = {} /\ worker[p].tests = {}
    /\ worker[p].at = "jobs" =>
         /\ worker[p].tests \subseteq worker[p].jobs
         /\ \A j \in worker[p].jobs : inTx[p][j] = IF j \in worker[p].tests THEN 1 ELSE 0

\* Every pipeline that was over is stored, to be started or being processed.
NoneForgotten ==
  /\ \A p \in runner.todo : worker[p].at = "none"
  /\ runner.at = "running" /\ ~cancelled =>
       \A p \in listedOver : p \in rows \/ p \in runner.todo \/ worker[p].at \notin {"none", "done"}

CsInv == CsTypes /\ TxInv /\ NoneForgotten /\ ResultsOnce

\* The database is empty at first.
LEMMA CsInitially == CsInit => CsInv
BY DEF CsInit, CsInv, CsTypes, TxInv, NoneForgotten, ResultsOnce, NoResults, NoWork, Exited, WorkerSteps

\* A worker moves on: its transaction, the rows and the results stay.
LEMMA WorkerMoves ==
  ASSUME CsInv, NEW p \in Pipelines, NEW at \in WorkerSteps \ {"none"}, Goto(p, at),
         UNCHANGED <<over, rows, results, runner, listedOver>>,
         \A q \in Pipelines : q # p => inTx'[q] = inTx[q], inTx' \in [Pipelines -> [Jobs -> Nat]],
         worker[p].at # "none", cancelled => cancelled',
         at = "jobs" => worker[p].at = "pipeline",
         at \in {"fetch", "begin", "pipeline"} => worker[p].at \in {"fetch", "begin", "pipeline"},
         at = "done" => cancelled' \/ p \notin over
  PROVE CsInv'
<1>1. worker' = [q \in Pipelines |-> IF q = p THEN [worker[p] EXCEPT !.at = at] ELSE worker[q]]
  BY Zenon DEF Goto, CsInv, CsTypes
<1>2. /\ worker'[p].at = at /\ worker'[p].jobs = worker[p].jobs /\ worker'[p].tests = worker[p].tests
      /\ \A q \in Pipelines : q # p => worker'[q] = worker[q]
  BY <1>1 DEF CsInv, CsTypes
<1>3. CsTypes'
  BY <1>1, Zenon DEF CsInv, CsTypes
<1>4. TxInv'
  BY <1>2 DEF CsInv, TxInv
<1>5. NoneForgotten'
  <2>1. ASSUME NEW q \in runner.todo PROVE worker'[q].at = "none"
    BY <1>2, Zenon DEF CsInv, CsTypes, NoneForgotten
  <2>2. ASSUME runner.at = "running", ~cancelled', NEW q \in listedOver
        PROVE q \in rows \/ q \in runner.todo \/ worker'[q].at \notin {"none", "done"}
    <3>1. q \in rows \/ q \in runner.todo \/ worker[q].at \notin {"none", "done"}
      BY <2>2, Zenon DEF CsInv, NoneForgotten
    <3>2. q \in Pipelines /\ q \in over
      BY Zenon DEF CsInv, CsTypes
    <3>3. q = p => at # "done" /\ at # "none"
      BY <2>2, <3>2, Zenon DEF WorkerSteps
    <3> QED
      BY <1>2, <3>1, <3>2, <3>3, Zenon
  <2> QED
    BY <2>1, <2>2, Zenon DEF NoneForgotten
<1>6. ResultsOnce'
  BY Zenon DEF CsInv, ResultsOnce
<1> QED
  BY <1>3, <1>4, <1>5, <1>6, Zenon DEF CsInv

\* The steps of a worker that insert or store nothing.
LEMMA FetchKeeps ==
  ASSUME CsInv, NEW p \in Pipelines,
         fetchWorkflows(p) \/ FetchFails(p) \/ Begin(p) \/ InsertPipeline(p) \/ InsertFails(p)
  PROVE CsInv'
<1> USE DEF database, history
<1>1. CASE fetchWorkflows(p)
  <2> DEFINE at == IF p \in over THEN "begin" ELSE "done"
  <2>1. /\ worker[p].at = "fetch" /\ Goto(p, at) /\ at \in {"begin", "done"} /\ (at = "done" => p \notin over)
        /\ UNCHANGED <<over, rows, results, runner, listedOver, inTx, cancelled>>
    BY <1>1, Zenon DEF fetchWorkflows
  <2> HIDE DEF at
  <2>2. inTx' \in [Pipelines -> [Jobs -> Nat]]
    BY <2>1, Zenon DEF CsInv, CsTypes
  <2> QED
    BY <2>1, <2>2, WorkerMoves, Zenon DEF WorkerSteps
<1>2. CASE FetchFails(p) \/ InsertFails(p)
  <2>1. /\ worker[p].at \in {"fetch", "begin", "pipeline", "jobs"} /\ Goto(p, "done") /\ cancelled'
        /\ UNCHANGED <<over, rows, results, runner, listedOver, inTx>>
    BY <1>2, Zenon DEF FetchFails, InsertFails
  <2>2. inTx' \in [Pipelines -> [Jobs -> Nat]]
    BY <2>1, Zenon DEF CsInv, CsTypes
  <2> QED
    BY <2>1, <2>2, WorkerMoves, Zenon DEF WorkerSteps
<1>3. CASE Begin(p)
  <2>1. worker[p].at = "begin" /\ UNCHANGED <<over, rows, results, runner, listedOver>>
    BY <1>3, Zenon DEF Begin
  <2>2. CASE Goto(p, "pipeline") /\ inTx' = [inTx EXCEPT ![p] = results[p]] /\ UNCHANGED cancelled
    <3>1. inTx' \in [Pipelines -> [Jobs -> Nat]] /\ \A q \in Pipelines : q # p => inTx'[q] = inTx[q]
      BY <2>2, Zenon DEF CsInv, CsTypes
    <3> QED
      BY <2>1, <2>2, <3>1, WorkerMoves, Zenon DEF WorkerSteps
  <2>3. CASE Goto(p, "done") /\ cancelled' /\ UNCHANGED inTx
    <3>1. inTx' \in [Pipelines -> [Jobs -> Nat]]
      BY <2>3, Zenon DEF CsInv, CsTypes
    <3> QED
      BY <2>1, <2>3, <3>1, WorkerMoves, Zenon DEF WorkerSteps
  <2> QED
    BY <1>3, <2>2, <2>3, Zenon DEF Begin
<1>4. CASE InsertPipeline(p)
  <2>1. /\ worker[p].at = "pipeline" /\ Goto(p, "jobs")
        /\ UNCHANGED <<over, rows, results, runner, listedOver, inTx, cancelled>>
    BY <1>4, Zenon DEF InsertPipeline
  <2>2. inTx' \in [Pipelines -> [Jobs -> Nat]]
    BY <2>1, Zenon DEF CsInv, CsTypes
  <2> QED
    BY <2>1, <2>2, WorkerMoves, Zenon DEF WorkerSteps
<1> QED
  BY <1>1, <1>2, <1>3, <1>4, Zenon

\* An insert of a job or of a test result, in the transaction of its pipeline.
LEMMA InsertKeeps ==
  ASSUME CsInv, NEW p \in Pipelines, NEW j \in Jobs, InsertJob(p, j) \/ InsertTestResult(p, j)
  PROVE CsInv'
<1>1. /\ worker[p].at = "jobs" /\ UNCHANGED <<over, rows, results, runner, listedOver, cancelled>>
      /\ inTx \in [Pipelines -> [Jobs -> Nat]]
      /\ worker \in [Pipelines -> [at : WorkerSteps, jobs : SUBSET Jobs, tests : SUBSET Jobs]]
  BY Zenon DEF InsertJob, InsertTestResult, database, history, CsInv, CsTypes
<1>2. /\ CsTypes' /\ \A q \in Pipelines : q # p => worker'[q] = worker[q] /\ inTx'[q] = inTx[q]
      /\ worker'[p].at = "jobs" /\ \A i \in Jobs : i # j => inTx'[p][i] = inTx[p][i]
  <2>1. CASE InsertJob(p, j)
    BY <1>1, <2>1, Zenon DEF InsertJob, CsInv, CsTypes
  <2>2. CASE InsertTestResult(p, j)
    <3>1. /\ inTx' = [inTx EXCEPT ![p] = [inTx[p] EXCEPT ![j] = inTx[p][j] + 1]] /\ inTx[p][j] + 1 \in Nat
          /\ worker' = [worker EXCEPT ![p] = [worker[p] EXCEPT !.tests = worker[p].tests \union {j}]]
      BY <1>1, <2>2 DEF InsertTestResult
    <3>2. inTx' \in [Pipelines -> [Jobs -> Nat]] /\ \A i \in Jobs : i # j => inTx'[p][i] = inTx[p][i]
      BY <1>1, <3>1, Zenon
    <3>3. worker' \in [Pipelines -> [at : WorkerSteps, jobs : SUBSET Jobs, tests : SUBSET Jobs]] /\ worker'[p].at = "jobs"
      BY <1>1, <3>1, Zenon
    <3>4. \A q \in Pipelines : q # p => worker'[q] = worker[q] /\ inTx'[q] = inTx[q]
      BY <1>1, <3>1, Zenon
    <3> QED
      BY <1>1, <3>2, <3>3, <3>4, Zenon DEF CsInv, CsTypes
  <2> QED
    BY <2>1, <2>2, Zenon
<1>3. /\ worker'[p].tests \subseteq worker'[p].jobs
      /\ \A i \in worker'[p].jobs : inTx'[p][i] = IF i \in worker'[p].tests THEN 1 ELSE 0
  <2>1. /\ worker[p].tests \subseteq worker[p].jobs
        /\ \A i \in worker[p].jobs : inTx[p][i] = IF i \in worker[p].tests THEN 1 ELSE 0
    BY <1>1, Zenon DEF CsInv, TxInv
  <2>2. CASE InsertJob(p, j)
    <3>1. /\ worker'[p].jobs = worker[p].jobs \union {j} /\ worker'[p].tests = worker[p].tests /\ inTx'[p][j] = 0
          /\ j \notin worker[p].jobs
      BY <1>1, <2>2, Zenon DEF InsertJob
    <3> QED
      BY <1>1, <1>2, <2>1, <3>1
  <2>3. CASE InsertTestResult(p, j)
    <3>1. /\ worker'[p].jobs = worker[p].jobs /\ worker'[p].tests = worker[p].tests \union {j}
          /\ inTx'[p][j] = inTx[p][j] + 1 /\ j \in worker[p].jobs /\ j \notin worker[p].tests
      BY <1>1, <2>3 DEF InsertTestResult
    <3> QED
      BY <1>1, <1>2, <2>1, <3>1
  <2> QED
    BY <2>2, <2>3, Zenon
<1>4. TxInv'
  BY <1>2, <1>3 DEF CsInv, TxInv
<1>5. NoneForgotten'
  BY <1>1, <1>2, Zenon DEF CsInv, CsTypes, NoneForgotten
<1> QED
  BY <1>1, <1>2, <1>4, <1>5, Zenon DEF CsInv, ResultsOnce

\* The commit stores each result once.
LEMMA CommitKeepsInv ==
  ASSUME CsInv, NEW p \in Pipelines, Commit(p)
  PROVE CsInv'
<1>1. /\ worker[p].at = "jobs" /\ worker[p].tests = Jobs /\ Goto(p, "done")
      /\ UNCHANGED <<over, runner, inTx, listedOver>> /\ inTx \in [Pipelines -> [Jobs -> Nat]]
  BY Zenon DEF Commit, history, CsInv, CsTypes
<1>2. CASE cancelled' /\ UNCHANGED <<rows, results>>
  BY <1>1, <1>2, WorkerMoves, Zenon DEF WorkerSteps
<1>3. CASE ~cancelled /\ rows' = rows \union {p} /\ results' = [results EXCEPT ![p] = inTx[p]] /\ UNCHANGED cancelled
  <2>1. worker' = [q \in Pipelines |-> IF q = p THEN [worker[p] EXCEPT !.at = "done"] ELSE worker[q]]
    BY <1>1, Zenon DEF Goto, CsInv, CsTypes
  <2>2. worker'[p].at = "done" /\ \A q \in Pipelines : q # p => worker'[q] = worker[q]
    BY <2>1, Zenon DEF CsInv, CsTypes
  <2>3. CsTypes'
    <3>1. results' \in [Pipelines -> [Jobs -> Nat]] /\ rows' \subseteq Pipelines
      BY <1>1, <1>3, Zenon DEF CsInv, CsTypes
    <3>2. worker' \in [Pipelines -> [at : WorkerSteps, jobs : SUBSET Jobs, tests : SUBSET Jobs]]
      <4>1. worker \in [Pipelines -> [at : WorkerSteps, jobs : SUBSET Jobs, tests : SUBSET Jobs]]
        BY Zenon DEF CsInv, CsTypes
      <4>2. [worker[p] EXCEPT !.at = "done"] \in [at : WorkerSteps, jobs : SUBSET Jobs, tests : SUBSET Jobs]
        BY <4>1, Zenon DEF WorkerSteps
      <4> QED
        BY <2>1, <4>1, <4>2, Zenon
    <3> QED
      BY <1>1, <3>1, <3>2, Zenon DEF CsInv, CsTypes
  <2>4. TxInv'
    BY <1>1, <2>2, Zenon DEF CsInv, TxInv
  <2>5. NoneForgotten'
    BY <1>1, <1>3, <2>2, Zenon DEF CsInv, CsTypes, NoneForgotten
  <2>6. \A j \in Jobs : inTx[p][j] = 1
    BY <1>1, Zenon DEF CsInv, TxInv
  <2>7. ResultsOnce'
    BY <1>1, <1>3, <2>6, Zenon DEF CsInv, CsTypes, ResultsOnce
  <2> QED
    BY <2>3, <2>4, <2>5, <2>7, Zenon DEF CsInv
<1> QED
  BY <1>2, <1>3, Zenon DEF Commit

\* The pool starts a pipeline.
LEMMA GoKeeps ==
  ASSUME CsInv, NEW p \in Pipelines, Go(p)
  PROVE CsInv'
<1>1. /\ p \in runner.todo /\ runner' = [runner EXCEPT !.todo = @ \ {p}]
      /\ worker' = [worker EXCEPT ![p].at = "fetch"]
      /\ UNCHANGED <<over, rows, results, inTx, cancelled, listedOver>>
  BY Zenon DEF Go, database, history
<1>2. CsTypes' /\ runner'.at = runner.at /\ runner'.todo = runner.todo \ {p}
  BY <1>1, Zenon DEF CsInv, CsTypes, WorkerSteps
<1>3. /\ worker'[p].at = "fetch" /\ worker'[p].jobs = worker[p].jobs /\ worker'[p].tests = worker[p].tests
      /\ \A q \in Pipelines : q # p => worker'[q] = worker[q]
  BY <1>1 DEF CsInv, CsTypes
<1>6. worker[p].jobs = {} /\ worker[p].tests = {}
  <2>1. worker[p].at = "none"
    BY <1>1, Zenon DEF CsInv, NoneForgotten
  <2> QED
    BY <2>1, Zenon DEF CsInv, TxInv
<1>4. TxInv'
  BY <1>1, <1>3, <1>6 DEF CsInv, TxInv
<1>5. NoneForgotten'
  BY <1>1, <1>2, <1>3 DEF CsInv, CsTypes, NoneForgotten
<1> QED
  BY <1>1, <1>2, <1>4, <1>5, Zenon DEF CsInv, ResultsOnce

\* Runs that begin and end, and pipelines that end.
LEMMA RunKeeps ==
  ASSUME CsInv, \/ GenerateReport \/ ListFails \/ Interrupt \/ Wait \/ CloseDb \/ Kill
                \/ \E p \in Pipelines : Ends(p)
  PROVE CsInv'
<1> USE DEF database, history
<1>1. CASE GenerateReport
  <2>1. /\ runner' = [at |-> "running", todo |-> fetchPipelines] /\ worker' = [p \in Pipelines |-> NoWork]
        /\ listedOver' = {p \in over : p >= Cutoff} /\ UNCHANGED <<over, rows, results, inTx>>
    BY <1>1, Zenon DEF GenerateReport
  <2> QED
    BY <2>1 DEF CsInv, CsTypes, TxInv, NoneForgotten, ResultsOnce, NoWork, WorkerSteps, fetchPipelines
<1>2. CASE ListFails
  <2>1. runner = Exited /\ runner' = [at |-> "closing", todo |-> {}] /\ listedOver' = {} /\ cancelled' /\ UNCHANGED <<over, rows, results, worker, inTx>>
    BY <1>2, Zenon DEF ListFails
  <2> QED
    BY <2>1 DEF CsInv, CsTypes, TxInv, NoneForgotten, ResultsOnce
<1>3. CASE Interrupt
  <2>1. /\ runner' = [runner EXCEPT !.at = "closing"] /\ cancelled'
        /\ UNCHANGED <<over, rows, results, worker, inTx, listedOver>>
    BY <1>3, Zenon DEF Interrupt
  <2> QED
    BY <2>1 DEF CsInv, CsTypes, TxInv, NoneForgotten, ResultsOnce
<1>4. CASE Wait
  <2>1. /\ runner.at = "running" /\ runner.todo = {} /\ Busy = {} /\ runner' = [runner EXCEPT !.at = "closing"]
        /\ UNCHANGED <<over, rows, results, worker, inTx, cancelled, listedOver>>
    BY <1>4, Zenon DEF Wait
  <2>2. ~cancelled => listedOver \subseteq rows
    BY <2>1, Zenon DEF CsInv, CsTypes, NoneForgotten, Busy
  <2>3. CsTypes' /\ runner'.at = "closing" /\ runner'.todo = {}
    BY <2>1, Zenon DEF CsInv, CsTypes
  <2>4. TxInv' /\ NoneForgotten' /\ ResultsOnce'
    BY <2>1, <2>2, <2>3 DEF CsInv, TxInv, NoneForgotten, ResultsOnce
  <2> QED
    BY <2>3, <2>4, Zenon DEF CsInv
<1>5. CASE CloseDb \/ Kill
  <2>1. runner' = Exited /\ worker' = [p \in Pipelines |-> NoWork] /\ UNCHANGED <<over, rows, results, inTx, listedOver>>
    BY <1>5, Zenon DEF CloseDb, Kill
  <2> QED
    BY <2>1 DEF CsInv, CsTypes, TxInv, NoneForgotten, ResultsOnce, NoWork, WorkerSteps, Exited
<1>6. CASE \E p \in Pipelines : Ends(p)
  BY <1>6 DEF Ends, CsInv, CsTypes, TxInv, NoneForgotten, ResultsOnce
<1> QED
  BY <1>1, <1>2, <1>3, <1>4, <1>5, <1>6, Zenon

\* The invariant of the runs and the database.
LEMMA CsInvariant == CsSpec => []CsInv
<1>1. CsInit => CsInv
  BY CsInitially, Zenon
<1>2. CsInv /\ [CsNext]_csVars => CsInv'
  <2> SUFFICES ASSUME CsInv, [CsNext]_csVars PROVE CsInv'
    BY Zenon
  <2>1. CASE UNCHANGED csVars
    BY <2>1 DEF csVars, CsInv, CsTypes, TxInv, NoneForgotten, ResultsOnce
  <2>2. CASE \E p \in Pipelines : Processing(p)
    BY <2>2, FetchKeeps, InsertKeeps, CommitKeepsInv, GoKeeps, Zenon DEF Processing
  <2> QED
    BY <2>1, <2>2, RunKeeps, Zenon DEF CsNext
<1> QED
  BY <1>1, <1>2, PTL DEF CsSpec

\* A pipeline that is stored has every test result once, one that is not has
\* none, and a run without an error forgets no pipeline, for any number of
\* pipelines, jobs, workers, runs and failures (the transaction of a worker).
THEOREM ResultsOnceHolds == CsSpec => []ResultsOnce
<1>1. CsInv => ResultsOnce
  BY Zenon DEF CsInv
<1> QED
  BY <1>1, CsInvariant, PTL

-----------------------------------------------------------------------------
\* The pipelines that hold a connection, lost ones included, or will ask for one.
Claims == {p \in Pipelines : p \in conns \/ worker[p].at \in {"begin", "pipeline", "jobs"}}

\* Connections are lost only once the context is cancelled, and no pipeline
\* comes to ask for one after that.
ConnPlace ==
  /\ conns \subseteq Pipelines
  /\ ~cancelled => conns \subseteq Busy
  /\ \A p \in Pipelines : worker[p].at \in {"none", "fetch", "begin"} => p \notin conns
  /\ runner.at = "exited" => conns = {}

ConnInv == ConnPlace /\ Cardinality(Claims) <= MaxWorkers /\ Cardinality(Busy) <= MaxWorkers

\* Part of the workers is no more than they are.
LEMMA Fewer ==
  ASSUME NEW T \in SUBSET Pipelines, Cardinality(T) <= MaxWorkers, NEW S \in SUBSET T
  PROVE Cardinality(S) <= MaxWorkers
<1>1. IsFiniteSet(T)
  BY CciAssumption, FS_Subset, Zenon
<1>2. Cardinality(S) \in Nat /\ Cardinality(T) \in Nat /\ Cardinality(S) <= Cardinality(T)
  BY <1>1, FS_Subset, FS_CardinalityType, Zenon
<1>3. MaxWorkers \in Nat
  BY CciAssumption, Zenon
<1> QED
  BY <1>2, <1>3

\* A worker is taken on when there is one left.
LEMMA OneTaken ==
  ASSUME NEW T \in SUBSET Pipelines, Cardinality(T) < MaxWorkers, NEW p, NEW S \in SUBSET (T \union {p}), p \in Pipelines
  PROVE Cardinality(S) <= MaxWorkers
<1>1. IsFiniteSet(T)
  BY CciAssumption, FS_Subset, Zenon
<1>2. Cardinality(T) \in Nat /\ Cardinality(T \union {p}) \in {Cardinality(T), Cardinality(T) + 1}
  BY <1>1, FS_AddElement, FS_CardinalityType, Zenon
<1>3. MaxWorkers \in Nat
  BY CciAssumption, Zenon
<1>4. Cardinality(T \union {p}) <= MaxWorkers
  BY <1>2, <1>3
<1> QED
  BY <1>4, Fewer, Zenon

\* A step that takes on no worker and lets none ask.
LEMMA NoneAsks ==
  ASSUME ConnInv, ConnPlace', Claims' \subseteq Claims, Busy' \subseteq Busy
  PROVE ConnInv'
<1>1. Claims \in SUBSET Pipelines /\ Busy \in SUBSET Pipelines
  BY Zenon DEF Claims, Busy
<1> QED
  BY <1>1, Fewer, Zenon DEF ConnInv

\* A worker that has been taken on moves, to a step other than asking.
LEMMA WorkerLeaves ==
  ASSUME ConnInv, NEW p \in Pipelines, runner'.at = runner.at, worker[p].at \notin {"none", "done"},
         \A q \in Pipelines : q # p => worker'[q].at = worker[q].at /\ (q \in conns' <=> q \in conns),
         conns' \subseteq Pipelines, conns' \subseteq conns \/ runner.at # "exited",
         worker'[p].at \in {"pipeline", "jobs"} => worker[p].at \in {"begin", "pipeline", "jobs"},
         worker'[p].at \in {"pipeline", "jobs", "done"},
         p \in conns' => p \in conns \/ worker[p].at = "begin",
         ~cancelled' => ~cancelled /\ (worker'[p].at = "done" => p \notin conns')
  PROVE ConnInv'
<1>1. ConnPlace
  BY Zenon DEF ConnInv
<1>2. Claims' \subseteq Claims
  BY Zenon DEF Claims
<1>3. Busy' \subseteq Busy
  BY Zenon DEF Busy
<1>4. ~cancelled' => conns' \subseteq Busy'
  <2> SUFFICES ASSUME ~cancelled', NEW q \in conns' PROVE q \in Busy'
    BY Zenon
  <2>1. CASE q = p
    BY <2>1, Zenon DEF Busy
  <2>2. CASE q # p
    <3>1. q \in Busy
      BY <1>1, <2>2, Zenon DEF ConnPlace
    <3> QED
      BY <2>2, <3>1, Zenon DEF Busy
  <2> QED
    BY <2>1, <2>2, Zenon
<1>5. \A q \in Pipelines : worker'[q].at \in {"none", "fetch", "begin"} => q \notin conns'
  BY <1>1, Zenon DEF ConnPlace
<1>6. runner'.at = "exited" => conns' = {}
  BY <1>1, Zenon DEF ConnPlace
<1>7. ConnPlace'
  BY <1>4, <1>5, <1>6, Zenon DEF ConnPlace
<1> QED
  BY <1>2, <1>3, <1>7, NoneAsks, Zenon

\* What Goto does.
LEMMA Went ==
  ASSUME CsTypes, NEW p \in Pipelines, NEW at, Goto(p, at)
  PROVE worker'[p].at = at /\ \A q \in Pipelines : q # p => worker'[q] = worker[q]
BY Zenon DEF CsTypes, Goto

\* The pool takes a worker on.
LEMMA ConnGo ==
  ASSUME CsInv, ConnInv, NEW p \in Pipelines, Go(p)
  PROVE ConnInv'
<1>1. /\ worker \in [Pipelines -> [at : WorkerSteps, jobs : SUBSET Jobs, tests : SUBSET Jobs]]
      /\ runner \in [at : {"exited", "running", "closing"}, todo : SUBSET Pipelines]
      /\ ConnPlace
  BY Zenon DEF CsInv, CsTypes, ConnInv
<1>2. /\ runner' = [runner EXCEPT !.todo = @ \ {p}] /\ Goto(p, "fetch") /\ UNCHANGED <<conns, cancelled>>
      /\ Cardinality(Busy) < MaxWorkers /\ p \in runner.todo
  BY Zenon DEF Go, Goto
<1>3. /\ worker'[p].at = "fetch" /\ \A q \in Pipelines : q # p => worker'[q] = worker[q]
      /\ runner'.at = runner.at
  BY <1>1, <1>2, Went, Zenon DEF CsInv
<1>4. Claims' \subseteq Claims /\ Busy' \subseteq Busy \union {p} /\ Busy \subseteq Pipelines /\ Claims \subseteq Pipelines
  BY <1>2, <1>3, Zenon DEF Claims, Busy
<1>5. ConnPlace'
  <2>1. Busy \subseteq Busy'
    BY <1>3, Zenon DEF Busy
  <2>2. worker[p].at = "none"
    BY <1>2, Zenon DEF CsInv, NoneForgotten
  <2>3. \A q \in Pipelines : worker'[q].at \in {"none", "fetch", "begin"} => q \notin conns
    BY <1>1, <1>3, <2>2, Zenon DEF ConnPlace
  <2> QED
    BY <1>1, <1>2, <1>3, <2>1, <2>3, Zenon DEF ConnPlace
<1>6. Cardinality(Claims') <= MaxWorkers
  BY <1>4, Fewer, Zenon DEF ConnInv
<1>7. Cardinality(Busy') <= MaxWorkers
  BY <1>2, <1>4, OneTaken, Zenon
<1> QED
  BY <1>5, <1>6, <1>7, Zenon DEF ConnInv

\* A worker comes to ask while nothing has failed: each connection that is
\* taken is the one of a worker.
LEMMA ConnAsks ==
  ASSUME CsInv, ConnInv, NEW p \in Pipelines, fetchWorkflows(p)
  PROVE ConnInv'
<1>1. /\ worker[p].at = "fetch" /\ ~cancelled /\ UNCHANGED <<conns, cancelled, runner>>
      /\ \E at \in {"begin", "done"} : Goto(p, at)
  BY Zenon DEF fetchWorkflows
<1>2. worker'[p].at \in {"begin", "done"} /\ \A q \in Pipelines : q # p => worker'[q] = worker[q]
  BY <1>1, Went, Zenon DEF CsInv
<1>3. ConnPlace /\ conns \subseteq Busy /\ p \notin conns
  BY <1>1, Zenon DEF ConnInv, ConnPlace
<1>4. Busy' \subseteq Busy /\ Claims' \subseteq Busy /\ Busy \subseteq Pipelines
  BY <1>1, <1>2, <1>3, Zenon DEF Busy, Claims
<1>5. ConnPlace'
  <2>1. conns \subseteq Busy'
    BY <1>2, <1>3, Zenon DEF Busy
  <2> QED
    BY <1>1, <1>2, <1>3, <2>1, Zenon DEF ConnPlace
<1> QED
  BY <1>4, <1>5, Fewer, Zenon DEF ConnInv

\* The other steps of a worker.
LEMMA ConnWorks ==
  ASSUME CsInv, ConnInv, NEW p \in Pipelines,
         \/ FetchFails(p) \/ Begin(p) \/ InsertPipeline(p) \/ InsertFails(p) \/ Commit(p)
         \/ \E j \in Jobs : InsertJob(p, j) \/ InsertTestResult(p, j)
  PROVE ConnInv'
<1>1. CsTypes /\ conns \subseteq Pipelines
  BY Zenon DEF CsInv, ConnInv, ConnPlace
<1>2. CASE FetchFails(p) \/ InsertFails(p)
  <2>1. /\ worker[p].at \in {"fetch", "begin", "pipeline", "jobs"} /\ Goto(p, "done") /\ cancelled'
        /\ UNCHANGED <<runner, conns>>
    BY <1>2, Zenon DEF FetchFails, InsertFails
  <2>2. worker'[p].at = "done" /\ \A q \in Pipelines : q # p => worker'[q] = worker[q]
    BY <1>1, <2>1, Went, Zenon
  <2> QED
    BY <1>1, <2>1, <2>2, WorkerLeaves, Zenon
<1>3. CASE Begin(p)
  <2>1. worker[p].at = "begin" /\ UNCHANGED runner
    BY <1>3, Zenon DEF Begin
  <2>2. CASE runner.at = "running" /\ Goto(p, "pipeline") /\ conns' = conns \union {p} /\ UNCHANGED cancelled
    <3>1. worker'[p].at = "pipeline" /\ \A q \in Pipelines : q # p => worker'[q] = worker[q]
      BY <1>1, <2>2, Went, Zenon
    <3> QED
      BY <1>1, <2>1, <2>2, <3>1, WorkerLeaves, Zenon
  <2>3. CASE Goto(p, "done") /\ cancelled' /\ UNCHANGED conns
    <3>1. worker'[p].at = "done" /\ \A q \in Pipelines : q # p => worker'[q] = worker[q]
      BY <1>1, <2>3, Went, Zenon
    <3> QED
      BY <1>1, <2>1, <2>3, <3>1, WorkerLeaves, Zenon
  <2> QED
    BY <1>3, <2>2, <2>3, Zenon DEF Begin
<1>4. CASE InsertPipeline(p)
  <2>1. worker[p].at = "pipeline" /\ Goto(p, "jobs") /\ UNCHANGED <<runner, conns, cancelled>>
    BY <1>4, Zenon DEF InsertPipeline
  <2>2. worker'[p].at = "jobs" /\ \A q \in Pipelines : q # p => worker'[q] = worker[q]
    BY <1>1, <2>1, Went, Zenon
  <2> QED
    BY <1>1, <2>1, <2>2, WorkerLeaves, Zenon
<1>5. ASSUME NEW j \in Jobs, InsertJob(p, j) \/ InsertTestResult(p, j) PROVE ConnInv'
  <2>1. worker[p].at = "jobs" /\ UNCHANGED <<runner, conns, cancelled>>
    BY <1>5, Zenon DEF InsertJob, InsertTestResult
  <2>2. worker \in [Pipelines -> [at : WorkerSteps, jobs : SUBSET Jobs, tests : SUBSET Jobs]]
    BY <1>1, Zenon DEF CsTypes
  <2>3. \/ worker' = [worker EXCEPT ![p].jobs = @ \union {j}]
        \/ worker' = [worker EXCEPT ![p].tests = @ \union {j}]
    BY <1>5, Zenon DEF InsertJob, InsertTestResult
  <2>4. worker'[p].at = "jobs" /\ \A q \in Pipelines : q # p => worker'[q] = worker[q]
    BY <2>1, <2>2, <2>3, SMT
  <2> QED
    BY <1>1, <2>1, <2>4, WorkerLeaves, Zenon
<1>6. CASE Commit(p)
  <2>1. worker[p].at = "jobs" /\ Goto(p, "done") /\ conns' = conns \ {p} /\ UNCHANGED runner /\ (~cancelled' => ~cancelled)
    BY <1>6, Zenon DEF Commit
  <2>2. worker'[p].at = "done" /\ \A q \in Pipelines : q # p => worker'[q] = worker[q]
    BY <1>1, <2>1, Went, Zenon
  <2> QED
    BY <1>1, <2>1, <2>2, WorkerLeaves, Zenon
<1> QED
  BY <1>2, <1>3, <1>4, <1>5, <1>6, Zenon

\* A run begins and ends with every connection back.
LEMMA ConnRun ==
  ASSUME CsInv, ConnInv, \/ GenerateReport \/ ListFails \/ Interrupt \/ Wait \/ CloseDb \/ Kill
                         \/ \E p \in Pipelines : Ends(p)
  PROVE ConnInv'
<1>1. ConnPlace /\ runner \in [at : {"exited", "running", "closing"}, todo : SUBSET Pipelines]
  BY Zenon DEF ConnInv, CsInv, CsTypes
<1>2. CASE GenerateReport \/ CloseDb \/ Kill
  <2>1. conns' = {} /\ worker' = [p \in Pipelines |-> NoWork]
    <3>1. runner = Exited => runner.at = "exited"
      BY SMT DEF Exited
    <3> QED
      BY <1>1, <1>2, <3>1, Zenon DEF GenerateReport, CloseDb, Kill, ConnPlace
  <2>2. \A p \in Pipelines : worker'[p].at = "none"
    BY <2>1, Zenon DEF NoWork
  <2>3. Claims' \subseteq Claims /\ Busy' \subseteq Busy
    BY <2>1, <2>2, Zenon DEF Claims, Busy
  <2>4. ConnPlace'
    BY <2>1, Zenon DEF ConnPlace
  <2> QED
    BY <2>3, <2>4, NoneAsks, Zenon
<1>3. CASE ListFails \/ Interrupt \/ Wait \/ \E p \in Pipelines : Ends(p)
  <2>1. /\ UNCHANGED <<conns, worker>> /\ (~cancelled' => ~cancelled)
        /\ runner'.at = "exited" => runner.at = "exited"
    <3>1. runner' = [runner EXCEPT !.at = "closing"] => runner'.at = "closing"
      BY <1>1, SMT
    <3>2. runner' = [at |-> "closing", todo |-> {}] => runner'.at = "closing"
      BY SMT
    <3>3. CASE ListFails
      BY <3>2, <3>3, Zenon DEF ListFails
    <3>4. CASE Interrupt \/ Wait
      <4>1. UNCHANGED <<conns, worker>> /\ (cancelled' \/ cancelled' = cancelled)
            /\ runner' = [runner EXCEPT !.at = "closing"]
        BY <3>4, Zenon DEF Interrupt, Wait
      <4> QED
        BY <3>1, <4>1, SMT
    <3>5. CASE \E p \in Pipelines : Ends(p)
      <4>1. UNCHANGED <<conns, worker, cancelled, runner>>
        BY <3>5, Zenon DEF Ends
      <4> QED
        BY <4>1, SMT
    <3> QED
      BY <1>3, <3>3, <3>4, <3>5, Zenon
  <2>2. Claims' = Claims /\ Busy' = Busy
    BY <2>1, Zenon DEF Claims, Busy
  <2>3. ConnPlace'
    BY <1>1, <2>1, <2>2, Zenon DEF ConnPlace
  <2> QED
    BY <2>2, <2>3, NoneAsks, Zenon
<1> QED
  BY <1>2, <1>3, Zenon

\* BeginFindsConnection, for any number of pipelines, jobs, workers, connections,
\* runs and failures: a pool with a connection for every worker never makes one wait.
THEOREM BeginFindsConnectionHolds == CsSpec => []BeginFindsConnection
<1>1. CsInit => ConnInv
  <2> SUFFICES ASSUME CsInit PROVE ConnInv
    BY Zenon
  <2>1. conns = {} /\ \A p \in Pipelines : worker[p].at = "none"
    BY Zenon DEF CsInit, NoWork
  <2>2. Claims = {} /\ Busy = {}
    BY <2>1, Zenon DEF Claims, Busy
  <2>3. Cardinality({}) = 0 /\ MaxWorkers \in Nat
    BY CciAssumption, FS_EmptySet, Zenon
  <2>4. Cardinality({}) <= MaxWorkers
    BY <2>3
  <2>5. ConnPlace
    BY <2>1, Zenon DEF ConnPlace
  <2> QED
    BY <2>2, <2>4, <2>5, Zenon DEF ConnInv
<1>2. CsInv /\ ConnInv /\ [CsNext]_csVars => ConnInv'
  <2> SUFFICES ASSUME CsInv, ConnInv, [CsNext]_csVars PROVE ConnInv'
    BY Zenon
  <2>1. CASE UNCHANGED csVars
    BY <2>1, Zenon DEF csVars, ConnInv, ConnPlace, Claims, Busy
  <2>2. CASE \E p \in Pipelines : Processing(p)
    BY <2>2, ConnGo, ConnAsks, ConnWorks, Zenon DEF Processing
  <2> QED
    BY <2>1, <2>2, ConnRun, Zenon DEF CsNext
<1>3. ConnInv => BeginFindsConnection
  <2> SUFFICES ASSUME ConnInv, NEW p \in Pipelines, worker[p].at = "begin" PROVE Cardinality(conns) < MaxWorkers
    BY Zenon DEF BeginFindsConnection
  <2>1. p \notin conns /\ conns \subseteq Claims /\ p \in Claims /\ Claims \subseteq Pipelines
    BY Zenon DEF ConnInv, ConnPlace, Claims
  <2>2. IsFiniteSet(Claims)
    BY <2>1, CciAssumption, FS_Subset, Zenon
  <2>3. conns \subseteq Claims /\ conns # Claims
    BY <2>1, Zenon
  <2>4. Cardinality(conns) \in Nat /\ Cardinality(Claims) \in Nat /\ Cardinality(conns) <= Cardinality(Claims)
        /\ Cardinality(conns) # Cardinality(Claims)
    BY <2>2, <2>3, FS_Subset, FS_CardinalityType, Zenon
  <2>5. Cardinality(Claims) <= MaxWorkers /\ MaxWorkers \in Nat
    BY CciAssumption, Zenon DEF ConnInv
  <2> QED
    BY <2>4, <2>5
<1> QED
  BY <1>1, <1>2, <1>3, CsInvariant, PTL DEF CsSpec

-----------------------------------------------------------------------------
(***************************************************************************)
(* Nat: the place in the suites tells which tests have run, and a test     *)
(* that passed has its transactions confirmed, since the heights of a      *)
(* chain are too small for their difference to wrap.                       *)
(***************************************************************************)

(* op-nat. *)

TestNames == {"blocknumber", "chainid", "deposit", "transfer", "fuzz"}
Outcomes == {"pass", "fail"}
Leaf == TestNames \X Outcomes
Suite == [result : Outcomes, tests : Seq(Leaf)]

\* The suites' tests that have run before a suite, and the tests there are.
Before ==
  << {}, {"blocknumber", "chainid"}, {"blocknumber", "chainid", "deposit"},
     {"blocknumber", "chainid", "deposit", "transfer"}, TestNames >>
Places == {<<1, 1>>, <<1, 2>>, <<2, 1>>, <<3, 1>>, <<4, 1>>}
Amid == {"run", "pre", "send", "poll", "post"}

RangeOf(s) == {s[i] : i \in DOMAIN s}
LeavesOf(ss) == UNION {RangeOf(s.tests) : s \in RangeOf(ss)}
NamesOf(ls) == {l[1] : l \in ls}

NatTypes ==
  /\ DOMAIN nat = DOMAIN NoTest /\ nat.net \in 1 .. 2
  /\ leaves \in Seq(Leaf) /\ suites \in Seq(Suite)

\* Where the run is: the tests of the suites that ended, and those of the suite
\* that is under way, are the ones before it.
NatPlace ==
  \/ nat.pc = "start" /\ leaves = << >> /\ suites = << >> /\ report = "none"
  \/ /\ nat.pc \in Amid /\ <<nat.suite, nat.test>> \in Places /\ report = "none"
     /\ NamesOf(LeavesOf(suites)) = Before[nat.suite]
     /\ NamesOf(RangeOf(leaves)) = IF nat.test = 2 THEN {"blocknumber"} ELSE {}
  \/ /\ nat.pc = "done" /\ leaves = << >> /\ NamesOf(LeavesOf(suites)) = TestNames
     /\ report \in Outcomes
     /\ report = "fail" <=> \E s \in RangeOf(suites) : s.result = "fail"

SuitesTrue ==
  \A s \in RangeOf(suites) : s.result = "fail" <=> \E l \in RangeOf(s.tests) : l[2] = "fail"

\* What a test that passed, or is about to, says of the money.
Moved(test, m) ==
  /\ test = "transfer" => \A n \in {"L1", "L2A"} : <<"transfer", n>> \in m
  /\ test = "deposit" => <<"deposit", "L1">> \in m
Money ==
  /\ \A l \in LeavesOf(suites) \union RangeOf(leaves) : l[2] = "pass" => Moved(l[1], Confirmed)
  /\ nat.pc \in Amid /\ Test = "transfer" /\ nat.net = 2 => <<"transfer", "L1">> \in Confirmed
  /\ nat.pc \in Amid /\ Test = "deposit" => nat.net = 1
  /\ nat.pc = "post" => Test \in {"transfer", "deposit"} /\ Tx \in Confirmed
  /\ nat.pc \in {"pre", "send", "poll"} => Test \in {"transfer", "deposit"}

NatInv == NatTypes /\ NatPlace /\ SuitesTrue /\ Money

\* The chains: no block beyond the bound, no transaction in a block to come.
Heights ==
  /\ DOMAIN head = {"L1", "L2A"}
  /\ \A n \in {"L1", "L2A"} : head[n] \in Nat /\ head[n] <= MaxHead[n]
  /\ \A t \in DOMAIN mined : t[2] \in {"L1", "L2A"} /\ mined[t] \in Nat /\ mined[t] <= head[t[2]]

\* A difference of two heights does not wrap.
LEMMA NoWrap ==
  ASSUME NEW h \in Nat, NEW m \in Nat, NEW w \in Nat, NEW c \in Nat, m <= h, h < w, (h - m) % w >= c
  PROVE h >= m + c
<1>1. h - m \in 0 .. w - 1
  OBVIOUS
<1>2. (h - m) % w = h - m
  BY <1>1
<1> QED
  BY <1>2

\* What is confirmed stays so while the networks do.
LEMMA Still ==
  ASSUME UNCHANGED <<head, mined, blind>>
  PROVE Confirmed \subseteq Confirmed'
BY Zenon DEF Confirmed

\* What a block does to the chains.
LEMMA Mines ==
  ASSUME Heights, NEW n \in {"L1", "L2A"}, Mine(n)
  PROVE /\ DOMAIN head' = {"L1", "L2A"} /\ head'[n] = head[n] + 1 /\ head[n] < MaxHead[n]
        /\ \A m \in {"L1", "L2A"} : m # n => head'[m] = head[m]
        /\ DOMAIN mined \subseteq DOMAIN mined' /\ \A t \in DOMAIN mined : mined'[t] = mined[t]
        /\ \A t \in DOMAIN mined' \ DOMAIN mined : t[2] = n /\ mined'[t] = head[n] + 1
<1>1. /\ DOMAIN head' = {"L1", "L2A"} /\ head'[n] = head[n] + 1 /\ head[n] < MaxHead[n]
      /\ \A m \in {"L1", "L2A"} : m # n => head'[m] = head[m]
  BY Zenon DEF Mine, Heights
<1>2. PICK ts \in {{}, {t \in txs : t.id[2] = n /\ t.id \notin DOMAIN mined}} :
              mined' = [i \in DOMAIN mined \union {t.id : t \in ts} |->
                              IF i \in DOMAIN mined THEN mined[i] ELSE head[n] + 1]
  BY Zenon DEF Mine
<1>3. \A t \in ts : t.id[2] = n
  BY <1>2, Zenon
<1>4. DOMAIN mined' = DOMAIN mined \union {t.id : t \in ts}
  BY <1>2, Zenon
<1>5. \A t \in DOMAIN mined : mined'[t] = mined[t]
  BY <1>2, Zenon
<1>6. \A t \in DOMAIN mined' \ DOMAIN mined : t[2] = n /\ mined'[t] = head[n] + 1
  BY <1>2, <1>3, <1>4, Zenon
<1> QED
  BY <1>1, <1>4, <1>5, <1>6, Zenon

\* Only a block touches the chains.
LEMMA HeightsKeep == Heights /\ [NatNext]_natVars => Heights'
<1> SUFFICES ASSUME Heights, [NatNext]_natVars PROVE Heights'
  BY Zenon
<1>1. CASE UNCHANGED <<head, mined>>
  BY <1>1, Zenon DEF Heights
<1>2. CASE NatStep
  <2>1. UNCHANGED <<head, mined>>
    BY <1>2, Zenon DEF NatStep, StartNat, NatCallFails, Ask, Setup, ReadPre, Send, PollForConfirmations,
                       GiveUp, CheckTransfer, CheckDeposit, Spam, world
  <2> QED
    BY <1>1, <2>1, Zenon
<1>3. ASSUME NEW n \in {"L1", "L2A"}, Mine(n) PROVE Heights'
  <2>1. /\ DOMAIN head' = {"L1", "L2A"} /\ head'[n] = head[n] + 1 /\ head[n] < MaxHead[n]
        /\ \A m \in {"L1", "L2A"} : m # n => head'[m] = head[m]
        /\ DOMAIN mined \subseteq DOMAIN mined' /\ \A t \in DOMAIN mined : mined'[t] = mined[t]
        /\ \A t \in DOMAIN mined' \ DOMAIN mined : t[2] = n /\ mined'[t] = head[n] + 1
    BY <1>3, Mines, Zenon
  <2>2. \A m \in {"L1", "L2A"} : head[m] \in Nat /\ head[m] <= MaxHead[m] /\ MaxHead[m] \in Nat
    BY NatAssumption, Zenon DEF Heights
  <2>3. head'[n] \in Nat /\ head'[n] <= MaxHead[n] /\ head'[n] <= head'[n] /\ head[n] <= head'[n]
    BY <2>1, <2>2
  <2>4. \A m \in {"L1", "L2A"} : head'[m] \in Nat /\ head'[m] <= MaxHead[m]
    BY <2>1, <2>2, <2>3, Zenon
  <2>5. ASSUME NEW t \in DOMAIN mined' PROVE t[2] \in {"L1", "L2A"} /\ mined'[t] \in Nat /\ mined'[t] <= head'[t[2]]
    <3>1. CASE t \notin DOMAIN mined
      BY <2>1, <2>3, <3>1, Zenon
    <3>2. CASE t \in DOMAIN mined
      <4>1. t[2] \in {"L1", "L2A"} /\ mined[t] \in Nat /\ mined[t] <= head[t[2]] /\ mined'[t] = mined[t]
        BY <2>1, <3>2, Zenon DEF Heights
      <4>2. CASE t[2] # n
        BY <2>1, <4>1, <4>2, Zenon
      <4>3. CASE t[2] = n
        <5>1. mined[t] <= head[n] /\ head[n] \in Nat /\ head'[n] = head[n] + 1
          BY <2>1, <2>2, <4>1, <4>3, Zenon
        <5>2. mined[t] <= head'[n]
          BY <4>1, <5>1
        <5> QED
          BY <4>1, <4>3, <5>2, Zenon
      <4> QED
        BY <4>2, <4>3, Zenon
    <3> QED
      BY <3>1, <3>2, Zenon
  <2> QED
    BY <2>1, <2>4, <2>5, Zenon DEF Heights
<1> QED
  BY <1>1, <1>2, <1>3, Zenon DEF NatNext, natVars

\* A block on top takes no confirmation away.
LEMMA MineConfirms ==
  ASSUME Heights, NEW n \in {"L1", "L2A"}, Mine(n)
  PROVE Confirmed \subseteq Confirmed'
<1> SUFFICES ASSUME NEW t \in Confirmed PROVE t \in Confirmed'
  BY Zenon
<1>1. t \in DOMAIN mined /\ (t \in blind \/ head[t[2]] >= mined[t] + Confs(t[1])) /\ blind' = blind
  BY Zenon DEF Confirmed, Mine
<1>2. t \in DOMAIN mined' /\ mined'[t] = mined[t] /\ t[2] \in {"L1", "L2A"} /\ mined[t] \in Nat
      /\ head[t[2]] \in Nat /\ (head'[t[2]] = head[t[2]] \/ head'[t[2]] = head[t[2]] + 1)
  BY <1>1, Mines, Zenon DEF Heights
<1>3. Confs(t[1]) \in Nat
  BY DEF Confs
<1>4. PICK h, g, m, c : h = head[t[2]] /\ g = head'[t[2]] /\ m = mined[t] /\ c = Confs(t[1])
  BY Zenon
<1>5. h \in Nat /\ m \in Nat /\ c \in Nat /\ (g = h \/ g = h + 1)
  BY <1>2, <1>3, <1>4, Zenon
<1>6. h >= m + c => g >= m + c
  BY <1>5
<1> QED
  BY <1>1, <1>2, <1>4, <1>6, Zenon DEF Confirmed

\* A result joins those of its sequence.
LEMMA Joined ==
  ASSUME NEW X, NEW s \in Seq(X), NEW x \in X
  PROVE Append(s, x) \in Seq(X) /\ RangeOf(Append(s, x)) = RangeOf(s) \union {x}
<1> DEFINE t == Append(s, x)
<1>1. t \in Seq(X) /\ DOMAIN t = 1 .. Len(s) + 1 /\ DOMAIN s = 1 .. Len(s) /\ Len(s) \in Nat
  OBVIOUS
<1>2. (\A i \in 1 .. Len(s) : t[i] = s[i]) /\ t[Len(s) + 1] = x
  OBVIOUS
<1> HIDE DEF t
<1>3. \A i \in 1 .. Len(s) + 1 : i \in 1 .. Len(s) \/ i = Len(s) + 1
  BY <1>1
<1>4. Len(s) + 1 \in 1 .. Len(s) + 1 /\ \A i \in 1 .. Len(s) : i \in 1 .. Len(s) + 1
  BY <1>1
<1>5. RangeOf(t) = RangeOf(s) \union {x}
  BY <1>1, <1>2, <1>3, <1>4, Zenon DEF RangeOf
<1> QED
  BY <1>1, <1>5, Zenon DEF t

\* The results of a suite join those of the others.
LEMMA SuiteJoins ==
  ASSUME NEW ss \in Seq(Suite), NEW s \in Suite
  PROVE LeavesOf(Append(ss, s)) = LeavesOf(ss) \union RangeOf(s.tests)
<1>1. RangeOf(Append(ss, s)) = RangeOf(ss) \union {s}
  BY Joined
<1> QED
  BY <1>1, Zenon DEF LeavesOf

\* The names of results.
LEMMA NamesJoin ==
  ASSUME NEW S, NEW U
  PROVE NamesOf(S \union U) = NamesOf(S) \union NamesOf(U)
BY Zenon DEF NamesOf
\* The name of the one test of a set.
LEMMA NameOf ==
  ASSUME NEW x, NEW y
  PROVE NamesOf({<<x, y>>}) = {x}
BY DEF NamesOf

\* Overall fails if a result fails.
LEMMA OverallFails ==
  ASSUME NEW R, R \subseteq Outcomes
  PROVE Overall(R) \in Outcomes /\ (Overall(R) = "fail" <=> "fail" \in R)
<1>1. "skip" \notin R
  BY Zenon DEF Outcomes
<1> QED
  BY <1>1, Zenon DEF Overall, Outcomes

\* The tests of the gate, one after the other.
LEMMA GateTests ==
  /\ Len(Alphanet) = 4 /\ Len(Alphanet[1]) = 2 /\ Len(Alphanet[2]) = 1
  /\ Len(Alphanet[3]) = 1 /\ Len(Alphanet[4]) = 1
  /\ Alphanet[1][1] = "blocknumber" /\ Alphanet[1][2] = "chainid" /\ Alphanet[2][1] = "deposit"
  /\ Alphanet[3][1] = "transfer" /\ Alphanet[4][1] = "fuzz"
BY Zenon DEF Alphanet

\* A test begins on the first network.
LEMMA Begins ==
  ASSUME NEW s, NEW t, NEW pc
  PROVE LET n == [NoTest EXCEPT !.suite = s, !.test = t, !.pc = pc] IN
          DOMAIN n = DOMAIN NoTest /\ n.suite = s /\ n.test = t /\ n.pc = pc /\ n.net = 1
<1>1. PICK r : r = NoTest
  BY Zenon
<1>2. r.net = 1 /\ {"suite", "test", "pc", "net"} \subseteq DOMAIN r
  BY <1>1, Zenon DEF NoTest
<1> QED
  BY <1>1, <1>2, Zenon

\* What is known of the run while a test is under way.
LEMMA AtWork ==
  ASSUME NatInv, nat.pc \in Amid
  PROVE /\ <<nat.suite, nat.test>> \in Places /\ report = "none"
        /\ NamesOf(LeavesOf(suites)) = Before[nat.suite]
        /\ NamesOf(RangeOf(leaves)) = IF nat.test = 2 THEN {"blocknumber"} ELSE {}
        /\ Test \in TestNames
<1>1. nat.pc # "start" /\ nat.pc # "done"
  BY Zenon DEF Amid
<1>2. /\ <<nat.suite, nat.test>> \in Places /\ report = "none"
      /\ NamesOf(LeavesOf(suites)) = Before[nat.suite]
      /\ NamesOf(RangeOf(leaves)) = IF nat.test = 2 THEN {"blocknumber"} ELSE {}
  BY <1>1, Zenon DEF NatInv, NatPlace
<1>3. \/ nat.suite = 1 /\ nat.test = 1
      \/ nat.suite = 1 /\ nat.test = 2
      \/ nat.suite = 2 /\ nat.test = 1
      \/ nat.suite = 3 /\ nat.test = 1
      \/ nat.suite = 4 /\ nat.test = 1
  BY <1>2, Zenon DEF Places
<1>4. Test \in TestNames
  BY <1>3, GateTests, Zenon DEF Test, TestNames
<1> QED
  BY <1>2, <1>4, Zenon

\* A test ends, and its result is true: the next one begins, or the run ends.
LEMMA TestEndsInv ==
  ASSUME NatInv, nat.pc \in Amid, NEW pass \in BOOLEAN, TestEnds(pass), pass => Moved(Test, Confirmed),
         Confirmed \subseteq Confirmed'
  PROVE NatInv'
<1> DEFINE leaf == <<Test, IF pass THEN "pass" ELSE "fail">>
           ls == Append(leaves, leaf)
           suite == [result |-> Overall({l[2] : l \in {ls[i] : i \in DOMAIN ls}}), tests |-> ls]
           ss == Append(suites, suite)
           last == nat.test = Len(Alphanet[nat.suite])
           ended == last /\ nat.suite = Len(Alphanet)
<1>1. /\ nat' = IF ~last THEN [NoTest EXCEPT !.suite = nat.suite, !.test = nat.test + 1, !.pc = "run"]
               ELSE IF ~ended THEN [NoTest EXCEPT !.suite = nat.suite + 1, !.test = 1, !.pc = "run"]
               ELSE [NoTest EXCEPT !.pc = "done"]
      /\ leaves' = IF last THEN << >> ELSE ls
      /\ suites' = IF last THEN ss ELSE suites
      /\ report' = IF ended THEN Overall({ss[i].result : i \in DOMAIN ss}) ELSE report
  BY Zenon DEF TestEnds
<1>2. /\ <<nat.suite, nat.test>> \in Places /\ report = "none"
      /\ NamesOf(LeavesOf(suites)) = Before[nat.suite]
      /\ NamesOf(RangeOf(leaves)) = IF nat.test = 2 THEN {"blocknumber"} ELSE {}
      /\ Test \in TestNames
  BY AtWork, Zenon
<1>3. leaves \in Seq(Leaf) /\ suites \in Seq(Suite)
  BY Zenon DEF NatInv, NatTypes
<1>4. PICK o : o = (IF pass THEN "pass" ELSE "fail")
  BY Zenon
<1>5. o \in Outcomes /\ leaf = <<Test, o>> /\ leaf \in Leaf /\ (o = "pass" => pass)
  <2>1. o \in Outcomes /\ (o = "pass" => pass)
    BY <1>4, Zenon DEF Outcomes
  <2>2. leaf = <<Test, o>>
    BY <1>4, Zenon
  <2> QED
    BY <1>2, <2>1, <2>2, Zenon DEF Leaf
<1> HIDE DEF leaf
<1>6. ls \in Seq(Leaf) /\ RangeOf(ls) = RangeOf(leaves) \union {leaf}
  BY <1>3, <1>5, Joined
<1> HIDE DEF ls
<1>7. \A l \in RangeOf(ls) : l \in Leaf /\ l[2] \in Outcomes
  BY <1>6 DEF RangeOf, Leaf
<1>8. /\ suite \in Suite /\ suite.tests = ls
      /\ suite.result = "fail" <=> \E l \in RangeOf(ls) : l[2] = "fail"
  <2>1. PICK R : R = {l[2] : l \in {ls[i] : i \in DOMAIN ls}}
    BY Zenon
  <2>2. R \subseteq Outcomes
    BY <1>7, <2>1, Zenon DEF RangeOf
  <2>3. "fail" \in R <=> \E l \in RangeOf(ls) : l[2] = "fail"
    BY <2>1, Zenon DEF RangeOf
  <2>4. Overall(R) \in Outcomes /\ (Overall(R) = "fail" <=> "fail" \in R)
    BY <2>2, OverallFails, Zenon
  <2>5. suite = [result |-> Overall(R), tests |-> ls]
    BY <2>1, Zenon
  <2>6. suite.result = Overall(R) /\ suite.tests = ls
    BY <2>5, Zenon
  <2>7. suite \in Suite
    BY <1>6, <2>4, <2>5, Zenon DEF Suite
  <2> QED
    BY <2>3, <2>4, <2>6, <2>7, Zenon
<1> HIDE DEF suite
<1>9. ss \in Seq(Suite) /\ RangeOf(ss) = RangeOf(suites) \union {suite}
      /\ LeavesOf(ss) = LeavesOf(suites) \union RangeOf(ls)
  BY <1>3, <1>8, Joined, SuiteJoins
<1> HIDE DEF ss
<1>10. \A l \in LeavesOf(suites) \union RangeOf(ls) : l[2] = "pass" => Moved(l[1], Confirmed')
  <2>1. \A l \in LeavesOf(suites) \union RangeOf(leaves) : l[2] = "pass" => Moved(l[1], Confirmed)
    BY Zenon DEF NatInv, Money
  <2>2. leaf[1] = Test /\ leaf[2] = o
    BY <1>5, Zenon
  <2>3. leaf[2] = "pass" => Moved(leaf[1], Confirmed)
    BY <1>5, <2>2, Zenon
  <2>4. \A x : Moved(x, Confirmed) => Moved(x, Confirmed')
    BY Zenon DEF Moved
  <2> QED
    BY <1>6, <2>1, <2>3, <2>4, Zenon
<1>11. NamesOf(RangeOf(ls)) = NamesOf(RangeOf(leaves)) \union {Test}
  <2>1. NamesOf({leaf}) = {Test}
    BY <1>5, NameOf, Zenon
  <2>2. NamesOf(RangeOf(leaves) \union {leaf}) = NamesOf(RangeOf(leaves)) \union NamesOf({leaf})
    BY NamesJoin, Zenon
  <2> QED
    BY <1>6, <2>1, <2>2, Zenon
<1>12. NamesOf(LeavesOf(ss)) = Before[nat.suite] \union NamesOf(RangeOf(ls))
  BY <1>2, <1>9, NamesJoin
<1>13. \A s \in RangeOf(ss) : s.result = "fail" <=> \E l \in RangeOf(s.tests) : l[2] = "fail"
  BY <1>8, <1>9, Zenon DEF NatInv, SuitesTrue
<1>14. \/ nat.suite = 1 /\ nat.test = 1
       \/ nat.suite = 1 /\ nat.test = 2
       \/ nat.suite = 2 /\ nat.test = 1
       \/ nat.suite = 3 /\ nat.test = 1
       \/ nat.suite = 4 /\ nat.test = 1
  BY <1>2, Zenon DEF Places
<1>15. CASE ~last
  <2>1. nat.suite = 1 /\ nat.test = 1 /\ Test = "blocknumber"
    BY <1>14, <1>15, GateTests, Zenon DEF Test
  <2>2. ~ended
    BY <1>15, Zenon
  <2>3. leaves' = ls /\ suites' = suites /\ report' = report
    BY <1>1, <1>15, <2>2, Zenon
  <2>4. nat' = [NoTest EXCEPT !.suite = nat.suite, !.test = nat.test + 1, !.pc = "run"]
    BY <1>1, <1>15, Zenon
  <2>5. DOMAIN nat' = DOMAIN NoTest /\ nat'.suite = 1 /\ nat'.test = 2 /\ nat'.pc = "run" /\ nat'.net = 1
    BY <2>1, <2>4, Begins
  <2>6. Test' = "chainid"
    BY <2>5, GateTests, Zenon DEF Test
  <2> HIDE DEF last, ended
  <2>7. NatTypes'
    BY <1>3, <1>6, <2>3, <2>5 DEF NatTypes
  <2>8. NatPlace'
    <3>1. NamesOf(RangeOf(leaves)) = {} /\ Before[1] = {}
      BY <1>2, <2>1 DEF Before
    <3>2. NamesOf(RangeOf(ls)) = {"blocknumber"}
      BY <1>11, <2>1, <3>1, Zenon
    <3>3. nat'.pc \in Amid /\ <<nat'.suite, nat'.test>> \in Places /\ report' = "none"
      BY <1>2, <2>3, <2>5, Zenon DEF Amid, Places
    <3>4. NamesOf(LeavesOf(suites')) = Before[nat'.suite]
      BY <1>2, <2>1, <2>3, <2>5, Zenon
    <3>5. NamesOf(RangeOf(leaves')) = IF nat'.test = 2 THEN {"blocknumber"} ELSE {}
      BY <2>3, <2>5, <3>2, Zenon
    <3> QED
      BY <3>3, <3>4, <3>5, Zenon DEF NatPlace
  <2>9. SuitesTrue'
    BY <2>3, Zenon DEF NatInv, SuitesTrue
  <2>10. Money'
    <3>1. \A l \in LeavesOf(suites') \union RangeOf(leaves') : l[2] = "pass" => Moved(l[1], Confirmed')
      BY <1>10, <2>3, Zenon
    <3>2. Test' # "transfer" /\ Test' # "deposit" /\ nat'.pc # "post" /\ nat'.pc \notin {"pre", "send", "poll"}
      BY <2>5, <2>6, Zenon
    <3> QED
      BY <3>1, <3>2, Zenon DEF Money
  <2> QED
    BY <2>7, <2>8, <2>9, <2>10, Zenon DEF NatInv
<1>16. CASE last /\ ~ended
  <2>1. leaves' = <<>> /\ suites' = ss /\ report' = report
    BY <1>1, <1>16, Zenon
  <2>2. nat' = [NoTest EXCEPT !.suite = nat.suite + 1, !.test = 1, !.pc = "run"]
    BY <1>1, <1>16, Zenon
  <2>3. DOMAIN nat' = DOMAIN NoTest /\ nat'.suite = nat.suite + 1 /\ nat'.test = 1 /\ nat'.pc = "run" /\ nat'.net = 1
    BY <2>2, Begins
  <2>4. \/ nat.suite = 1 /\ nat.test = 2 /\ Test = "chainid"
        \/ nat.suite = 2 /\ nat.test = 1 /\ Test = "deposit"
        \/ nat.suite = 3 /\ nat.test = 1 /\ Test = "transfer"
    BY <1>14, <1>16, GateTests, Zenon DEF Test
  <2> HIDE DEF last, ended
  <2>5. NatTypes'
    BY <1>9, <2>1, <2>3 DEF NatTypes
  <2>6. NatPlace'
    <3>1. NamesOf(RangeOf(leaves)) = IF nat.test = 2 THEN {"blocknumber"} ELSE {}
      BY <1>2, Zenon
    <3>2. Before[nat.suite] \union NamesOf(RangeOf(ls)) = Before[nat.suite + 1]
      BY <1>11, <2>4, <3>1 DEF Before
    <3>3. nat'.pc \in Amid /\ <<nat'.suite, nat'.test>> \in Places /\ report' = "none"
      BY <1>2, <2>1, <2>3, <2>4 DEF Amid, Places
    <3>4. NamesOf(LeavesOf(suites')) = Before[nat'.suite]
      BY <1>12, <2>1, <2>3, <3>2, Zenon
    <3>5. NamesOf(RangeOf(leaves')) = {} /\ nat'.test # 2
      BY <2>1, <2>3 DEF NamesOf, RangeOf
    <3> QED
      BY <3>3, <3>4, <3>5, Zenon DEF NatPlace
  <2>7. SuitesTrue'
    BY <1>13, <2>1, Zenon DEF SuitesTrue
  <2>8. Money'
    <3>1. RangeOf(leaves') = {}
      BY <2>1 DEF RangeOf
    <3>2. \A l \in LeavesOf(suites') \union RangeOf(leaves') : l[2] = "pass" => Moved(l[1], Confirmed')
      BY <1>9, <1>10, <2>1, <3>1, Zenon
    <3>3. nat'.net # 2 /\ nat'.net = 1 /\ nat'.pc # "post" /\ nat'.pc \notin {"pre", "send", "poll"}
      BY <2>3
    <3> QED
      BY <3>2, <3>3, Zenon DEF Money
  <2> QED
    BY <2>5, <2>6, <2>7, <2>8, Zenon DEF NatInv
<1>17. CASE ended
  <2>0. last
    BY <1>17, Zenon
  <2>1. leaves' = <<>> /\ suites' = ss /\ report' = Overall({ss[i].result : i \in DOMAIN ss})
    BY <1>1, <1>17, <2>0, Zenon
  <2>2. nat' = [NoTest EXCEPT !.pc = "done"]
    BY <1>1, <1>17, <2>0, Zenon
  <2>3. DOMAIN nat' = DOMAIN NoTest /\ nat'.pc = "done" /\ nat'.net = 1
    <3>1. PICK r : r = NoTest
      BY Zenon
    <3>2. r.net = 1 /\ {"suite", "test", "pc", "net"} \subseteq DOMAIN r
      BY <3>1, Zenon DEF NoTest
    <3> QED
      BY <2>2, <3>1, <3>2, Zenon
  <2>4. nat.suite = 4 /\ nat.test = 1 /\ Test = "fuzz"
    BY <1>14, <1>17, GateTests, Zenon DEF Test
  <2> HIDE DEF last, ended
  <2>5. NatTypes'
    BY <1>9, <2>1, <2>3 DEF NatTypes
  <2>6. NatPlace'
    <3>1. NamesOf(RangeOf(leaves)) = {}
      BY <1>2, <2>4
    <3>2. Before[nat.suite] \union NamesOf(RangeOf(ls)) = TestNames
      BY <1>11, <2>4, <3>1 DEF Before, TestNames
    <3>3. PICK R : R = {ss[i].result : i \in DOMAIN ss}
      BY Zenon
    <3>4. \A s \in RangeOf(ss) : s.result \in Outcomes
      <4>1. \A s \in RangeOf(ss) : s \in Suite
        BY <1>9 DEF RangeOf
      <4>2. \A s \in Suite : s.result \in Outcomes
        BY Zenon DEF Suite
      <4> QED
        BY <4>1, <4>2, Zenon
    <3>5. R \subseteq Outcomes
      BY <3>3, <3>4, Zenon DEF RangeOf
    <3>6. "fail" \in R <=> \E s \in RangeOf(ss) : s.result = "fail"
      BY <3>3, Zenon DEF RangeOf
    <3>7. Overall(R) \in Outcomes /\ (Overall(R) = "fail" <=> "fail" \in R)
      BY <3>5, OverallFails, Zenon
    <3>8. report' = Overall(R)
      BY <2>1, <3>3, Zenon
    <3>9. NamesOf(LeavesOf(suites')) = TestNames
      BY <1>12, <2>1, <3>2, Zenon
    <3> QED
      BY <2>1, <2>3, <3>6, <3>7, <3>8, <3>9, Zenon DEF NatPlace
  <2>7. SuitesTrue'
    BY <1>13, <2>1, Zenon DEF SuitesTrue
  <2>8. Money'
    <3>1. RangeOf(leaves') = {}
      BY <2>1 DEF RangeOf
    <3>2. \A l \in LeavesOf(suites') \union RangeOf(leaves') : l[2] = "pass" => Moved(l[1], Confirmed')
      BY <1>9, <1>10, <2>1, <3>1, Zenon
    <3>3. nat'.pc \notin Amid /\ nat'.pc # "post" /\ nat'.pc \notin {"pre", "send", "poll"}
      BY <2>3, Zenon DEF Amid
    <3> QED
      BY <3>2, <3>3, Zenon DEF Money
  <2> QED
    BY <2>5, <2>6, <2>7, <2>8, Zenon DEF NatInv
<1> QED
  BY <1>15, <1>16, <1>17, Zenon

\* A step of a test that goes on: it stays where the run is.
LEMMA GoesOn ==
  ASSUME NatInv, nat.pc \in Amid, Stays, Confirmed \subseteq Confirmed',
         DOMAIN nat' = DOMAIN nat, nat'.suite = nat.suite, nat'.test = nat.test, nat'.pc \in Amid,
         nat'.net \in 1 .. 2,
         Test = "transfer" /\ nat'.net = 2 => <<"transfer", "L1">> \in Confirmed,
         Test = "deposit" => nat'.net = 1,
         nat'.pc # "run" => Test \in {"transfer", "deposit"},
         nat'.pc = "post" => <<Test, Networks[nat'.net]>> \in Confirmed'
  PROVE NatInv'
<1>1. leaves' = leaves /\ suites' = suites /\ report' = report
  BY Zenon DEF Stays
<1>2. Test' = Test /\ Tx' = <<Test, Networks[nat'.net]>>
  BY Zenon DEF Test, Tx, Net
<1>3. NatTypes'
  BY <1>1, Zenon DEF NatInv, NatTypes
<1>4. NatPlace'
  <2>1. /\ <<nat.suite, nat.test>> \in Places /\ report = "none"
        /\ NamesOf(LeavesOf(suites)) = Before[nat.suite]
        /\ NamesOf(RangeOf(leaves)) = IF nat.test = 2 THEN {"blocknumber"} ELSE {}
    BY AtWork, Zenon
  <2> QED
    BY <1>1, <2>1, Zenon DEF NatPlace
<1>5. SuitesTrue'
  BY <1>1, Zenon DEF NatInv, SuitesTrue
<1>6. Money'
  <2>1. \A l \in LeavesOf(suites') \union RangeOf(leaves') : l[2] = "pass" => Moved(l[1], Confirmed')
    <3>1. \A x : Moved(x, Confirmed) => Moved(x, Confirmed')
      BY Zenon DEF Moved
    <3> QED
      BY <1>1, <3>1, Zenon DEF NatInv, Money
  <2>2. nat'.pc \in {"pre", "send", "poll", "post"} => nat'.pc # "run"
    BY Zenon
  <2>3. nat'.pc = "post" => nat'.pc # "run"
    BY Zenon
  <2>4. nat'.pc \in {"pre", "send", "poll"} => nat'.pc # "run"
    BY Zenon
  <2> QED
    BY <1>2, <2>1, <2>3, <2>4, Zenon DEF Money
<1> QED
  BY <1>3, <1>4, <1>5, <1>6, Zenon DEF NatInv

\* The loop over the networks goes on, or ends the test.
LEMMA NextNetworkInv ==
  ASSUME NatInv, nat.pc \in Amid, NextNetwork, Confirmed \subseteq Confirmed', Test # "deposit",
         Test = "transfer" => <<"transfer", Networks[nat.net]>> \in Confirmed
  PROVE NatInv'
<1>1. Len(Networks) = 2 /\ Networks[1] = "L1" /\ Networks[2] = "L2A"
  BY Zenon DEF Networks
<1>2. nat.net \in {1, 2} /\ DOMAIN nat = DOMAIN NoTest
  BY DEF NatInv, NatTypes
<1>3. CASE nat.net = 2
  <2>1. TestEnds(TRUE)
    BY <1>1, <1>3, Zenon DEF NextNetwork
  <2>2. Test = "transfer" => <<"transfer", "L1">> \in Confirmed
    BY <1>3, Zenon DEF NatInv, Money
  <2>3. Test = "transfer" => <<"transfer", "L2A">> \in Confirmed
    BY <1>1, <1>3, Zenon
  <2>4. Moved(Test, Confirmed)
    BY <2>2, <2>3, Zenon DEF Moved
  <2> QED
    BY <2>1, <2>4, TestEndsInv, Zenon
<1>4. CASE nat.net = 1
  <2>1. Stays /\ nat' = [nat EXCEPT !.net = @ + 1, !.pc = "run", !.round = 0]
    BY <1>1, <1>4, Zenon DEF NextNetwork
  <2>2. DOMAIN nat' = DOMAIN nat /\ nat'.suite = nat.suite /\ nat'.test = nat.test /\ nat'.pc = "run" /\ nat'.net = 2
    <3>1. {"suite", "test", "pc", "net", "round"} \subseteq DOMAIN nat
      BY <1>2, Zenon DEF NoTest
    <3> QED
      BY <1>4, <2>1, <3>1
  <2>3. nat'.pc \in Amid /\ nat'.net \in 1 .. 2
    BY <2>2 DEF Amid
  <2>4. Test = "transfer" => <<"transfer", "L1">> \in Confirmed
    BY <1>1, <1>4, Zenon
  <2> QED
    BY <2>1, <2>2, <2>3, <2>4, GoesOn, Zenon
<1> QED
  BY <1>2, <1>3, <1>4, Zenon

\* The networks mine: what is confirmed stays so.
LEMMA MineInv ==
  ASSUME NatInv, Heights, NEW n \in {"L1", "L2A"}, Mine(n)
  PROVE NatInv'
<1>1. Confirmed \subseteq Confirmed'
  BY MineConfirms, Zenon
<1>2. UNCHANGED <<nat, leaves, suites, report>>
  BY Zenon DEF Mine
<1>3. \A x : Moved(x, Confirmed) => Moved(x, Confirmed')
  BY <1>1, Zenon DEF Moved
<1>4. NatTypes' /\ NatPlace' /\ SuitesTrue'
  BY <1>2, Zenon DEF NatInv, NatTypes, NatPlace, SuitesTrue
<1>5. Test' = Test /\ Tx' = Tx
  BY <1>2, Zenon DEF Test, Tx, Net
<1>6. Money'
  <2>1. \A l \in LeavesOf(suites') \union RangeOf(leaves') : l[2] = "pass" => Moved(l[1], Confirmed')
    BY <1>2, <1>3, Zenon DEF NatInv, Money
  <2> QED
    BY <1>1, <1>2, <1>5, <2>1, Zenon DEF NatInv, Money
<1> QED
  BY <1>4, <1>6, Zenon DEF NatInv

\* A test that fails, whatever it did.
LEMMA FailsInv ==
  ASSUME NatInv, nat.pc \in Amid, TestEnds(FALSE), Confirmed \subseteq Confirmed'
  PROVE NatInv'
BY TestEndsInv, Zenon

\* The steps of a test that keep its network: fields of the run.
LEMMA RunFields ==
  ASSUME NatInv
  PROVE /\ DOMAIN nat = {"suite", "test", "pc", "net", "from", "to", "pre", "round", "l1Diff", "l2Diff"}
        /\ nat.net \in {1, 2} /\ nat.net \in 1 .. 2
        /\ nat.pc \in Amid => /\ Test = "transfer" /\ nat.net = 2 => <<"transfer", "L1">> \in Confirmed
                              /\ Test = "deposit" => nat.net = 1
        /\ nat.pc \in {"pre", "send", "poll"} => Test \in {"transfer", "deposit"} /\ nat.pc \in Amid
        /\ nat.pc = "post" => /\ Test \in {"transfer", "deposit"} /\ nat.pc \in Amid
                              /\ <<Test, Networks[nat.net]>> \in Confirmed
<1>1. DOMAIN NoTest = {"suite", "test", "pc", "net", "from", "to", "pre", "round", "l1Diff", "l2Diff"}
  BY Zenon DEF NoTest
<1>2. nat.net \in {1, 2} /\ nat.net \in 1 .. 2 /\ DOMAIN nat = DOMAIN NoTest
  BY DEF NatInv, NatTypes
<1>3. nat.pc \in Amid => /\ Test = "transfer" /\ nat.net = 2 => <<"transfer", "L1">> \in Confirmed
                         /\ Test = "deposit" => nat.net = 1
  BY Zenon DEF NatInv, Money
<1>4. nat.pc \in {"pre", "send", "poll"} => Test \in {"transfer", "deposit"} /\ nat.pc \in Amid
  <2>1. nat.pc \in {"pre", "send", "poll"} => Test \in {"transfer", "deposit"}
    BY Zenon DEF NatInv, Money
  <2> QED
    BY <2>1, Zenon DEF Amid
<1>5. nat.pc = "post" => /\ Test \in {"transfer", "deposit"} /\ nat.pc \in Amid
                         /\ <<Test, Networks[nat.net]>> \in Confirmed
  <2>1. nat.pc = "post" => Test \in {"transfer", "deposit"} /\ Tx \in Confirmed
    BY Zenon DEF NatInv, Money
  <2> QED
    BY <2>1, Zenon DEF Amid, Tx, Net
<1> QED
  BY <1>1, <1>2, <1>3, <1>4, <1>5, Zenon

\* The same network's test goes to another step, or stays at its step.
LEMMA StepsTo ==
  ASSUME NatInv, nat.pc \in Amid, Stays, Confirmed \subseteq Confirmed',
         DOMAIN nat' = DOMAIN nat, nat'.suite = nat.suite, nat'.test = nat.test, nat'.net = nat.net,
         nat'.pc \in Amid, nat'.pc # "run" => Test \in {"transfer", "deposit"},
         nat'.pc = "post" => <<Test, Networks[nat.net]>> \in Confirmed'
  PROVE NatInv'
<1>1. /\ nat'.net \in 1 .. 2
      /\ Test = "transfer" /\ nat'.net = 2 => <<"transfer", "L1">> \in Confirmed
      /\ Test = "deposit" => nat'.net = 1
      /\ nat'.pc = "post" => <<Test, Networks[nat'.net]>> \in Confirmed'
  BY RunFields, Zenon
<1> QED
  BY <1>1, GoesOn, Zenon

\* Starting a run keeps the invariant.
LEMMA StartNatInv == ASSUME NatInv, StartNat PROVE NatInv'
<1>1. nat' = [NoTest EXCEPT !.suite = 1, !.test = 1, !.pc = "run"]
      /\ leaves' = leaves /\ suites' = suites /\ report' = report /\ Confirmed \subseteq Confirmed'
  BY Still, Zenon DEF StartNat, Stays, world
<1>2. DOMAIN nat' = DOMAIN NoTest /\ nat'.suite = 1 /\ nat'.test = 1 /\ nat'.pc = "run" /\ nat'.net = 1
  BY <1>1, Begins
<1>3. nat.pc = "start" /\ nat.pc \notin Amid /\ nat.pc # "done"
  BY Zenon DEF StartNat, Amid
<1>4. leaves = << >> /\ suites = << >> /\ report = "none"
  BY <1>3, Zenon DEF NatInv, NatPlace
<1>5. RangeOf(<<>>) = {} /\ LeavesOf(<<>>) = {} /\ NamesOf({}) = {}
  BY DEF RangeOf, LeavesOf, NamesOf
<1>6. NatTypes'
  BY <1>1, <1>2 DEF NatInv, NatTypes
<1>7. NatPlace'
  <2>1. nat'.pc \in Amid /\ <<nat'.suite, nat'.test>> \in Places /\ report' = "none" /\ nat'.test # 2
    BY <1>1, <1>2, <1>4 DEF Amid, Places
  <2>2. Before[nat'.suite] = {}
    BY <1>2 DEF Before
  <2> QED
    BY <1>1, <1>4, <1>5, <2>1, <2>2, Zenon DEF NatPlace
<1>8. SuitesTrue'
  BY <1>1, Zenon DEF NatInv, SuitesTrue
<1>9. Money'
  <2>1. nat'.net # 2 /\ nat'.pc # "post" /\ nat'.pc \notin {"pre", "send", "poll"}
    BY <1>2
  <2> QED
    BY <1>1, <1>2, <1>4, <1>5, <2>1, Zenon DEF Money
<1> QED
  BY <1>6, <1>7, <1>8, <1>9, Zenon DEF NatInv

\* Setting a network up keeps the invariant.
LEMMA SetupInv == ASSUME NatInv, Setup PROVE NatInv'
<1>1. nat.pc = "run" /\ nat.pc \in Amid /\ Test \in {"transfer", "deposit"} /\ Confirmed \subseteq Confirmed'
  BY Still, Zenon DEF Setup, Amid, world
<1>2. CASE TestEnds(FALSE)
  BY <1>1, <1>2, FailsInv, Zenon
<1>3. ASSUME NEW w, NEW r, nat' = [nat EXCEPT !.pc = "pre", !.from = w, !.to = r], Stays
      PROVE NatInv'
  <2>1. DOMAIN nat' = DOMAIN nat /\ nat'.suite = nat.suite /\ nat'.test = nat.test /\ nat'.net = nat.net
        /\ nat'.pc = "pre"
    BY <1>3, RunFields, Zenon
  <2>2. nat'.pc \in Amid /\ nat'.pc # "post"
    BY <2>1, Zenon DEF Amid
  <2> QED
    BY <1>1, <1>3, <2>1, <2>2, StepsTo, Zenon
<1> QED
  BY <1>2, <1>3, Zenon DEF Setup

\* A round of the poll takes a transaction for confirmed that is, or BlockNumber
\* failed: the heights are far below where the subtraction would wrap.
LEMMA PollConfirms ==
  ASSUME NatInv, Heights, PollForConfirmations
  PROVE /\ Confirmed \subseteq Confirmed'
        /\ \/ nat' = [nat EXCEPT !.pc = "post", !.round = 0] /\ Tx \in Confirmed'
           \/ nat' = [nat EXCEPT !.round = @ + 1]
<1>1. UNCHANGED <<head, mined>> /\ blind \subseteq blind'
  BY Zenon DEF PollForConfirmations
<1>2. Confirmed \subseteq Confirmed'
  BY <1>1, Zenon DEF Confirmed
<1>3. SUFFICES ASSUME nat' # [nat EXCEPT !.round = @ + 1]
               PROVE nat' = [nat EXCEPT !.pc = "post", !.round = 0] /\ Tx \in Confirmed'
  BY <1>2, Zenon
<1>4. PICK b : /\ nat' = [nat EXCEPT !.pc = "post", !.round = 0] /\ Tx \in DOMAIN mined
               /\ Confirmations(b) >= Confs(Test) /\ (Tx \in blind' \/ b = head[Net])
  BY <1>3, Zenon DEF PollForConfirmations
<1>5. CASE Tx \in blind'
  BY <1>1, <1>4, <1>5, Zenon DEF Confirmed
<1>6. CASE b = head[Net]
  <2>1. Tx[1] = Test /\ Tx[2] = Net
    BY Zenon DEF Tx
  <2>2. /\ head[Net] \in Nat /\ mined[Tx] \in Nat /\ mined[Tx] <= head[Net] /\ head[Net] < NatWord
        /\ NatWord \in Nat
    <3>1. Net \in {"L1", "L2A"} /\ mined[Tx] \in Nat /\ mined[Tx] <= head[Net]
      BY <1>4, <2>1, Zenon DEF Heights
    <3>2. head[Net] \in Nat /\ head[Net] <= MaxHead[Net] /\ MaxHead[Net] \in Nat /\ NatWord > MaxHead[Net] + 3
          /\ NatWord \in Nat
      BY <3>1, NatAssumption, Zenon DEF Heights
    <3> QED
      BY <3>1, <3>2
  <2>3. (head[Net] - mined[Tx]) % NatWord >= Confs(Test)
    BY <1>4, <1>6, Zenon DEF Confirmations
  <2>4. Confs(Test) \in Nat
    BY DEF Confs
  <2>5. head[Net] >= mined[Tx] + Confs(Test)
    BY <2>2, <2>3, <2>4, NoWrap, Zenon
  <2> QED
    BY <1>1, <1>4, <2>1, <2>5, Zenon DEF Confirmed
<1> QED
  BY <1>4, <1>5, <1>6, Zenon

\* Waiting for the confirmations of a transaction keeps the invariant.
LEMMA PollInv == ASSUME NatInv, Heights, PollForConfirmations PROVE NatInv'
<1>1. nat.pc = "poll" /\ Confirmed \subseteq Confirmed' /\ Stays
  BY PollConfirms, Zenon DEF PollForConfirmations
<1>2. nat.pc \in Amid /\ Test \in {"transfer", "deposit"}
  BY <1>1, RunFields, Zenon
<1>3. CASE nat' = [nat EXCEPT !.pc = "post", !.round = 0] /\ Tx \in Confirmed'
  <2>1. DOMAIN nat' = DOMAIN nat /\ nat'.suite = nat.suite /\ nat'.test = nat.test /\ nat'.net = nat.net
        /\ nat'.pc = "post"
    BY <1>3, RunFields, Zenon
  <2>2. nat'.pc \in Amid /\ <<Test, Networks[nat.net]>> \in Confirmed'
    BY <1>3, <2>1, Zenon DEF Amid, Tx, Net
  <2> QED
    BY <1>1, <1>2, <2>1, <2>2, StepsTo, Zenon
<1>4. CASE nat' = [nat EXCEPT !.round = @ + 1]
  <2>1. DOMAIN nat' = DOMAIN nat /\ nat'.suite = nat.suite /\ nat'.test = nat.test /\ nat'.net = nat.net
        /\ nat'.pc = nat.pc
    BY <1>4, RunFields, Zenon
  <2>2. nat'.pc # "post"
    BY <1>1, <2>1, Zenon
  <2> QED
    BY <1>1, <1>2, <2>1, <2>2, StepsTo, Zenon
<1> QED
  BY <1>3, <1>4, PollConfirms, Zenon

\* Sending a transaction moves its value between the balances and keeps the
\* invariant.
LEMMA SendInv == ASSUME NatInv, Send PROVE NatInv'
<1>1. nat.pc = "send" /\ Confirmed \subseteq Confirmed'
  BY Still, Zenon DEF Send
<1>2. nat.pc \in Amid /\ Test \in {"transfer", "deposit"}
  BY <1>1, RunFields, Zenon
<1>3. (NatGoto("poll") /\ Stays) \/ TestEnds(FALSE)
  BY Zenon DEF Send
<1>4. CASE NatGoto("poll") /\ Stays
  <2>1. DOMAIN nat' = DOMAIN nat /\ nat'.suite = nat.suite /\ nat'.test = nat.test /\ nat'.net = nat.net
        /\ nat'.pc = "poll"
    BY <1>4, RunFields, Zenon DEF NatGoto
  <2>2. nat'.pc \in Amid /\ nat'.pc # "post"
    BY <2>1, Zenon DEF Amid
  <2> QED
    BY <1>1, <1>2, <1>4, <2>1, <2>2, StepsTo, Zenon
<1>5. CASE TestEnds(FALSE)
  BY <1>1, <1>2, <1>5, FailsInv, Zenon
<1> QED
  BY <1>3, <1>4, <1>5, Zenon

\* Reading the balances before a transfer keeps the invariant.
LEMMA ReadPreInv == ASSUME NatInv, ReadPre PROVE NatInv'
<1>1. nat.pc = "pre" /\ Confirmed \subseteq Confirmed' /\ Stays
  BY Still, Zenon DEF ReadPre, world
<1>2. nat.pc \in Amid /\ Test \in {"transfer", "deposit"}
  BY <1>1, RunFields, Zenon
<1>3. PICK b : nat' = [nat EXCEPT !.pc = "send", !.pre = b]
  BY Zenon DEF ReadPre
<1>4. DOMAIN nat' = DOMAIN nat /\ nat'.suite = nat.suite /\ nat'.test = nat.test /\ nat'.net = nat.net
      /\ nat'.pc = "send"
  BY <1>3, RunFields, Zenon
<1>5. nat'.pc \in Amid /\ nat'.pc # "post"
  BY <1>4, Zenon DEF Amid
<1> QED
  BY <1>1, <1>2, <1>4, <1>5, StepsTo, Zenon

\* The result of the deposit test is what the balances say.
LEMMA CheckDepositInv == ASSUME NatInv, CheckDeposit PROVE NatInv'
<1>1. nat.pc = "post" /\ Test = "deposit" /\ Confirmed \subseteq Confirmed'
  BY Still, Zenon DEF CheckDeposit, world
<1>2. nat.pc \in Amid /\ nat.net = 1 /\ <<Test, Networks[nat.net]>> \in Confirmed
  BY <1>1, RunFields, Zenon
<1>3. Moved(Test, Confirmed)
  BY <1>1, <1>2 DEF Moved, Networks
<1>4. PICK a, b : \/ TestEnds(TRUE) \/ TestEnds(FALSE)
                  \/ Stays /\ nat' = [nat EXCEPT !.round = @ + 1, !.l1Diff = a, !.l2Diff = b]
  BY Zenon DEF CheckDeposit
<1>5. CASE TestEnds(TRUE)
  BY <1>1, <1>2, <1>3, <1>5, TestEndsInv, Zenon
<1>6. CASE TestEnds(FALSE)
  BY <1>1, <1>2, <1>6, FailsInv, Zenon
<1>7. CASE Stays /\ nat' = [nat EXCEPT !.round = @ + 1, !.l1Diff = a, !.l2Diff = b]
  <2>1. DOMAIN nat' = DOMAIN nat /\ nat'.suite = nat.suite /\ nat'.test = nat.test /\ nat'.net = nat.net
        /\ nat'.pc = nat.pc
    BY <1>7, RunFields, Zenon
  <2>2. Test \in {"transfer", "deposit"}
    BY <1>1, Zenon
  <2> QED
    BY <1>1, <1>2, <1>7, <2>1, <2>2, StepsTo, Zenon
<1> QED
  BY <1>4, <1>5, <1>6, <1>7, Zenon

\* The result of the fuzz test is what the transactions say.
LEMMA SpamInv == ASSUME NatInv, Spam PROVE NatInv'
<1>1. nat.pc = "run" /\ nat.pc \in Amid /\ Test = "fuzz" /\ Confirmed \subseteq Confirmed'
  BY Still, Zenon DEF Spam, Amid, world
<1>2. CASE TestEnds(TRUE)
  BY <1>1, <1>2, TestEndsInv, Zenon DEF Moved
<1>3. CASE Stays /\ nat' = [nat EXCEPT !.round = @ + 1]
  <2>1. DOMAIN nat' = DOMAIN nat /\ nat'.suite = nat.suite /\ nat'.test = nat.test /\ nat'.net = nat.net
        /\ nat'.pc = nat.pc
    BY <1>3, RunFields, Zenon
  <2>2. nat'.pc # "post"
    BY <1>1, <2>1, Zenon
  <2> QED
    BY <1>1, <1>3, <2>1, <2>2, StepsTo, Zenon
<1>4. CASE TestEnds(FALSE)
  BY <1>1, <1>4, FailsInv, Zenon
<1> QED
  BY <1>2, <1>3, <1>4, Zenon DEF Spam

\* The results of the tests that only ask the node are what it answers.
LEMMA AskInv == ASSUME NatInv, Ask PROVE NatInv'
<1>1. nat.pc = "run" /\ nat.pc \in Amid /\ Test \in {"blocknumber", "chainid"} /\ Confirmed \subseteq Confirmed'
  BY Still, Zenon DEF Ask, Amid, world
<1>2. CASE NextNetwork
  <2>1. Test # "deposit" /\ Test # "transfer"
    BY <1>1, Zenon
  <2> QED
    BY <1>1, <1>2, <2>1, NextNetworkInv, Zenon
<1>3. CASE TestEnds(FALSE)
  BY <1>1, <1>3, FailsInv, Zenon
<1> QED
  BY <1>2, <1>3, Zenon DEF Ask

\* The result of the transfer test is what the balances say.
LEMMA CheckTransferInv == ASSUME NatInv, CheckTransfer PROVE NatInv'
<1>1. nat.pc = "post" /\ Test = "transfer" /\ Confirmed \subseteq Confirmed'
  BY Still, Zenon DEF CheckTransfer, world
<1>2. nat.pc \in Amid /\ <<Test, Networks[nat.net]>> \in Confirmed
  BY <1>1, RunFields, Zenon
<1>3. CASE NextNetwork
  <2>1. Test # "deposit" /\ <<"transfer", Networks[nat.net]>> \in Confirmed
    BY <1>1, <1>2, Zenon
  <2> QED
    BY <1>1, <1>2, <1>3, <2>1, NextNetworkInv, Zenon
<1>4. CASE TestEnds(FALSE)
  BY <1>1, <1>2, <1>4, FailsInv, Zenon
<1> QED
  BY <1>3, <1>4, Zenon DEF CheckTransfer

\* The invariant of a run of op-nat.
LEMMA NatInitially == NatInit => NatInv
<1> SUFFICES ASSUME NatInit PROVE NatInv
  BY Zenon
<1>1. nat = NoTest /\ leaves = << >> /\ suites = << >> /\ report = "none"
  BY Zenon DEF NatInit
<1>2. NoTest.pc = "start" /\ NoTest.net = 1
  BY Zenon DEF NoTest
<1>3. RangeOf(<<>>) = {} /\ LeavesOf(<<>>) = {}
  BY DEF RangeOf, LeavesOf
<1>4. NatTypes
  BY <1>1, <1>2 DEF NatTypes
<1>5. NatPlace
  BY <1>1, <1>2, Zenon DEF NatPlace
<1>6. SuitesTrue
  BY <1>1, <1>3, Zenon DEF SuitesTrue
<1>7. Money
  <2>1. nat.pc \notin Amid /\ nat.pc # "post" /\ nat.pc \notin {"pre", "send", "poll"}
    BY <1>1, <1>2, Zenon DEF Amid
  <2> QED
    BY <1>1, <1>3, <2>1, Zenon DEF Money
<1> QED
  BY <1>4, <1>5, <1>6, <1>7, Zenon DEF NatInv

\* Every step keeps the invariant.
LEMMA NatKeeps == NatInv /\ Heights /\ [NatNext]_natVars => NatInv'
<1> SUFFICES ASSUME NatInv, Heights, [NatNext]_natVars PROVE NatInv'
  BY Zenon
<1>1. CASE StartNat
  BY <1>1, StartNatInv, Zenon
<1>2. CASE NatCallFails
  <2>1. nat.pc \in Amid /\ TestEnds(FALSE) /\ Confirmed \subseteq Confirmed'
    BY <1>2, Still, Zenon DEF NatCallFails, Amid, world
  <2> QED
    BY <2>1, FailsInv, Zenon
<1>3. CASE Ask
  BY <1>3, AskInv, Zenon
<1>4. CASE Setup
  BY <1>4, SetupInv, Zenon
<1>5. CASE ReadPre
  BY <1>5, ReadPreInv, Zenon
<1>6. CASE Send
  BY <1>6, SendInv, Zenon
<1>7. CASE PollForConfirmations
  BY <1>7, PollInv, Zenon
<1>8. CASE GiveUp
  <2>1. nat.pc \in Amid /\ TestEnds(FALSE) /\ Confirmed \subseteq Confirmed'
    BY <1>8, Still, Zenon DEF GiveUp, Amid, world
  <2> QED
    BY <2>1, FailsInv, Zenon
<1>9. CASE CheckTransfer
  BY <1>9, CheckTransferInv, Zenon
<1>10. CASE CheckDeposit
  BY <1>10, CheckDepositInv, Zenon
<1>11. CASE Spam
  BY <1>11, SpamInv, Zenon
<1>12. CASE \E n \in {"L1", "L2A"} : Mine(n)
  BY <1>12, MineInv, Zenon
<1>13. CASE UNCHANGED natVars
  BY <1>13, Zenon DEF natVars, NatInv, NatTypes, NatPlace, SuitesTrue, Money, Test, Tx, Net, Confirmed
<1> QED
  BY <1>1, <1>2, <1>3, <1>4, <1>5, <1>6, <1>7, <1>8, <1>9, <1>10, <1>11, <1>12, <1>13, Zenon
     DEF NatNext, NatStep

\* Whatever calls fail and whenever the blocks come, a test that passes in op-nat
\* has its transactions mined and confirmed, but for the rounds in which
\* BlockNumber failed, all of the gate's tests ran, and the report is a failure
\* exactly if one of them failed.
THEOREM ReportIsTrueHolds == NatSpec => []ReportIsTrue
<1>1. ASSUME NatInv PROVE ReportIsTrue
  <2>1. Leaves = LeavesOf(suites)
    BY Zenon DEF Leaves, LeavesOf, RangeOf
  <2>2. \A l \in LeavesOf(suites) : l[2] = "pass" => Moved(l[1], Confirmed)
    BY <1>1, Zenon DEF NatInv, Money
  <2>3. <<"transfer", "pass">> \in Leaves => \A n \in {"L1", "L2A"} : <<"transfer", n>> \in Confirmed
    <3> SUFFICES ASSUME <<"transfer", "pass">> \in Leaves PROVE Moved("transfer", Confirmed)
      BY Zenon DEF Moved
    <3>1. PICK l : l = <<"transfer", "pass">>
      BY Zenon
    <3>2. l \in LeavesOf(suites) /\ l[1] = "transfer" /\ l[2] = "pass"
      BY <2>1, <3>1, Zenon
    <3> QED
      BY <2>2, <3>2, Zenon
  <2>4. <<"deposit", "pass">> \in Leaves => <<"deposit", "L1">> \in Confirmed
    <3> SUFFICES ASSUME <<"deposit", "pass">> \in Leaves PROVE Moved("deposit", Confirmed)
      BY Zenon DEF Moved
    <3>1. PICK l : l = <<"deposit", "pass">>
      BY Zenon
    <3>2. l \in LeavesOf(suites) /\ l[1] = "deposit" /\ l[2] = "pass"
      BY <2>1, <3>1, Zenon
    <3> QED
      BY <2>2, <3>2, Zenon
  <2>5. ASSUME report # "none"
        PROVE /\ {l[1] : l \in Leaves} = {"blocknumber", "chainid", "deposit", "transfer", "fuzz"}
              /\ report = "fail" <=> \E l \in Leaves : l[2] = "fail"
    <3>1. /\ NamesOf(LeavesOf(suites)) = TestNames
          /\ report = "fail" <=> \E s \in RangeOf(suites) : s.result = "fail"
      BY <1>1, <2>5, Zenon DEF NatInv, NatPlace
    <3>2. {l[1] : l \in Leaves} = {"blocknumber", "chainid", "deposit", "transfer", "fuzz"}
      BY <2>1, <3>1, Zenon DEF NamesOf, TestNames
    <3>3. (\E s \in RangeOf(suites) : s.result = "fail") <=> \E l \in Leaves : l[2] = "fail"
      BY <1>1, <2>1, Zenon DEF NatInv, SuitesTrue, LeavesOf
    <3> QED
      BY <3>1, <3>2, <3>3, Zenon
  <2> QED
    BY <2>3, <2>4, <2>5, Zenon DEF ReportIsTrue
<1>2. NatInit => Heights
  <2> SUFFICES ASSUME NatInit PROVE Heights
    BY Zenon
  <2>1. /\ DOMAIN head = {"L1", "L2A"} /\ mined = << >>
        /\ \A n \in {"L1", "L2A"} : head[n] = 0 /\ MaxHead[n] \in Nat
    BY NatAssumption, Zenon DEF NatInit
  <2>2. \A n \in {"L1", "L2A"} : head[n] \in Nat /\ head[n] <= MaxHead[n]
    BY <2>1
  <2>3. DOMAIN mined = {}
    BY <2>1
  <2> QED
    BY <2>1, <2>2, <2>3, Zenon DEF Heights
<1> QED
  BY <1>1, <1>2, NatInitially, NatKeeps, HeightsKeep, PTL DEF NatSpec
=============================================================================
