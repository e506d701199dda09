-------------------------- MODULE ConductorMonitor --------------------------
(***************************************************************************)
(* op-conductor-mon/pkg/monitor: the ticks of the poller over the nodes of *)
(* a raft cluster whose leader and members change between its calls, and   *)
(* the gauges it leaves behind.                                            *)
(***************************************************************************)
EXTENDS Integers, FiniteSets

CONSTANTS
  MonNodes,      \* nodesConfig: the names polled, also their server ids
  RaftServers,   \* server ids of the cluster, a superset
  MonExpiration, \* NodeStateExpiration, in ticks
  MaxMonEvents   \* bound on changes of the cluster and failed calls

ASSUME MonitorAssumption ==
  /\ MonNodes \subseteq RaftServers /\ IsFiniteSet(RaftServers) /\ {MonExpiration, MaxMonEvents} \subseteq Nat
  /\ MonNodes \intersect {"off", "tick", "poll"} = {} /\ "unasked" \notin RaftServers

VARIABLES
  monAt,      \* "off", "tick", "poll", or the node being polled
  monTodo,    \* nodes yet to be polled
  isLeader, leaderID,  \* the answers of Leader and LeaderWithID to the poll under way
  state,      \* p.state: leader, leaderWithID, members, age in ticks
  leaderGauge, leaderCount,  \* the metrics of leaders
  lead, view, servers,  \* the cluster: leader, the leader each node knows of, members
  sinceLed,   \* history: ticks since each node took itself for the leader, saturated
  monEvents   \* events so far

monVars == <<monAt, monTodo, isLeader, leaderID, state, leaderGauge, leaderCount, lead, view, servers, sinceLed, monEvents>>
gauges == <<leaderGauge, leaderCount>>
cluster == <<lead, view, servers>>

Long == MonExpiration + 2
Ago(v, s) == [n \in MonNodes |-> IF v[n] = n THEN 0 ELSE s[n]]

MonInit ==
  /\ monAt = "off" /\ monTodo = {} /\ isLeader = FALSE /\ leaderID = "unasked" /\ state = <<>>
  /\ leaderGauge = [n \in MonNodes |-> {}] /\ leaderCount = 0
  /\ lead = "" /\ view = [n \in MonNodes |-> ""] /\ servers = RaftServers
  /\ sinceLed = [n \in MonNodes |-> Long] /\ monEvents = 0

\* Start, with a leader that every node knows.
StartMonitor ==
  /\ monAt = "off" /\ monAt' = "tick"
  /\ lead' \in RaftServers
  /\ view' = [n \in MonNodes |-> lead'] /\ sinceLed' = Ago(view', sinceLed)
  /\ UNCHANGED <<monTodo, isLeader, leaderID, state, gauges, servers, monEvents>>

Event == monAt # "off" /\ monEvents < MaxMonEvents /\ monEvents' = monEvents + 1

-----------------------------------------------------------------------------
(* The cluster. *)

\* The old leader takes itself for it until it learns of the new one.
Elect(l) ==
  /\ Event /\ l \in servers \ {lead}
  /\ lead' = l
  /\ view' = [n \in MonNodes |-> IF n = l THEN l ELSE view[n]] /\ sinceLed' = Ago(view', sinceLed)
  /\ UNCHANGED <<monAt, monTodo, isLeader, leaderID, state, gauges, servers>>

Learn(n) ==
  /\ monAt # "off" /\ view[n] # lead
  /\ view' = [view EXCEPT ![n] = lead] /\ sinceLed' = Ago(view', sinceLed)
  /\ UNCHANGED <<monAt, monTodo, isLeader, leaderID, state, gauges, lead, servers, monEvents>>

Leave(s) ==
  /\ Event /\ s \in servers \ {lead}
  /\ servers' = servers \ {s}
  /\ UNCHANGED <<monAt, monTodo, isLeader, leaderID, state, gauges, lead, view, sinceLed>>

-----------------------------------------------------------------------------
(* Tick. *)

\* Mutant of MonCleanup: what cannot be polled stays.
MonCleanupNone ==
  /\ monAt = "tick" /\ monAt' = "poll" /\ monTodo' = MonNodes
  /\ UNCHANGED <<isLeader, leaderID, state, gauges, cluster, sinceLed, monEvents>>

\* cleanup, then poll.
MonCleanup ==
  /\ monAt = "tick" /\ monAt' = "poll" /\ monTodo' = MonNodes
  /\ state' = [n \in {m \in DOMAIN state : state[m].age <= MonExpiration} |-> state[n]]
  /\ UNCHANGED <<isLeader, leaderID, gauges, cluster, sinceLed, monEvents>>

\* pollNode up to the call of Leader.
PollLeader(n) ==
  /\ monAt = "poll" /\ n \in monTodo
  /\ monAt' = n /\ monTodo' = monTodo \ {n} /\ isLeader' = (view[n] = n)
  /\ UNCHANGED <<leaderID, state, gauges, cluster, sinceLed, monEvents>>

PollLeaderWithID(n) ==
  /\ monAt = n /\ leaderID = "unasked" /\ leaderID' = view[n]
  /\ UNCHANGED <<monAt, monTodo, isLeader, state, gauges, cluster, sinceLed, monEvents>>

\* ClusterMembership, and the new state of the node: three looks at it in one.
PollClusterMembership(n) ==
  /\ monAt = n /\ leaderID # "unasked"
  /\ monAt' = "poll" /\ isLeader' = FALSE /\ leaderID' = "unasked"
  /\ state' = [m \in DOMAIN state \union {n} |->
                 IF m = n THEN [leader |-> isLeader, leaderWithID |-> leaderID, members |-> servers, age |-> 0]
                          ELSE state[m]]
  /\ UNCHANGED <<monTodo, gauges, cluster, sinceLed, monEvents>>

\* Any call fails: the state of the node stays.
PollNodeFails ==
  /\ monAt \notin {"tick", "off"} /\ Event
  /\ IF monAt = "poll" THEN \E n \in monTodo : monTodo' = monTodo \ {n} ELSE UNCHANGED monTodo
  /\ monAt' = "poll" /\ isLeader' = FALSE /\ leaderID' = "unasked"
  /\ UNCHANGED <<state, gauges, cluster, sinceLed>>

\* The leader gauges of n that are reset.
Reset(n) == MonNodes \union state[n].members

\* reportMetrics and the end of the tick: the states age.
ReportLeaders ==
  /\ monAt = "poll" /\ monTodo = {} /\ monAt' = "tick"
  /\ leaderGauge' = [n \in MonNodes |->
       IF n \in DOMAIN state THEN (leaderGauge[n] \ Reset(n)) \union {state[n].leaderWithID} ELSE leaderGauge[n]]
  /\ leaderCount' = Cardinality({n \in DOMAIN state : state[n].leader})
  /\ state' = [n \in DOMAIN state |-> [state[n] EXCEPT !.age = @ + 1]]
  /\ sinceLed' = Ago(view, [n \in MonNodes |-> IF sinceLed[n] < Long THEN sinceLed[n] + 1 ELSE Long])
  /\ UNCHANGED <<monTodo, isLeader, leaderID, cluster, monEvents>>

MonNext ==
  \/ StartMonitor \/ MonCleanup \/ PollNodeFails \/ ReportLeaders
  \/ \E n \in MonNodes : PollLeader(n) \/ PollLeaderWithID(n) \/ PollClusterMembership(n) \/ Learn(n)
  \/ \E s \in RaftServers : Elect(s) \/ Leave(s)

MonSpec == MonInit /\ [][MonNext]_monVars

-----------------------------------------------------------------------------
(* Properties. *)

\* A node counted as a leader by a tick took itself for the leader within the
\* expiration of its state and the tick, although elections pass between the calls
\* of a poll: a node that cannot be reached is not counted on.
\* And the gauges of a node show one leader, the one it last named, besides
\* servers that are neither configured nor, as far as the node said, members any
\* more: those keep the value they had.
LeadersShown ==
  (monAt = "tick") =>
    /\ leaderCount <= Cardinality({n \in MonNodes : sinceLed[n] <= MonExpiration + 1})
    /\ \A n \in DOMAIN state :
         \A l \in leaderGauge[n] \ {state[n].leaderWithID} : l \notin MonNodes \union state[n].members
=============================================================================
