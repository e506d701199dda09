---------------------------- MODULE ProxydStart ----------------------------
(***************************************************************************)
(* proxyd/proxyd.go: Start, from the configuration to the running servers, *)
(* and Shutdown.  The servers listen from goroutines of their own, started *)
(* before the pollers of the consensus aware groups are made.              *)
(***************************************************************************)
EXTENDS Naturals, Sequences, FiniteSets, Functions

CONSTANTS
  Configs       \* configurations; see IsConfig

Strategies == {"fallback", "multicall", "consensus_aware", "invalid"}

\* What Start looks at.  "bad" backends are those whose own configuration is
\* refused (no RPC URL, an unset variable, a receipts target or TLS files that
\* are not valid); sender stands for the limits of the clients, with the
\* patterns of their exemptions, which NewServer compiles.
IsConfig(c) ==
  /\ c.redis \in {"none", "up", "down", "bad"} /\ c.readURL \in BOOLEAN
  /\ c.fallbackToMemory \in BOOLEAN /\ c.useRedis \in BOOLEAN /\ c.sender \in {"off", "valid", "invalid"}
  /\ c.auth \in {"none", "valid", "invalid"} /\ c.wsPort \in BOOLEAN /\ c.rpcPort \in BOOLEAN
  /\ \A g \in DOMAIN c.groups :
       /\ c.groups[g].strategy \in Strategies
       /\ c.groups[g].backends \in Seq(Range(c.groups[g].backends))
       /\ c.groups[g].fallbacks \in Seq(Range(c.groups[g].fallbacks))

ASSUME StartAssumption == \A c \in Configs : IsConfig(c)

VARIABLES
  conf,     \* the configuration
  stage,    \* where Start, then the process, is
  server,   \* the goroutines of the RPC and the WS server
  poller,   \* bg.Consensus of each group
  todo,     \* groups that the last loop of Start has yet to visit
  served    \* history: requests served: group, with a poller or not, and when

stVars == <<conf, stage, server, poller, todo, served>>

Servers == {"rpc", "ws"}
NoConf == [groups |-> <<>>]

StInit ==
  /\ conf = NoConf /\ stage = "off"
  /\ server = [s \in Servers |-> "none"]
  /\ poller = <<>> /\ todo = {} /\ served = {}

-----------------------------------------------------------------------------
(* The checks of Start, in its order. *)

NotEmpty(c) == c.backends # {} /\ DOMAIN c.groups # {} /\ c.mappings # {} /\ c.auth # "invalid"

\* The primary and the replica (the connection of the primary is checked for
\* both), and who needs them.
RedisValid(c) ==
  /\ c.redis # "bad" /\ (c.redis = "down" => c.fallbackToMemory)
  /\ c.readURL => c.redis # "none"
  /\ c.useRedis => c.redis # "none"

SenderValid(c) == c.sender # "invalid"

BackendsValid(c) == c.backends \intersect c.bad = {}

\* fallbackCount: the pairs of a backend of the group and an equal fallback.
FallbackCount(g) ==
  Cardinality({p \in (DOMAIN g.backends) \X (DOMAIN g.fallbacks) : g.backends[p[1]] = g.fallbacks[p[2]]})

GroupsValid(c) ==
  \A n \in DOMAIN c.groups :
    /\ \A i \in DOMAIN c.groups[n].backends : c.groups[n].backends[i] \in c.backends
    /\ FallbackCount(c.groups[n]) = Len(c.groups[n].fallbacks)

WsValid(c) ==
  /\ c.wsGroup # "" => c.wsGroup \in DOMAIN c.groups
  /\ c.wsPort => c.wsGroup # ""

MappingsValid(c) == c.mappings \subseteq DOMAIN c.groups

Valid(c) ==
  /\ NotEmpty(c) /\ RedisValid(c) /\ SenderValid(c) /\ BackendsValid(c)
  /\ GroupsValid(c) /\ WsValid(c) /\ MappingsValid(c)

\* Start returns an error, or starts the goroutines of the servers.
Start(c) ==
  /\ stage = "off"
  /\ conf' = c
  /\ IF Valid(c)
       THEN /\ stage' = "starting"
            /\ server' = [rpc |-> IF c.rpcPort THEN "spawned" ELSE "none",
                          ws |-> IF c.wsPort THEN "spawned" ELSE "none"]
            /\ poller' = [g \in DOMAIN c.groups |-> "none"]
            /\ todo' = DOMAIN c.groups
       ELSE stage' = "failed" /\ UNCHANGED <<server, poller, todo>>
  /\ UNCHANGED served

Alive == stage \in {"starting", "started"}

\* RPCListenAndServe and WSListenAndServe: the server is made, under srvMu.
MakeServer(s) ==
  /\ Alive /\ server[s] = "spawned"
  /\ server' = [server EXCEPT ![s] = "made"]
  /\ UNCHANGED <<conf, stage, poller, todo, served>>

\* ListenAndServe; should it fail, log.Crit ends the process.
Listen(s) ==
  /\ Alive /\ server[s] = "made"
  /\ \/ server' = [server EXCEPT ![s] = "listening"] /\ UNCHANGED stage
     \/ stage' = "exited" /\ UNCHANGED server
  /\ UNCHANGED <<conf, poller, todo, served>>

\* A turn of the loop over the groups, a map.  What log.Crit reports ends the
\* process; so does, in main, the error of a Redis that cannot be reached.
Configure(g) ==
  LET aware == conf.groups[g].strategy = "consensus_aware"
  IN /\ stage = "starting" /\ g \in todo
     /\ \/ /\ conf.groups[g].strategy # "invalid"
           /\ aware /\ conf.groups[g].ha => conf.groups[g].haURL
           /\ todo' = todo \ {g}
           /\ poller' = [poller EXCEPT ![g] = IF aware THEN "running" ELSE @]
           /\ UNCHANGED stage
        \/ /\ \/ conf.groups[g].strategy = "invalid"
              \/ aware /\ conf.groups[g].ha
           /\ stage' = "exited" /\ UNCHANGED <<todo, poller>>
     /\ UNCHANGED <<conf, server, served>>

\* Mutant of Started: the loop runs on in the background.
StartedEarly ==
  /\ stage = "starting"
  /\ stage' = "started"
  /\ UNCHANGED <<conf, server, poller, todo, served>>

\* The timer is received, and Start returns.
Started ==
  /\ stage = "starting" /\ todo = {}
  /\ stage' = "started"
  /\ UNCHANGED <<conf, server, poller, todo, served>>

\* A request reaches a group; Forward looks at bg.Consensus.
ServeGroup(g) ==
  /\ Alive /\ server["rpc"] = "listening" /\ g \in conf.mappings
  /\ served' = served \union {[group |-> g, aware |-> poller[g] = "running", late |-> stage = "started"]}
  /\ UNCHANGED <<conf, stage, server, poller, todo>>

\* A signal: Server.Shutdown, and main returns.
Shutdown ==
  /\ stage = "started"
  /\ stage' = "down"
  /\ server' = [s \in Servers |-> IF server[s] \in {"made", "listening"} THEN "closed" ELSE server[s]]
  /\ poller' = [g \in DOMAIN poller |-> IF poller[g] = "running" THEN "stopped" ELSE poller[g]]
  /\ UNCHANGED <<conf, todo, served>>

StNext ==
  \/ \E c \in Configs : Start(c)
  \/ \E s \in Servers : MakeServer(s) \/ Listen(s)
  \/ \E g \in DOMAIN conf.groups : Configure(g) \/ (stage # "failed" /\ ServeGroup(g))
  \/ Started \/ Shutdown

StSpec == StInit /\ [][StNext]_stVars

-----------------------------------------------------------------------------
(* Properties. *)

\* A server that listens serves what was configured: every mapped method has a
\* group whose backends all exist, every fallback is a backend of its group,
\* which Start concludes from their number (unless the group names a backend
\* twice), and once Start has returned a consensus aware group serves nothing
\* without its poller.  (While Start runs it may: the server listens first.)
ServedAsConfigured ==
  /\ (\E s \in Servers : server[s] = "listening") =>
       /\ conf.mappings \subseteq DOMAIN conf.groups
       /\ server["ws"] = "listening" => conf.wsGroup \in DOMAIN conf.groups
       /\ \A n \in DOMAIN conf.groups :
            LET g == conf.groups[n]
            IN /\ Range(g.backends) \subseteq conf.backends
               /\ Cardinality(Range(g.backends)) = Len(g.backends) =>
                    Range(g.fallbacks) \subseteq Range(g.backends)
  /\ \A r \in served : r.late /\ conf.groups[r.group].strategy = "consensus_aware" => r.aware
=============================================================================
