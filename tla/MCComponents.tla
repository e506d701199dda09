---------------------------- MODULE MCComponents ----------------------------
(* Small instances of the components whose safety is checked, in one run.     *)
(* They share no state: the initial state chooses one of them, and only that *)
(* one moves.                                                                *)
EXTENDS ConsensusServing, BatchServer, SlidingWindow, RateLimiter, Rewriter,
        ProxydStart, ConductorMonitor, TxProxy, Signer, ConductorOps,
        CciStats, Nat, TLC

VARIABLE part

-----------------------------------------------------------------------------
(* ConsensusServing.                                                         *)

ServingTags ==
  {ZeroTags, [latest |-> 2, safe |-> 2, finalized |-> 1]}

-----------------------------------------------------------------------------
(* BatchServer.                                                              *)

RPCReq(i, m, p) == [id |-> i, method |-> m, params |-> p]
Batch(l) == [isBatch |-> TRUE, calls |-> l]
Single(c) == [isBatch |-> FALSE, calls |-> <<c>>]

\* Ids that repeat, calls of different groups, calls answered without a
\* backend, calls over a limit, batches that are empty or too long.
SomeBodies ==
  {Batch(<<RPCReq("1", "static", "a"), RPCReq("1", "static", "b"), RPCReq("2", "limited", "a")>>),
   Batch(<<RPCReq("1", "unparsable", "a"), RPCReq("2", "healthz", "a"), RPCReq("1", "badSend", "a")>>),
   Batch(<<RPCReq("1", "send", "a"), RPCReq("2", "send", "a")>>),
   Batch(<<RPCReq("1", "receipts", "a"), RPCReq("2", "unlisted", "a")>>),
   Batch(<<>>),
   Batch([i \in 1 .. 4 |-> RPCReq("1", "accounts", "a")]),
   Single(RPCReq("1", "rawByHash", "a")), Single(RPCReq("1", "receipts", "a")),
   Single(RPCReq("1", "healthz", "a")), Single(RPCReq("1", "accounts", "a"))}

TwoBodies ==
  [h1 |-> SomeBodies,
   h2 |-> {Single(RPCReq("7", "static", "a")), Single(RPCReq("7", "rawByHash", "a"))}]

TwoLimits == [main |-> 2, override |-> 1, sender |-> 1]

-----------------------------------------------------------------------------
(* ProxydStart.                                                              *)

Group(bs, fs, strategy, ha) ==
  [backends |-> bs, fallbacks |-> fs, strategy |-> strategy, ha |-> ha, haURL |-> TRUE]
Plain ==
  [backends |-> {"b1", "b2"}, bad |-> {}, mappings |-> {"main"}, auth |-> "none", redis |-> "none",
   readURL |-> FALSE, fallbackToMemory |-> FALSE, useRedis |-> FALSE, sender |-> "off",
   wsGroup |-> "", wsPort |-> FALSE, rpcPort |-> TRUE,
   groups |-> [main |-> Group(<<"b1", "b2">>, <<"b2">>, "consensus_aware", FALSE)]]

SomeGroups ==
  {[main |-> Group(<<"b1", "b2">>, <<"b2">>, "consensus_aware", TRUE),
    ws |-> Group(<<"b1">>, <<>>, "fallback", FALSE)],
   [main |-> Group(<<"b1", "b2">>, <<"b3">>, "fallback", FALSE)],
   [main |-> Group(<<"b1", "b1">>, <<"b1", "b3">>, "fallback", FALSE)],
   [main |-> Group(<<"b1">>, <<>>, "invalid", FALSE)]}

\* Configurations that are right, and each that is wrong in one way.
SomeConfigs ==
  {[Plain EXCEPT !.backends = b, !.redis = r, !.fallbackToMemory = f, !.useRedis = u, !.readURL = d] :
     b \in {{}, {"b1"}, {"b1", "b2"}}, r \in {"none", "up", "down", "bad"},
     f \in BOOLEAN, u \in BOOLEAN, d \in BOOLEAN}
  \union {[Plain EXCEPT !.groups = g, !.wsGroup = w, !.wsPort = p, !.mappings = m] :
     g \in SomeGroups, w \in {"", "ws"}, p \in BOOLEAN, m \in {{"main"}, {"main", "ws"}}}
  \union {[Plain EXCEPT !.bad = {"b1"}], [Plain EXCEPT !.sender = "invalid"], [Plain EXCEPT !.auth = "invalid"]}

-----------------------------------------------------------------------------
(* Rewriter.                                                                 *)

SomeBlocks ==
  {Named(t) : t \in {"latest", "safe", "finalized", "pending", "earliest", "hash", "null", "empty", "bad"}}
  \union {Number(1), Number(3), [Number(1) EXCEPT !.object = TRUE], [Named("latest") EXCEPT !.object = TRUE]}
Req(m, ps) == [method |-> m, isList |-> TRUE, params |-> ps]
NoList(m) == [method |-> m, isList |-> FALSE, params |-> <<>>]
Filters ==
  UNION {[fields -> SomeBlocks] : fields \in SUBSET {"fromBlock", "toBlock"}}
Hash == Named("hash")
Methods1 == {"eth_blockNumber", "eth_chainId", "eth_getLogs", "eth_getBalance",
             "debug_getRawReceipts", "eth_getBlockByNumber"}
AllCalls ==
  {Req(m, <<>>) : m \in Methods1} \union {NoList("eth_getLogs"), NoList("eth_getBalance")}
  \union {Req("eth_getLogs", <<f>>) : f \in Filters}
  \union {Req(m, <<b>>) : m \in {"debug_getRawReceipts", "eth_getBlockByNumber"}, b \in SomeBlocks}
  \union {Req("eth_getBalance", <<Hash>>)} \union {Req("eth_getBalance", <<Hash, b>>) : b \in SomeBlocks}
  \union {Req("eth_getStorageAt", <<Hash, Hash, b>>) : b \in SomeBlocks}
Few == {Req("eth_blockNumber", <<>>), Req("eth_chainId", <<>>), Req("eth_getBlockByNumber", <<Number(3)>>)}
AllLists == {<<q>> : q \in AllCalls} \union (Few \X Few) \union (Few \X Few \X Few)
Heads == {[latest |-> 2, safe |-> 1, finalized |-> 0, maxBlockRange |-> m] : m \in 0 .. 2}

-----------------------------------------------------------------------------
(* TxProxy, Signer, ConductorOps.                                            *)

Txn(tx, entrypoint, valid, cost) == [tx |-> tx, entrypoint |-> entrypoint, valid |-> valid, cost |-> cost]
SomeTxs ==
  {Txn(TRUE, TRUE, TRUE, 0), Txn(TRUE, TRUE, TRUE, 1), Txn(TRUE, TRUE, TRUE, 3), Txn(TRUE, TRUE, TRUE, 4),
   Txn(FALSE, FALSE, FALSE, 0), Txn(TRUE, FALSE, TRUE, 1), Txn(TRUE, TRUE, FALSE, 1)}

Entry(client, key, from, chain, to, max) ==
  [client |-> client, key |-> key, from |-> from, chain |-> chain, to |-> to, max |-> max]
SomeAuth ==
  <<Entry("c1", "k1", "k1", 1, {"a"}, 1), Entry("c1", "k2", "k2", 1, {}, 0), Entry("c2", "k2", "k2", 2, {}, 0)>>
Asked(form, client, from, chain, to, value, digest) ==
  [kind |-> form, client |-> client, from |-> from, chain |-> chain, to |-> to, value |-> value, digest |-> digest,
   valid |-> TRUE]
SomeArgs ==
  {Asked("transaction", c, f, 1, "a", 1, "d1") : c \in {"c1", "c2", ""}, f \in {"", "k1", "k2"}}
  \union {Asked("transaction", "c1", "", 1, "b", 1, "d1"), Asked("transaction", "c1", "", 1, "a", 2, "d1")}
  \union {Asked("block_payload", c, f, n, "", 0, "d2") : c \in {"c1", "c2"}, f \in {"k1", "k2"}, n \in {1, 2}}
  \union {[Asked("transaction", "c1", "", 1, "a", 1, "d1") EXCEPT !.valid = FALSE],
          [Asked("block_payload", "c2", "k2", 2, "", 0, "d2") EXCEPT !.valid = FALSE]}

OpsPair == <<"s1", "s2">>

-----------------------------------------------------------------------------
(* Nat.                                                                      *)

\* One wallet that can pay for a transfer unless it paid for a deposit before,
\* and one that can pay for a deposit.
NatFunds == [w1 |-> 4, w2 |-> 1]

\* A deposit with 3 confirmations and after it a transfer with 2 on L1, a transfer on L2.
NatHeads == [L1 |-> 7, L2A |-> 3]

-----------------------------------------------------------------------------
(* One component at a time.                                                   *)

partsVars ==
  <<part, allVars, bsVars, swVars, rlVars, rwVars, stVars, monVars, tpVars, sgVars, opsVars,
    csVars, natVars>>

Components ==
  {"serving", "batch", "window", "limiter", "rewriter", "start", "monitor", "txproxy",
   "signer", "ops", "cci", "nat"}

PartsInit ==
  /\ part \in Components
  /\ ServingInit /\ BsInit /\ SwInit /\ RlInit /\ RwInit /\ StInit /\ MonInit /\ TpInit
  /\ SgInit /\ OpsInit /\ CsInit /\ NatInit
  /\ part # "ops" => raftLeader = "s1" /\ member = [s \in OpsIds |-> Suffrage(s)]

\* The other components stay where they are.
Only(p) ==
  /\ part = p /\ UNCHANGED part
  /\ p # "serving" => UNCHANGED allVars
  /\ p # "batch" => UNCHANGED bsVars
  /\ p # "window" => UNCHANGED swVars
  /\ p # "limiter" => UNCHANGED rlVars
  /\ p # "rewriter" => UNCHANGED rwVars
  /\ p # "start" => UNCHANGED stVars
  /\ p # "monitor" => UNCHANGED monVars
  /\ p # "txproxy" => UNCHANGED tpVars
  /\ p # "signer" => UNCHANGED sgVars
  /\ p # "ops" => UNCHANGED opsVars
  /\ p # "cci" => UNCHANGED csVars
  /\ p # "nat" => UNCHANGED natVars

PartsNext ==
  \/ Only("serving") /\ ServingNext
  \/ Only("batch") /\ BsNext
  \/ Only("window") /\ SwNext
  \/ Only("limiter") /\ RlNext
  \/ Only("rewriter") /\ RwNext
  \/ Only("start") /\ StNext
  \/ Only("monitor") /\ MonNext
  \/ Only("txproxy") /\ TpNext
  \/ Only("signer") /\ SgNext
  \/ Only("ops") /\ OpsNext
  \/ Only("cci") /\ CsNext
  \/ Only("nat") /\ NatNext

PartsSpec == PartsInit /\ [][PartsNext]_partsVars

\* pause, resume and the overrides look at nothing of what they have read.
SeenForNothing == {"pause", "resume", "override_leader", "remove_override"}

\* The part that moves, as TLC tells states apart: the others are as they began.
\* What no step and no property looks at is left out: when the last request and
\* the last latency were added, and what a command has read for nothing.
PartView ==
  CASE part = "serving" -> <<part, allVars>>
    [] part = "batch" -> <<part, bsVars>>
    [] part = "window" -> <<part, swNow, buckets, qty, sum, adder, health, added, lastAdd["errors"]>>
    [] part = "limiter" -> <<part, rlVars>>
    [] part = "rewriter" -> <<part, rwVars>>
    [] part = "start" -> <<part, stVars>>
    [] part = "monitor" -> <<part, monVars>>
    [] part = "txproxy" -> <<part, tpVars>>
    [] part = "signer" -> <<part, sgVars>>
    [] part = "ops" -> <<part, opsWorld, opsFaults, opsEvents, opsRuns,
                         IF ops.cmd \in SeenForNothing THEN [ops EXCEPT !.seen = << >>] ELSE ops>>
    [] part = "cci" -> <<part, csVars>>
    [] part = "nat" -> <<part, natVars>>
=============================================================================
