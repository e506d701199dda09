------------------------------ MODULE TxProxy ------------------------------
(***************************************************************************)
(* op-txproxy: requests of eth_sendRawTransactionConditional, served       *)
(* concurrently, and the rate limiter that they share (golang.org/x/time,  *)
(* external: tokens may be taken ahead of time, and given back).           *)
(***************************************************************************)
EXTENDS Integers, FiniteSets

CONSTANTS
  CondRequests,  \* concurrent requests
  CondTxs,       \* what they may carry: tx, entrypoint, valid, cost
  CondEnabled,   \* SendRawTransactionConditionalEnabled
  CondRate,      \* SendRawTransactionConditionalRateLimit, per unit of time
  CondMaxCost,   \* params.TransactionConditionalMaxCost, also the burst
  CondTime       \* bound on time

ASSUME TxProxyAssumption ==
  /\ CondEnabled \in BOOLEAN /\ CondRate \in Nat \ {0} /\ CondMaxCost \in Nat /\ CondTime \in Nat
  /\ \A t \in CondTxs : t.cost \in Nat
  /\ IsFiniteSet(CondRequests)

VARIABLES
  tpNow,      \* time
  limiter,    \* tokens, when they were counted, time of the last reservation
  request,    \* each request: step, transaction, when it may act
  broadcast,  \* history: cost sent to the backend so far
  excess,     \* history: tokens given back that had not been taken
  tpMetrics   \* requests, failures, and costs observed

tpVars == <<tpNow, limiter, request, broadcast, excess, tpMetrics>>

NoTxn == [tx |-> FALSE, entrypoint |-> FALSE, valid |-> FALSE, cost |-> 0]

TpInit ==
  /\ tpNow = 0 /\ limiter = [tokens |-> CondMaxCost, last |-> 0, lastEvent |-> 0]
  /\ request = [r \in CondRequests |-> [at |-> "none", txn |-> NoTxn, act |-> 0]]
  /\ broadcast = 0 /\ excess = 0 /\ tpMetrics = [requests |-> 0, failures |-> 0, costs |-> 0]

\* The request is answered, and what it carried forgotten.
Ended == [at |-> "end", txn |-> NoTxn, act |-> 0]

Fails(r) ==
  /\ request' = [request EXCEPT ![r] = Ended]
  /\ tpMetrics' = [tpMetrics EXCEPT !.failures = @ + 1]

\* The checks of SendRawTransactionConditional and sendCondTx.
Rejected(t) ==
  ~CondEnabled \/ ~t.tx \/ ~t.entrypoint \/ ~t.valid \/ t.cost > CondMaxCost

SendRawTransactionConditional(r, t) ==
  /\ request[r].at = "none"
  /\ request' = [request EXCEPT ![r] = IF Rejected(t) THEN Ended ELSE [at |-> "limit", txn |-> t, act |-> 0]]
  /\ tpMetrics' = [tpMetrics EXCEPT !.requests = @ + 1, !.failures = IF Rejected(t) THEN @ + 1 ELSE @]
  /\ UNCHANGED <<tpNow, limiter, broadcast, excess>>

-----------------------------------------------------------------------------
(* The limiter. *)

Lesser(a, b) == IF a < b THEN a ELSE b
Advanced == Lesser(CondMaxCost, limiter.tokens + CondRate * (tpNow - limiter.last))

\* The time it takes for n tokens.
Duration(n) == (n + CondRate - 1) \div CondRate

\* WaitN for n tokens: they are taken, although they may be there only later.
Reserve(r, n) ==
  LET left == Advanced - n
      act == IF left < 0 THEN tpNow + Duration(-left) ELSE tpNow
  IN /\ limiter' = [tokens |-> left, last |-> tpNow, lastEvent |-> act]
     /\ request' = [request EXCEPT ![r].at = "wait", ![r].act = act]

\* Mutant of WaitN: one token for a request.
WaitNOne(r) ==
  /\ request[r].at = "limit" /\ Reserve(r, 1)
  /\ UNCHANGED <<tpNow, broadcast, excess, tpMetrics>>

\* WaitN takes the cost, unless the context is over or the wait would outlast it.
WaitN(r) ==
  /\ request[r].at = "limit"
  /\ \/ Reserve(r, request[r].txn.cost) /\ UNCHANGED tpMetrics
     \/ Fails(r) /\ UNCHANGED limiter
  /\ UNCHANGED <<tpNow, broadcast, excess>>

\* The context ends while WaitN waits: what later reservations do not count on
\* is given back, and nothing for a cost of zero.
WaitCancelled(r) ==
  LET n == request[r].txn.cost
      restored == IF n = 0 THEN 0 ELSE n - CondRate * (limiter.lastEvent - request[r].act)
      previous == request[r].act - Duration(n)
  IN /\ request[r].at = "wait" /\ request[r].act > tpNow
     /\ limiter' = IF restored <= 0 THEN limiter
                   ELSE [tokens |-> Lesser(CondMaxCost, Advanced + restored), last |-> tpNow,
                         lastEvent |-> IF request[r].act = limiter.lastEvent /\ previous >= tpNow
                                         THEN previous ELSE limiter.lastEvent]
     /\ excess' = IF restored > n THEN excess + restored - n ELSE excess
     /\ Fails(r)
     /\ UNCHANGED <<tpNow, broadcast>>

\* The cost is observed, and the transaction sent to the backend, which may
\* refuse it.
Broadcast(r) ==
  /\ request[r].at = "wait" /\ request[r].act <= tpNow
  /\ broadcast' = broadcast + request[r].txn.cost
  /\ request' = [request EXCEPT ![r] = Ended]
  /\ \E err \in BOOLEAN :
       tpMetrics' = [tpMetrics EXCEPT !.costs = @ + request[r].txn.cost, !.failures = IF err THEN @ + 1 ELSE @]
  /\ UNCHANGED <<tpNow, limiter, excess>>

TpTick ==
  /\ tpNow < CondTime /\ tpNow' = tpNow + 1
  /\ UNCHANGED <<limiter, request, broadcast, excess, tpMetrics>>

TpNext ==
  \/ \E r \in CondRequests :
       \/ \E t \in CondTxs : SendRawTransactionConditional(r, t)
       \/ WaitN(r) \/ WaitCancelled(r) \/ Broadcast(r)
  \/ TpTick

TpSpec == TpInit /\ [][TpNext]_tpVars

-----------------------------------------------------------------------------
(* Properties. *)

\* What is sent to the backend never costs more than the burst and the rate
\* allow, whatever was waiting, refused or cancelled meanwhile, but for what the
\* limiter gives back that it never took (a reservation cancelled after the last
\* one was moved ahead of it).  Requests that cost too much, go elsewhere or do
\* not validate are not sent at all.
CostWithinRate ==
  /\ broadcast <= CondMaxCost + CondRate * tpNow + excess
  /\ \A r \in CondRequests :
       request[r].at = "wait" => LET t == request[r].txn IN
         CondEnabled /\ t.tx /\ t.entrypoint /\ t.valid /\ t.cost <= CondMaxCost
=============================================================================
