---------------------------- MODULE WindowProofs ----------------------------
(***************************************************************************)
(* Sums over what is kept, for any sizes and any number of callers: the    *)
(* sliding windows a backend's health is read from, and the limiter of op- *)
(* txproxy.                                                                *)
(***************************************************************************)
EXTENDS SlidingWindow, TxProxy, FiniteSetTheorems, NumberProofs, TLAPS

-----------------------------------------------------------------------------
(***************************************************************************)
(* TxProxy: the tokens of x/time/rate may be negative, so that what was    *)
(* sent is bounded together with what is waited for: at each time to come, *)
(* by the tokens there will be then.                                       *)
(***************************************************************************)

(* op-txproxy's limiter. *)

\* The requests, in some order.
Ordered == CHOOSE f : f \in Bijection(1 .. Cardinality(CondRequests), CondRequests)

\* What the waiting ones of some requests took that may act until t, and what
\* all of them took.
Acting(q, t) ==
  [i \in 1 .. Cardinality(CondRequests) |->
     IF q[Ordered[i]].at = "wait" /\ q[Ordered[i]].act <= t THEN q[Ordered[i]].txn.cost ELSE 0]
Waiting(q) ==
  [i \in 1 .. Cardinality(CondRequests) |-> IF q[Ordered[i]].at = "wait" THEN q[Ordered[i]].txn.cost ELSE 0]
ActingCost(q, t) == Total(Acting(q, t), Cardinality(CondRequests))
WaitingCost(q) == Total(Waiting(q), Cardinality(CondRequests))

\* What was sent and what is waited for is covered by the tokens there were:
\* all of it by those that are taken, and what may be sent until t by those that
\* there are at t.
TpTypes ==
  /\ tpNow \in Nat /\ broadcast \in Nat /\ excess \in Nat
  /\ limiter.tokens \in Int /\ limiter.last \in Nat /\ limiter.lastEvent \in Nat
  /\ limiter.last <= tpNow
  /\ DOMAIN request = CondRequests
  /\ \A r \in CondRequests :
       /\ DOMAIN request[r] = {"at", "txn", "act"}
       /\ request[r].act \in Nat /\ request[r].txn.cost \in Nat
Covered ==
  /\ limiter.tokens - CondRate * limiter.last + WaitingCost(request) + broadcast <= CondMaxCost + excess
  /\ \A t \in Nat : t >= tpNow => ActingCost(request, t) + broadcast <= CondMaxCost + CondRate * t + excess
Checked ==
  \A r \in CondRequests :
    request[r].at \in {"limit", "wait"} => LET t == request[r].txn IN
      CondEnabled /\ t.tx /\ t.entrypoint /\ t.valid /\ t.cost <= CondMaxCost
TpInv == TpTypes /\ Covered /\ Checked

\* Each request has one place in the order.
LEMMA Numbered ==
  /\ Cardinality(CondRequests) \in Nat
  /\ \A i \in 1 .. Cardinality(CondRequests) : Ordered[i] \in CondRequests
  /\ \A r \in CondRequests : \E i \in 1 .. Cardinality(CondRequests) :
       Ordered[i] = r /\ \A j \in 1 .. Cardinality(CondRequests) : Ordered[j] = r => j = i
<1>1. Cardinality(CondRequests) \in Nat /\ ExistsBijection(1 .. Cardinality(CondRequests), CondRequests)
  BY FS_CardinalityType, TxProxyAssumption, Zenon
<1>2. Ordered \in Bijection(1 .. Cardinality(CondRequests), CondRequests)
  BY <1>1, Zenon DEF Ordered, ExistsBijection
<1> HIDE DEF Ordered
<1> QED
  BY <1>1, <1>2 DEF Bijection, Injection, Surjection, IsInjective

\* The requests cost naturals.
Costed(q) == \A r \in CondRequests : q[r].txn.cost \in Nat

\* What the requests took is a number, and those that may act are among those
\* that wait.
LEMMA TookNumbers ==
  ASSUME NEW q, Costed(q), NEW t \in Nat
  PROVE ActingCost(q, t) \in Nat /\ WaitingCost(q) \in Nat /\ ActingCost(q, t) <= WaitingCost(q)
<1> DEFINE a == Acting(q, t)
           w == Waiting(q)
           n == Cardinality(CondRequests)
<1>1. n \in Nat /\ \A i \in 1 .. n : Ordered[i] \in CondRequests
  BY Numbered, Zenon
<1>2. \A i \in 1 .. n : a[i] \in Nat /\ w[i] \in Nat /\ a[i] <= w[i]
  <2> TAKE i \in 1 .. n
  <2>1. q[Ordered[i]].txn.cost \in Nat
    BY <1>1, Zenon DEF Costed
  <2> QED
    BY <2>1 DEF Acting, Waiting
<1> HIDE DEF a, w, n
<1>3. Total(a, n) \in Nat /\ Total(w, n) \in Nat /\ Total(a, n) <= Total(w, n)
  BY <1>1, <1>2, TotalNat, TotalLess, Zenon
<1> QED
  BY <1>3, Zenon DEF a, w, n, ActingCost, WaitingCost

\* The requests q are those of p, but for r, which waits in q and not in p.
Joins(p, q, r) ==
  /\ Costed(p) /\ Costed(q) /\ \A s \in CondRequests \ {r} : q[s] = p[s]
  /\ p[r].at # "wait" /\ q[r].at = "wait" /\ q[r].act \in Nat

\* What a request takes that begins to wait is added; what it took when it waits
\* no longer is deducted.
LEMMA Took ==
  ASSUME NEW p, NEW q, NEW r \in CondRequests, Joins(p, q, r), NEW t \in Nat
  PROVE /\ WaitingCost(q) = WaitingCost(p) + q[r].txn.cost
        /\ q[r].act <= t => ActingCost(q, t) = ActingCost(p, t) + q[r].txn.cost
        /\ q[r].act > t => ActingCost(q, t) = ActingCost(p, t)
<1> DEFINE n == Cardinality(CondRequests)
<1> DEFINE c == q[r].txn.cost
<1>1. n \in Nat /\ \A i \in 1 .. n : Ordered[i] \in CondRequests
  BY Numbered, Zenon
<1>2. PICK i \in 1 .. n : Ordered[i] = r /\ \A j \in 1 .. n : Ordered[j] = r => j = i
  BY Numbered, Zenon
<1>3. c \in Nat
  BY Zenon DEF Joins, Costed
<1>4. Raised(Waiting(q), Waiting(p), n, i, c)
  BY <1>1, <1>2, <1>3 DEF Raised, Waiting, Joins, Costed
<1>5. WaitingCost(q) = WaitingCost(p) + c
  <2> HIDE DEF n, c
  <2>1. Total(Waiting(q), n) = Total(Waiting(p), n) + c
    BY <1>1, <1>2, <1>3, <1>4, TotalRaised
  <2> QED
    BY <2>1, Zenon DEF n, WaitingCost
<1>6. ASSUME q[r].act <= t PROVE ActingCost(q, t) = ActingCost(p, t) + c
  <2>1. Raised(Acting(q, t), Acting(p, t), n, i, c)
    BY <1>1, <1>2, <1>3, <1>6 DEF Raised, Acting, Joins, Costed
  <2> HIDE DEF n, c
  <2>2. Total(Acting(q, t), n) = Total(Acting(p, t), n) + c
    BY <1>1, <1>2, <1>3, <2>1, TotalRaised
  <2> QED
    BY <2>2, Zenon DEF n, ActingCost
<1>7. ASSUME q[r].act > t PROVE ActingCost(q, t) = ActingCost(p, t)
  <2>1. ~ (q[r].act <= t)
    BY <1>7 DEF Joins
  <2>2. Acting(q, t) = Acting(p, t)
    BY <1>1, <2>1, Zenon DEF Acting, Joins
  <2> QED
    BY <2>2, Zenon DEF ActingCost
<1> QED
  BY <1>5, <1>6, <1>7, Zenon

\* The requests q are those of p, but for r, which waits in neither.
Apart(p, q, r) ==
  /\ \A s \in CondRequests \ {r} : q[s] = p[s]
  /\ p[r].at # "wait" /\ q[r].at # "wait"

\* A request that does not wait takes nothing.
LEMMA TookNothing ==
  ASSUME NEW p, NEW q, NEW r \in CondRequests, Apart(p, q, r)
  PROVE WaitingCost(q) = WaitingCost(p) /\ \A t \in Nat : ActingCost(q, t) = ActingCost(p, t)
<1>1. \A i \in 1 .. Cardinality(CondRequests) : Ordered[i] \in CondRequests
  BY Numbered, Zenon
<1>2. Waiting(q) = Waiting(p)
  BY <1>1, Zenon DEF Waiting, Apart
<1>3. \A t \in Nat : Acting(q, t) = Acting(p, t)
  BY <1>1 DEF Acting, Apart
<1> QED
  BY <1>2, <1>3, Zenon DEF WaitingCost, ActingCost

\* The numbers of the limiter: what there is now, and the time n tokens take.
LEMMA TokensNow ==
  ASSUME TpTypes
  PROVE /\ CondRate \in Nat \ {0} /\ CondMaxCost \in Nat
        /\ Advanced \in Int /\ Advanced <= CondMaxCost
        /\ Advanced - CondRate * tpNow <= limiter.tokens - CondRate * limiter.last
        /\ \A n \in Nat : Duration(n) \in Nat /\ n <= CondRate * Duration(n)
<1>1. CondRate \in Nat \ {0} /\ CondMaxCost \in Nat
  BY TxProxyAssumption, Zenon
<1>2. tpNow \in Nat /\ limiter.tokens \in Int /\ limiter.last \in Nat
  BY Zenon DEF TpTypes
<1>3. CondRate * (tpNow - limiter.last) = CondRate * tpNow - CondRate * limiter.last
  BY <1>1, <1>2
<1>4. CondRate * tpNow \in Int /\ CondRate * limiter.last \in Int
  BY <1>1, <1>2
<1>5. Advanced \in Int /\ Advanced <= CondMaxCost
      /\ Advanced - CondRate * tpNow <= limiter.tokens - CondRate * limiter.last
  BY <1>1, <1>2, <1>3, <1>4 DEF Advanced, Lesser
<1>6. ASSUME NEW n \in Nat PROVE Duration(n) \in Nat /\ n <= CondRate * Duration(n)
  <2> DEFINE m == n + CondRate - 1
  <2>1. m \in Nat /\ Duration(n) = m \div CondRate
    BY <1>1 DEF Duration
  <2> HIDE DEF m
  <2>2. m \div CondRate \in Nat /\ m < CondRate * (m \div CondRate) + CondRate
    BY <1>1, <2>1, DivBounds, Zenon
  <2>3. CondRate * (m \div CondRate) \in Nat
    BY <1>1, <2>2
  <2> QED
    BY <1>1, <2>1, <2>2, <2>3 DEF m
<1> QED
  BY <1>1, <1>5, <1>6, Zenon

\* Requests that take nothing leave what is covered.
LEMMA CoveredApart ==
  ASSUME TpInv, TpTypes', UNCHANGED <<tpNow, limiter, broadcast, excess>>,
         NEW r \in CondRequests, Apart(request, request', r)
  PROVE Covered'
<1>1. WaitingCost(request') = WaitingCost(request) /\ \A t \in Nat : ActingCost(request', t) = ActingCost(request, t)
  BY TookNothing, Zenon
<1> QED
  BY <1>1, Zenon DEF TpInv, Covered

\* A request that is answered costs nothing and waits for nothing.
LEMMA EndedRequest ==
  ASSUME TpTypes, NEW r \in CondRequests, request' = [request EXCEPT ![r] = Ended]
  PROVE /\ request'[r].at = "end" /\ request'[r].act \in Nat /\ request'[r].txn.cost \in Nat
        /\ DOMAIN request'[r] = {"at", "txn", "act"}
        /\ DOMAIN request' = CondRequests /\ \A s \in CondRequests \ {r} : request'[s] = request[s]
<1>1. request'[r] = Ended /\ DOMAIN request' = CondRequests /\ \A s \in CondRequests \ {r} : request'[s] = request[s]
  BY Zenon DEF TpTypes
<1>2. Ended.at = "end" /\ Ended.act = 0 /\ Ended.txn = NoTxn /\ DOMAIN Ended = {"at", "txn", "act"}
  BY DEF Ended
<1>3. NoTxn.cost = 0
  BY Zenon DEF NoTxn
<1>4. 0 \in Nat
  OBVIOUS
<1> QED
  BY <1>1, <1>2, <1>3, <1>4, Zenon

\* The invariant holds of a full bucket.
LEMMA TpInitially == TpInit => TpInv
<1> SUFFICES ASSUME TpInit PROVE TpInv
  BY Zenon
<1>0. CondRate \in Nat \ {0} /\ CondMaxCost \in Nat
  BY TxProxyAssumption, Zenon
<1>1. TpTypes
  <2>1. tpNow = 0 /\ broadcast = 0 /\ excess = 0
        /\ limiter.tokens = CondMaxCost /\ limiter.last = 0 /\ limiter.lastEvent = 0
    BY Zenon DEF TpInit
  <2>2. DOMAIN request = CondRequests
    BY Zenon DEF TpInit
  <2>3. ASSUME NEW r \in CondRequests
        PROVE /\ DOMAIN request[r] = {"at", "txn", "act"}
              /\ request[r].act = 0 /\ request[r].txn.cost = 0
    <3>1. request[r] = [at |-> "none", txn |-> NoTxn, act |-> 0]
      BY Zenon DEF TpInit
    <3>2. NoTxn.cost = 0
      BY Zenon DEF NoTxn
    <3>3. PICK x : x = NoTxn
      BY Zenon
    <3>4. request[r] = [at |-> "none", txn |-> x, act |-> 0] /\ x.cost = 0
      BY <3>1, <3>2, <3>3, Zenon
    <3>5. DOMAIN request[r] = {"at", "txn", "act"} /\ request[r].act = 0
      BY <3>4
    <3>6. request[r].txn = x
      BY <3>4
    <3> QED
      BY <3>4, <3>5, <3>6, Zenon
  <2> QED
    BY <1>0, <2>1, <2>2, <2>3 DEF TpTypes
<1>2. Checked
  BY Zenon DEF TpInit, Checked
<1>3. Covered
  <2>1. Costed(request)
    BY <1>1, Zenon DEF TpTypes, Costed
  <2>2. WaitingCost(request) = 0
    <3>1. \A i \in 1 .. Cardinality(CondRequests) : Ordered[i] \in CondRequests
      BY Numbered, Zenon
    <3>2. Waiting(request) = [i \in 1 .. Cardinality(CondRequests) |-> 0]
      BY <3>1, Zenon DEF Waiting, TpInit
    <3> QED
      BY <3>2, Numbered, TotalZero, Zenon DEF WaitingCost
  <2>3. ASSUME NEW t \in Nat PROVE ActingCost(request, t) = 0
    <3>1. ActingCost(request, t) \in Nat /\ ActingCost(request, t) <= WaitingCost(request)
      BY <2>1, TookNumbers, Zenon
    <3> QED
      BY <2>2, <3>1
  <2>4. \A t \in Nat : CondRate * t \in Nat
    BY <1>0
  <2>5. tpNow = 0 /\ broadcast = 0 /\ excess = 0 /\ limiter.tokens = CondMaxCost /\ limiter.last = 0
    BY Zenon DEF TpInit
  <2> QED
    BY <1>0, <2>2, <2>3, <2>4, <2>5 DEF Covered
<1> QED
  BY <1>1, <1>2, <1>3, Zenon DEF TpInv

\* Checking a transaction takes no token.
LEMMA EntersInv ==
  ASSUME TpInv, NEW r \in CondRequests, NEW x \in CondTxs, SendRawTransactionConditional(r, x)
  PROVE TpInv'
<1>d. /\ request[r].at = "none" /\ UNCHANGED <<tpNow, limiter, broadcast, excess>>
      /\ request' = [request EXCEPT ![r] = IF Rejected(x) THEN Ended ELSE [at |-> "limit", txn |-> x, act |-> 0]]
  BY Zenon DEF SendRawTransactionConditional
<1>0. x.cost \in Nat /\ 0 \in Nat
  BY TxProxyAssumption
<1>1. /\ request'[r].at # "wait" /\ request'[r].act \in Nat /\ request'[r].txn.cost \in Nat
      /\ DOMAIN request'[r] = {"at", "txn", "act"}
      /\ request'[r].at \in {"limit", "wait"} => ~Rejected(x) /\ request'[r].txn = x
      /\ DOMAIN request' = CondRequests /\ \A s \in CondRequests \ {r} : request'[s] = request[s]
  <2>1. CASE Rejected(x)
    <3>1. request' = [request EXCEPT ![r] = Ended]
      BY <1>d, <2>1, Zenon
    <3> QED
      BY <1>0, <3>1, EndedRequest, Zenon DEF TpInv
  <2>2. CASE ~Rejected(x)
    <3>1. request' = [request EXCEPT ![r] = [at |-> "limit", txn |-> x, act |-> 0]]
      BY <1>d, <2>2, Zenon
    <3>2. /\ request'[r] = [at |-> "limit", txn |-> x, act |-> 0]
          /\ DOMAIN request' = CondRequests /\ \A s \in CondRequests \ {r} : request'[s] = request[s]
      BY <3>1, Zenon DEF TpInv, TpTypes
    <3>3. /\ request'[r].at = "limit" /\ request'[r].txn = x /\ request'[r].act = 0
          /\ DOMAIN request'[r] = {"at", "txn", "act"}
      BY <3>2
    <3> QED
      BY <1>0, <2>2, <3>2, <3>3, Zenon
  <2> QED
    BY <2>1, <2>2, Zenon
<1>2. TpTypes'
  BY <1>0, <1>1, <1>d, Zenon DEF TpInv, TpTypes
<1>3. Apart(request, request', r)
  BY <1>1, <1>d, Zenon DEF Apart
<1>4. Covered'
  BY <1>2, <1>3, <1>d, CoveredApart, Zenon
<1>5. Checked'
  <2>1. ASSUME ~Rejected(x) PROVE CondEnabled /\ x.tx /\ x.entrypoint /\ x.valid /\ x.cost <= CondMaxCost
    <3>1. x.cost \in Nat /\ CondMaxCost \in Nat
      BY TxProxyAssumption, Zenon
    <3>2. CondEnabled /\ x.tx /\ x.entrypoint /\ x.valid /\ ~ (x.cost > CondMaxCost)
      BY <2>1, Zenon DEF Rejected
    <3> QED
      BY <3>1, <3>2
  <2>2. \A s \in CondRequests \ {r} : request'[s] = request[s]
    BY <1>1, Zenon
  <2>3. request'[r].at \in {"limit", "wait"} => ~Rejected(x) /\ request'[r].txn = x
    BY <1>1, Zenon
  <2> QED
    BY <2>1, <2>2, <2>3, Zenon DEF TpInv, Checked
<1> QED
  BY <1>2, <1>4, <1>5, Zenon DEF TpInv

\* WaitN takes the tokens of a request from those there will be when it acts.
LEMMA WaitNInv ==
  ASSUME TpInv, NEW r \in CondRequests, WaitN(r)
  PROVE TpInv'
<1> DEFINE n == request[r].txn.cost
<1> USE DEF TpInv
<1>0. request[r].at = "limit" /\ n \in Nat /\ tpNow \in Nat /\ broadcast \in Nat /\ excess \in Nat
  BY Zenon DEF WaitN, TpTypes
<1>1. /\ CondRate \in Nat \ {0} /\ CondMaxCost \in Nat
      /\ Advanced \in Int /\ Advanced <= CondMaxCost
      /\ Advanced - CondRate * tpNow <= limiter.tokens - CondRate * limiter.last
      /\ \A k \in Nat : Duration(k) \in Nat /\ k <= CondRate * Duration(k)
  BY TokensNow, Zenon
<1>2. CASE Reserve(r, n) /\ UNCHANGED tpMetrics
  <2> DEFINE left == Advanced - n
             act == IF left < 0 THEN tpNow + Duration(-left) ELSE tpNow
  <2>1. /\ limiter' = [tokens |-> left, last |-> tpNow, lastEvent |-> act]
        /\ request' = [request EXCEPT ![r].at = "wait", ![r].act = act]
    BY <1>2, Zenon DEF Reserve
  <2>2. left \in Int /\ act \in Nat /\ act >= tpNow
    BY <1>0, <1>1
  <2>3. -left <= CondRate * act - CondRate * tpNow
    <3>1. CASE left < 0
      <4>1. Duration(-left) \in Nat /\ -left <= CondRate * Duration(-left) /\ act = tpNow + Duration(-left)
        BY <1>1, <2>2, <3>1
      <4> HIDE DEF act, left
      <4>2. CondRate * (tpNow + Duration(-left)) = CondRate * tpNow + CondRate * Duration(-left)
        BY <1>0, <1>1, <4>1
      <4>3. CondRate * tpNow \in Int /\ CondRate * Duration(-left) \in Int
        BY <1>0, <1>1, <4>1
      <4> QED
        BY <2>2, <4>1, <4>2, <4>3
    <3>2. CASE ~ (left < 0)
      BY <1>0, <1>1, <2>2, <3>2
    <3> QED
      BY <3>1, <3>2, Zenon
  <2> HIDE DEF left, act
  <2>4. /\ request'[r].txn = request[r].txn /\ request'[r].act = act /\ request'[r].at = "wait"
        /\ DOMAIN request'[r] = DOMAIN request[r]
        /\ DOMAIN request' = CondRequests /\ \A s \in CondRequests \ {r} : request'[s] = request[s]
    BY <2>1, Zenon DEF TpTypes
  <2>5. UNCHANGED <<tpNow, broadcast, excess>>
    BY Zenon DEF WaitN
  <2>6. limiter'.tokens = left /\ limiter'.last = tpNow /\ limiter'.lastEvent = act
    BY <2>1, Zenon
  <2>7. TpTypes'
    BY <2>2, <2>4, <2>5, <2>6 DEF TpTypes
  <2>8. Joins(request, request', r)
    BY <1>0, <2>2, <2>4, Zenon DEF Joins, Costed, TpTypes
  <2>9. /\ WaitingCost(request') = WaitingCost(request) + n
        /\ \A t \in Nat : act > t => ActingCost(request', t) = ActingCost(request, t)
    <3>1. \A t \in Nat : /\ WaitingCost(request') = WaitingCost(request) + request'[r].txn.cost
                         /\ request'[r].act > t => ActingCost(request', t) = ActingCost(request, t)
      BY <2>8, Took
    <3> QED
      BY <2>4, <3>1, Zenon
  <2>10. WaitingCost(request) \in Nat /\ WaitingCost(request') \in Nat
         /\ \A t \in Nat : ActingCost(request', t) \in Nat /\ ActingCost(request', t) <= WaitingCost(request')
    BY <2>8, TookNumbers, Zenon DEF Joins
  <2>11. left - CondRate * tpNow + WaitingCost(request') + broadcast <= CondMaxCost + excess
    <3>1. limiter.tokens - CondRate * limiter.last + WaitingCost(request) + broadcast <= CondMaxCost + excess
      BY Zenon DEF Covered
    <3>2. limiter.tokens \in Int /\ CondRate * limiter.last \in Int /\ CondRate * tpNow \in Int
      BY <1>1 DEF TpTypes
    <3> QED
      BY <1>0, <1>1, <2>9, <2>10, <3>1, <3>2 DEF left
  <2>12. ASSUME NEW t \in Nat, t >= tpNow
         PROVE ActingCost(request', t) + broadcast <= CondMaxCost + CondRate * t + excess
    <3>1. CASE t < act
      BY <2>2, <2>9, <2>12, <3>1, Zenon DEF Covered
    <3>2. CASE t >= act
      <4>1. CondRate * act <= CondRate * t /\ CondRate * act \in Int /\ CondRate * t \in Int
            /\ CondRate * tpNow \in Int
        <5>1. act \in Int /\ t \in Int /\ CondRate \in Nat /\ act <= t /\ tpNow \in Int
          BY <1>0, <1>1, <2>2, <3>2
        <5>2. CondRate * act <= CondRate * t
          BY <5>1, TimesMonotone, Zenon
        <5> QED
          BY <5>1, <5>2
      <4>2. ActingCost(request', t) \in Nat /\ ActingCost(request', t) <= WaitingCost(request')
        BY <2>10, Zenon
      <4> QED
        BY <1>0, <1>1, <2>2, <2>3, <2>10, <2>11, <4>1, <4>2
    <3> QED
      BY <2>2, <3>1, <3>2
  <2>13. Covered'
    BY <2>5, <2>6, <2>11, <2>12, Zenon DEF Covered
  <2>14. Checked'
    BY <1>0, <2>4, Zenon DEF Checked
  <2> QED
    BY <2>7, <2>13, <2>14, Zenon
<1>3. CASE Fails(r) /\ UNCHANGED limiter
  <2>1. /\ request'[r].txn.cost \in Nat /\ request'[r].act \in Nat /\ request'[r].at = "end"
        /\ DOMAIN request'[r] = {"at", "txn", "act"}
        /\ DOMAIN request' = CondRequests /\ \A s \in CondRequests \ {r} : request'[s] = request[s]
    BY <1>3, EndedRequest, Zenon DEF Fails
  <2>2. TpTypes'
    BY <1>3, <2>1, Zenon DEF TpTypes, WaitN
  <2>3. Covered'
    BY <1>0, <1>3, <2>1, <2>2, CoveredApart, Zenon DEF Apart, WaitN
  <2>4. Checked'
    BY <2>1 DEF Checked
  <2> QED
    BY <2>2, <2>3, <2>4, Zenon
<1> QED
  BY <1>2, <1>3, Zenon DEF WaitN

\* A cancelled reservation gives back what it took, and what is given back
\* beyond is counted.
LEMMA WaitCancelledInv ==
  ASSUME TpInv, NEW r \in CondRequests, WaitCancelled(r)
  PROVE TpInv'
<1> USE DEF TpInv
<1> DEFINE n == request[r].txn.cost
           restored == IF n = 0 THEN 0 ELSE n - CondRate * (limiter.lastEvent - request[r].act)
           previous == request[r].act - Duration(n)
<1>0. /\ request[r].at = "wait" /\ n \in Nat /\ request[r].act \in Nat /\ tpNow \in Nat
      /\ broadcast \in Nat /\ excess \in Nat
      /\ limiter.tokens \in Int /\ limiter.last \in Nat /\ limiter.lastEvent \in Nat /\ limiter.last <= tpNow
  BY Zenon DEF WaitCancelled, TpTypes
<1>1. /\ CondRate \in Nat \ {0} /\ CondMaxCost \in Nat
      /\ Advanced \in Int /\ Advanced <= CondMaxCost
      /\ Advanced - CondRate * tpNow <= limiter.tokens - CondRate * limiter.last
      /\ Duration(n) \in Nat
  BY <1>0, TokensNow, Zenon
<1>2. restored \in Int /\ previous \in Int
  BY <1>0, <1>1
<1>a. excess' = IF restored > n THEN excess + restored - n ELSE excess
  BY Zenon DEF WaitCancelled
<1>3. /\ limiter' = IF restored <= 0 THEN limiter
                    ELSE [tokens |-> Lesser(CondMaxCost, Advanced + restored), last |-> tpNow,
                          lastEvent |-> IF request[r].act = limiter.lastEvent /\ previous >= tpNow
                                          THEN previous ELSE limiter.lastEvent]
      /\ Fails(r) /\ UNCHANGED <<tpNow, broadcast>>
  BY Zenon DEF WaitCancelled
<1> HIDE DEF n, restored, previous
<1>4. /\ request'[r].txn.cost \in Nat /\ request'[r].act \in Nat /\ request'[r].at = "end"
      /\ DOMAIN request'[r] = {"at", "txn", "act"}
      /\ DOMAIN request' = CondRequests /\ \A s \in CondRequests \ {r} : request'[s] = request[s]
  BY <1>3, EndedRequest, Zenon DEF Fails
<1>5. excess' \in Nat /\ excess' >= excess /\ excess' >= excess + restored - n
  BY <1>0, <1>2, <1>a
<1>6. /\ limiter'.tokens \in Int /\ limiter'.last \in Nat /\ limiter'.lastEvent \in Nat /\ limiter'.last <= tpNow
      /\ limiter'.tokens - CondRate * limiter'.last
           <= limiter.tokens - CondRate * limiter.last + (IF restored > 0 THEN restored ELSE 0)
  <2>1. CASE restored <= 0
    <3>1. limiter' = limiter
      BY <1>3, <2>1, Zenon
    <3>2. CondRate * limiter.last \in Int
      BY <1>0, <1>1
    <3> QED
      BY <1>0, <1>2, <2>1, <3>1, <3>2
  <2>2. CASE ~ (restored <= 0)
    <3>1. limiter'.tokens = Lesser(CondMaxCost, Advanced + restored) /\ limiter'.last = tpNow
          /\ limiter'.lastEvent = IF request[r].act = limiter.lastEvent /\ previous >= tpNow
                                    THEN previous ELSE limiter.lastEvent
      BY <1>3, <2>2, Zenon
    <3>2. limiter'.tokens \in Int /\ limiter'.tokens <= Advanced + restored
      BY <1>1, <1>2, <3>1 DEF Lesser
    <3>3. CondRate * tpNow \in Int /\ CondRate * limiter.last \in Int
      BY <1>0, <1>1
    <3> QED
      BY <1>0, <1>1, <1>2, <2>2, <3>1, <3>2, <3>3
  <2> QED
    BY <2>1, <2>2, Zenon
<1>7. TpTypes'
  BY <1>0, <1>3, <1>4, <1>5, <1>6, Zenon DEF TpTypes
<1>8. Joins(request', request, r)
  BY <1>0, <1>4, Zenon DEF Joins, Costed, TpTypes
<1>9. WaitingCost(request) = WaitingCost(request') + n
      /\ \A t \in Nat : ActingCost(request', t) <= ActingCost(request, t)
  <2>1. \A t \in Nat : /\ WaitingCost(request) = WaitingCost(request') + request[r].txn.cost
                       /\ request[r].act <= t => ActingCost(request, t) = ActingCost(request', t) + request[r].txn.cost
                       /\ request[r].act > t => ActingCost(request, t) = ActingCost(request', t)
    BY <1>8, Took
  <2>2. \A t \in Nat : ActingCost(request', t) \in Nat
    BY <1>8, TookNumbers, Zenon DEF Joins
  <2> QED
    BY <1>0, <2>1, <2>2 DEF n
<1>10. /\ WaitingCost(request) \in Nat /\ WaitingCost(request') \in Nat
       /\ \A t \in Nat : ActingCost(request', t) \in Nat /\ ActingCost(request, t) \in Nat
  BY <1>8, TookNumbers, Zenon DEF Joins
<1>11. Covered'
  <2>1. limiter'.tokens - CondRate * limiter'.last + WaitingCost(request') + broadcast <= CondMaxCost + excess'
    <3>1. limiter.tokens - CondRate * limiter.last + WaitingCost(request) + broadcast <= CondMaxCost + excess
      BY Zenon DEF Covered
    <3>2. CondRate * limiter.last \in Int /\ CondRate * limiter'.last \in Int
      BY <1>0, <1>1, <1>6
    <3> QED
      BY <1>0, <1>1, <1>2, <1>5, <1>6, <1>9, <1>10, <3>1, <3>2
  <2>2. ASSUME NEW t \in Nat, t >= tpNow
        PROVE ActingCost(request', t) + broadcast <= CondMaxCost + CondRate * t + excess'
    <3>1. ActingCost(request, t) + broadcast <= CondMaxCost + CondRate * t + excess
      BY <2>2, Zenon DEF Covered
    <3>2. CondRate * t \in Int
      BY <1>1
    <3> QED
      BY <1>0, <1>1, <1>5, <1>9, <1>10, <3>1, <3>2
  <2> QED
    BY <1>3, <2>1, <2>2, Zenon DEF Covered
<1>12. Checked'
  BY <1>4, Zenon DEF Checked
<1> QED
  BY <1>7, <1>11, <1>12, Zenon

\* A request that is sent goes from those waited for to those sent.
LEMMA BroadcastInv ==
  ASSUME TpInv, NEW r \in CondRequests,
         request[r].at = "wait", request[r].act <= tpNow,
         broadcast' = broadcast + request[r].txn.cost, UNCHANGED <<tpNow, limiter, excess>>,
         request' = [request EXCEPT ![r] = Ended]
  PROVE TpInv'
<1> USE DEF TpInv
<1> DEFINE n == request[r].txn.cost
<1>0. /\ request[r].at = "wait" /\ n \in Nat /\ request[r].act \in Nat /\ tpNow \in Nat /\ request[r].act <= tpNow
      /\ broadcast \in Nat /\ excess \in Nat
  BY Zenon DEF TpTypes
<1>1. request' = [request EXCEPT ![r] = Ended]
  BY Zenon
<1>2. broadcast' = broadcast + n /\ UNCHANGED <<tpNow, limiter, excess>>
  BY Zenon
<1> HIDE DEF n
<1>3. /\ request'[r].txn.cost \in Nat /\ request'[r].act \in Nat /\ request'[r].at = "end"
      /\ DOMAIN request'[r] = {"at", "txn", "act"}
      /\ DOMAIN request' = CondRequests /\ \A s \in CondRequests \ {r} : request'[s] = request[s]
  BY <1>1, EndedRequest, Zenon
<1>4. TpTypes'
  <2>1. broadcast' \in Nat
    BY <1>0, <1>2
  <2>2. UNCHANGED <<tpNow, limiter, excess>>
    BY <1>2, Zenon
  <2>3. \A s \in CondRequests : DOMAIN request'[s] = {"at", "txn", "act"}
       /\ request'[s].act \in Nat /\ request'[s].txn.cost \in Nat
    BY <1>3, Zenon DEF TpTypes
  <2> QED
    BY <2>1, <2>2, <2>3, <1>3 DEF TpTypes
<1>5. Joins(request', request, r)
  BY <1>0, <1>3, Zenon DEF Joins, Costed, TpTypes
<1>6. /\ WaitingCost(request) = WaitingCost(request') + n
      /\ \A t \in Nat : t >= tpNow => ActingCost(request, t) = ActingCost(request', t) + n
  <2>1. \A t \in Nat : /\ WaitingCost(request) = WaitingCost(request') + request[r].txn.cost
                       /\ request[r].act <= t => ActingCost(request, t) = ActingCost(request', t) + request[r].txn.cost
    BY <1>5, Took
  <2>2. \A t \in Nat : t >= tpNow => request[r].act <= t
    BY <1>0
  <2>3. WaitingCost(request) = WaitingCost(request') + n
    BY <2>1, Zenon DEF n
  <2> QED
    BY <2>1, <2>2, <2>3, Zenon DEF n
<1>7. /\ WaitingCost(request) \in Nat /\ WaitingCost(request') \in Nat
      /\ \A t \in Nat : ActingCost(request', t) \in Nat /\ ActingCost(request, t) \in Nat
  BY <1>5, TookNumbers, Zenon DEF Joins
<1>8. Covered'
  <2>1. WaitingCost(request') + broadcast' = WaitingCost(request) + broadcast
    BY <1>0, <1>2, <1>6, <1>7
  <2>2. ASSUME NEW t \in Nat, t >= tpNow
        PROVE ActingCost(request', t) + broadcast' = ActingCost(request, t) + broadcast
    <3>1. ActingCost(request', t) \in Nat /\ ActingCost(request, t) = ActingCost(request', t) + n
      BY <1>6, <1>7, <2>2, Zenon
    <3> QED
      BY <1>0, <1>2, <3>1
  <2>3. limiter.tokens - CondRate * limiter.last + (WaitingCost(request) + broadcast) <= CondMaxCost + excess
    <3>1. limiter.tokens - CondRate * limiter.last \in Int
      BY TxProxyAssumption DEF TpTypes
    <3> QED
      BY <1>0, <1>7, <3>1 DEF Covered
  <2>4. limiter.tokens - CondRate * limiter.last + WaitingCost(request') + broadcast' <= CondMaxCost + excess
    <3>1. limiter.tokens - CondRate * limiter.last \in Int
      BY TxProxyAssumption DEF TpTypes
    <3> QED
      BY <1>0, <1>2, <1>7, <2>1, <2>3, <3>1
  <2> QED
    BY <1>2, <2>2, <2>4, Zenon DEF Covered
<1>9. Checked'
  BY <1>3 DEF Checked
<1> QED
  BY <1>4, <1>8, <1>9, Zenon

\* The requests keep what op-txproxy's limiter covers.
LEMMA TpStepInv == TpInv /\ [TpNext]_tpVars => TpInv'
<1> SUFFICES ASSUME TpInv, [TpNext]_tpVars PROVE TpInv'
  BY Zenon
<1>1. CASE \E r \in CondRequests : \E x \in CondTxs : SendRawTransactionConditional(r, x)
  BY <1>1, EntersInv, Zenon
<1>2. CASE \E r \in CondRequests : WaitN(r)
  BY <1>2, WaitNInv, Zenon
<1>3. CASE \E r \in CondRequests : WaitCancelled(r)
  BY <1>3, WaitCancelledInv, Zenon
<1>4. CASE \E r \in CondRequests : Broadcast(r)
  BY <1>4, BroadcastInv, Zenon DEF Broadcast
<1>5. CASE TpTick
  <2>1. tpNow' = tpNow + 1 /\ UNCHANGED <<limiter, request, broadcast, excess>> /\ tpNow \in Nat
    BY <1>5, Zenon DEF TpTick, TpInv, TpTypes
  <2>2. \A t \in Nat : t >= tpNow + 1 => t >= tpNow
    BY <2>1
  <2> QED
    BY <2>1, <2>2 DEF TpInv, TpTypes, Covered, Checked
<1>6. CASE UNCHANGED tpVars
  BY <1>6, Zenon DEF tpVars, TpInv, TpTypes, Covered, Checked
<1> QED
  BY <1>1, <1>2, <1>3, <1>4, <1>5, <1>6, Zenon DEF TpNext

\* What op-txproxy sends never costs more than the burst and the rate allow, but
\* for what its limiter gives back that it never took, and only requests that
\* pass all of the checks wait for it.
THEOREM CostWithinRateHolds == TpSpec => []CostWithinRate
<1>1. ASSUME TpInv PROVE CostWithinRate
  <2>1. broadcast <= CondMaxCost + CondRate * tpNow + excess
    <3>1. tpNow \in Nat /\ broadcast \in Nat /\ excess \in Nat /\ CondMaxCost \in Nat /\ CondRate * tpNow \in Int
      BY <1>1, TxProxyAssumption DEF TpInv, TpTypes
    <3>2. ActingCost(request, tpNow) \in Nat
      BY <1>1, <3>1, TookNumbers, Zenon DEF TpInv, TpTypes, Costed
    <3>3. ActingCost(request, tpNow) + broadcast <= CondMaxCost + CondRate * tpNow + excess
      BY <1>1, <3>1 DEF TpInv, Covered
    <3> QED
      BY <3>1, <3>2, <3>3
  <2>2. \A r \in CondRequests :
          request[r].at = "wait" => LET t == request[r].txn IN
            CondEnabled /\ t.tx /\ t.entrypoint /\ t.valid /\ t.cost <= CondMaxCost
    BY <1>1, Zenon DEF TpInv, Checked
  <2> QED
    BY <2>1, <2>2, Zenon DEF CostWithinRate
<1> QED
  BY <1>1, TpInitially, TpStepInv, PTL DEF TpSpec

-----------------------------------------------------------------------------
(***************************************************************************)
(* SlidingWindow: a total is the sum of its buckets, which advance changes *)
(* in two ways.  The proofs go by the partial sums of the buckets, and by  *)
(* the order of the buckets but for those inserted late.  No bucket is     *)
(* newer than the last add, so that a window that counts something had an  *)
(* add within its length.                                                  *)
(***************************************************************************)

(* Rounding. *)

\* Rounding to buckets keeps the order, and a lag of whole buckets.
LEMMA RoundOrder ==
  ASSUME NEW t \in Nat, NEW u \in Nat
  PROVE /\ Round(t) \in Nat
        /\ t <= u => Round(t) <= Round(u)
        /\ u <= t + WindowLag => Round(u) <= Round(t) + WindowLag
<1> DEFINE half == BucketSize \div 2
<1> DEFINE Lag == WindowLag \div BucketSize
<1> DEFINE r(x) == (x + half) \div BucketSize
<1>1. BucketSize \in Nat \ {0} /\ WindowLag \in Nat /\ WindowLag % BucketSize = 0
  BY WindowAssumption, Zenon
<1>2. half \in Nat
  BY <1>1
<1>3. Lag \in Nat /\ WindowLag = BucketSize * Lag
  BY <1>1
<1> HIDE DEF half, Lag
<1>4. ASSUME NEW x \in Nat PROVE r(x) \in Nat /\ Round(x) = r(x) * BucketSize /\ x + half \in Nat
  BY <1>1, <1>2, DivBounds DEF Round, half
<1>5. ASSUME NEW p \in Nat, NEW q \in Nat, p <= q PROVE p * BucketSize <= q * BucketSize
  <2>1. BucketSize * p <= BucketSize * q
    BY <1>1, <1>5, TimesMonotone
  <2> QED
    BY <1>1, <2>1
<1>6. t <= u => r(t) <= r(u)
  BY <1>1, <1>2, DivMonotone
<1>7. u <= t + WindowLag => r(u) <= r(t) + Lag
  <2> SUFFICES ASSUME u <= t + WindowLag PROVE r(u) <= r(t) + Lag
    BY Zenon
  <2> DEFINE p == r(t)
  <2> DEFINE q == r(u)
  <2>1. /\ p \in Nat /\ t + half < BucketSize * p + BucketSize
        /\ q \in Nat /\ BucketSize * q <= u + half
    BY <1>1, <1>2, DivBounds
  <2> HIDE DEF p, q
  <2>2. BucketSize * q < BucketSize * p + BucketSize + BucketSize * Lag
    BY <1>1, <1>2, <1>3, <2>1
  <2>3. CASE q > p + Lag
    <3>1. BucketSize * (p + Lag + 1) <= BucketSize * q
      BY <1>1, <1>3, <2>1, <2>3, TimesMonotone
    <3>2. BucketSize * (p + Lag + 1) = BucketSize * p + BucketSize * Lag + BucketSize
      BY <1>1, <1>3, <2>1
    <3> QED
      BY <1>1, <1>3, <2>1, <2>2, <3>1, <3>2
  <2> QED
    BY <1>3, <2>1, <2>3 DEF p, q
<1> QED
  <2>1. r(t) \in Nat /\ r(u) \in Nat /\ Round(t) = r(t) * BucketSize /\ Round(u) = r(u) * BucketSize
    BY <1>4, Zenon
  <2> HIDE DEF r
  <2>2. Round(t) \in Nat
    BY <1>1, <2>1
  <2>3. t <= u => Round(t) <= Round(u)
    BY <1>5, <1>6, <2>1, Zenon
  <2>4. (r(t) + Lag) * BucketSize = Round(t) + WindowLag
    BY <1>1, <1>3, <2>1
  <2>5. u <= t + WindowLag => Round(u) <= Round(t) + WindowLag
    BY <1>3, <1>5, <1>7, <2>1, <2>4
  <2> QED
    BY <2>2, <2>3, <2>5, Zenon

-----------------------------------------------------------------------------
(* The invariant of the windows. *)

Bucket == [key : Nat, sum : Nat, qty : Nat]

\* The Adds called on a window that have not inserted their point yet.
Pending(w) == {a \in Adders : adder[a].pc # "idle" /\ adder[a].window = w}

WinTypes ==
  /\ swNow \in Nat /\ buckets \in [Windows -> Seq(Bucket)]
  /\ qty \in [Windows -> Nat] /\ sum \in [Windows -> Nat] /\ added \in [Windows -> Nat]
  /\ adder \in [Adders -> [pc : {"idle", "advance", "insert"}, window : Windows, t : Nat]]

\* The totals are those of the buckets; no bucket is of the future, and a bucket
\* is older than one before it by what an Add may lag, at most.
BucketsInv(w) ==
  /\ qty[w] = QtyOf(buckets[w]) /\ sum[w] = SumOf(buckets[w])
  /\ \A i \in DOMAIN buckets[w] : buckets[w][i].key <= Round(swNow)
  /\ \A i, j \in DOMAIN buckets[w] : i < j => buckets[w][i].key <= buckets[w][j].key + WindowLag

\* An Add that is under way was timed before now, and lags by its bound at most.
AddersInv == \A a \in Adders : adder[a].pc # "idle" => adder[a].t <= swNow /\ swNow <= adder[a].t + WindowLag

\* A window of ones holds no more than was added and has been inserted.
CountsInv == \A w \in {"requests", "errors"} : sum[w] + Cardinality(Pending(w)) <= added[w]

HadRequests == added["requests"] >= MinRequests

UnhealthyHad == health.verdict = "errors" => added["errors"] > 0 /\ HadRequests

HealthInv ==
  /\ DOMAIN health = DOMAIN NoHealth
  /\ health.at \in Nat /\ health.at <= swNow
  /\ health.errors \in Nat /\ health.errors <= added["errors"]
  /\ \A p \in DOMAIN Evict : health.pc = Evict[p] =>
       \A i \in DOMAIN buckets[Reads[p]] :
         buckets[Reads[p]][i].key > Round(health.at) - WindowLength - WindowLag
  /\ health.pc \in {"errors", "readErrors", "total", "readTotal"} => HadRequests
  /\ health.overRate => HadRequests /\ added["errors"] > 0
  /\ UnhealthyHad

WinInv ==
  /\ WinTypes /\ AddersInv /\ CountsInv /\ HealthInv
  /\ \A w \in Windows : BucketsInv(w)

\* The beginning and the length of the window are numbers.
LEMMA WindowNumbers ==
  ASSUME WinTypes
  PROVE /\ Round(swNow) \in Nat /\ WindowStart \in Int /\ WindowLength \in Nat /\ WindowLag \in Nat
        /\ WindowStart = Round(swNow) - WindowLength
BY RoundOrder, WindowAssumption DEF WinTypes, WindowStart

\* The totals of buckets.
LEMMA TotalsNat ==
  ASSUME NEW bs \in Seq(Bucket)
  PROVE /\ Len(bs) \in Nat /\ DOMAIN bs = 1 .. Len(bs)
        /\ \A i \in 1 .. Len(bs) : bs[i] \in Bucket /\ bs[i].key \in Nat /\ bs[i].sum \in Nat /\ bs[i].qty \in Nat
        /\ QtyOf(bs) \in Nat /\ SumOf(bs) \in Nat
<1> DEFINE s == [i \in DOMAIN bs |-> bs[i].sum]
<1> DEFINE q == [i \in DOMAIN bs |-> bs[i].qty]
<1>1. /\ Len(bs) \in Nat /\ DOMAIN bs = 1 .. Len(bs)
      /\ \A i \in 1 .. Len(bs) : bs[i] \in Bucket
  OBVIOUS
<1>2. \A i \in 1 .. Len(bs) : bs[i].key \in Nat /\ bs[i].sum \in Nat /\ bs[i].qty \in Nat
  BY <1>1, Zenon DEF Bucket
<1>3. \A i \in 1 .. Len(bs) : s[i] \in Nat /\ q[i] \in Nat
  BY <1>1, <1>2, Zenon
<1>4. Total(s, Len(bs)) \in Nat /\ Total(q, Len(bs)) \in Nat
  <2> HIDE DEF s, q
  <2> QED
    BY <1>1, <1>3, TotalNat, Zenon
<1> QED
  BY <1>1, <1>2, <1>4, Zenon DEF QtyOf, SumOf

\* The totals of no buckets.
LEMMA TotalsEmpty ==
  ASSUME NEW bs \in Seq(Bucket), Len(bs) = 0
  PROVE QtyOf(bs) = 0 /\ SumOf(bs) = 0
BY TotalSteps, Zenon DEF QtyOf, SumOf

\* How many buckets are left when n of them go.
LEMMA RestLength ==
  ASSUME NEW n \in Nat, NEW m \in Nat, NEW len \in Nat, n + m = len
  PROVE (IF n + 1 <= len THEN len - (n + 1) + 1 ELSE 0) = m
OBVIOUS

\* Some buckets go from the front.
LEMMA Removed ==
  ASSUME NEW bs \in Seq(Bucket), NEW n \in 0 .. Len(bs)
  PROVE LET gone == SubSeq(bs, 1, n)
            rest == SubSeq(bs, n + 1, Len(bs))
        IN /\ gone \in Seq(Bucket) /\ rest \in Seq(Bucket) /\ Len(rest) = Len(bs) - n
           /\ \A i \in 1 .. Len(rest) : n + i \in 1 .. Len(bs) /\ rest[i] = bs[n + i]
           /\ SumOf(bs) = SumOf(gone) + SumOf(rest) /\ QtyOf(bs) = QtyOf(gone) + QtyOf(rest)
<1> DEFINE gone == SubSeq(bs, 1, n)
<1> DEFINE rest == SubSeq(bs, n + 1, Len(bs))
<1>0. Len(bs) \in Nat /\ n \in Nat /\ n <= Len(bs) /\ DOMAIN bs = 1 .. Len(bs)
      /\ \A i \in 1 .. Len(bs) : bs[i].sum \in Nat /\ bs[i].qty \in Nat
  BY TotalsNat
<1>1. gone \in Seq(Bucket) /\ Len(gone) = n /\ \A i \in 1 .. n : gone[i] = bs[i]
  BY <1>0
<1>7. PICK m : m = Len(bs) - n
  BY Zenon
<1>8. m \in Nat /\ n + m = Len(bs)
  BY <1>0, <1>7
<1>2. rest \in Seq(Bucket) /\ Len(rest) = m
      /\ \A i \in 1 .. m : rest[i] = bs[n + i] /\ n + i \in 1 .. n + m
  <2>1. rest \in Seq(Bucket) /\ Len(rest) = m
    <3>1. n + 1 \in 1 .. Len(bs) + 1 /\ Len(bs) \in (n + 1) - 1 .. Len(bs) /\ Len(bs) - (n + 1) + 1 = m
      BY <1>0, <1>7
    <3>2. rest \in Seq(Bucket)
      BY <3>1
    <3>3. Len(rest) = IF n + 1 <= Len(bs) THEN Len(bs) - (n + 1) + 1 ELSE 0
      BY <1>0
    <3>4. (IF n + 1 <= Len(bs) THEN Len(bs) - (n + 1) + 1 ELSE 0) = m
      BY <1>0, <1>8, RestLength, Zenon
    <3> QED
      BY <3>2, <3>3, <3>4, Zenon
  <2>2. \A i \in 1 .. m : rest[i] = bs[(n + 1) + i - 1]
    BY <1>0, <1>7
  <2>3. \A i \in 1 .. m : (n + 1) + i - 1 = n + i /\ n + i \in 1 .. n + m
    BY <1>0, <1>8
  <2> QED
    BY <2>1, <2>2, <2>3, Zenon
<1> HIDE DEF gone, rest
<1>3. DOMAIN gone = 1 .. n /\ DOMAIN rest = 1 .. m /\ m \in Nat
  BY <1>0, <1>1, <1>2, <1>8
<1>4. SumOf(bs) = SumOf(gone) + SumOf(rest)
  <2> DEFINE v == [i \in DOMAIN bs |-> bs[i].sum]
  <2> DEFINE g == [i \in DOMAIN gone |-> gone[i].sum]
  <2> DEFINE r == [i \in DOMAIN rest |-> rest[i].sum]
  <2>1. \A i \in 1 .. n : g[i] = v[i]
    BY <1>0, <1>1, <1>3
  <2>2. \A i \in 1 .. m : r[i] = v[n + i]
    BY <1>0, <1>2, <1>3, <1>8, Zenon
  <2>3. \A i \in 1 .. n + m : v[i] \in Nat
    BY <1>0, <1>8, Zenon
  <2>4. SumOf(bs) = Total(v, Len(bs)) /\ SumOf(gone) = Total(g, n) /\ SumOf(rest) = Total(r, m)
    BY <1>1, <1>2, Zenon DEF SumOf
  <2> HIDE DEF v, g, r
  <2>5. Total(g, n) = Total(v, n)
    BY <1>0, <2>1, TotalSame, Zenon
  <2>6. Total(v, n + m) = Total(v, n) + Total(r, m)
    <3>1. Follows(r, v, n, m)
      BY <2>2, <2>3, Zenon DEF Follows
    <3> QED
      BY <1>0, <1>8, <3>1, TotalSplit
  <2> QED
    BY <1>8, <2>4, <2>5, <2>6, Zenon
<1>5. QtyOf(bs) = QtyOf(gone) + QtyOf(rest)
  <2> DEFINE v == [i \in DOMAIN bs |-> bs[i].qty]
  <2> DEFINE g == [i \in DOMAIN gone |-> gone[i].qty]
  <2> DEFINE r == [i \in DOMAIN rest |-> rest[i].qty]
  <2>1. \A i \in 1 .. n : g[i] = v[i]
    BY <1>0, <1>1, <1>3
  <2>2. \A i \in 1 .. m : r[i] = v[n + i]
    BY <1>0, <1>2, <1>3, <1>8, Zenon
  <2>3. \A i \in 1 .. n + m : v[i] \in Nat
    BY <1>0, <1>8, Zenon
  <2>4. QtyOf(bs) = Total(v, Len(bs)) /\ QtyOf(gone) = Total(g, n) /\ QtyOf(rest) = Total(r, m)
    BY <1>1, <1>2, Zenon DEF QtyOf
  <2> HIDE DEF v, g, r
  <2>5. Total(g, n) = Total(v, n)
    BY <1>0, <2>1, TotalSame, Zenon
  <2>6. Total(v, n + m) = Total(v, n) + Total(r, m)
    <3>1. Follows(r, v, n, m)
      BY <2>2, <2>3, Zenon DEF Follows
    <3> QED
      BY <1>0, <1>8, <3>1, TotalSplit
  <2> QED
    BY <1>8, <2>4, <2>5, <2>6, Zenon
<1>6. \A i \in 1 .. Len(rest) : n + i \in 1 .. Len(bs) /\ rest[i] = bs[n + i]
  BY <1>2, <1>8, Zenon
<1> QED
  BY <1>1, <1>2, <1>4, <1>5, <1>6, <1>7, Zenon DEF gone, rest

\* advance goes up to the first bucket that is in the window.
LEMMA ExpiredIs ==
  ASSUME WinTypes, NEW w \in Windows
  PROVE LET n == Expired(w)
        IN /\ n \in 0 .. Len(buckets[w])
           /\ n < Len(buckets[w]) => buckets[w][n + 1].key > WindowStart
<1> DEFINE bs == buckets[w]
<1> DEFINE L == {i \in 1 .. Len(bs) : bs[i].key > WindowStart}
<1> DEFINE Q(n) == /\ \A i \in 1 .. n : bs[i].key <= WindowStart
                   /\ n < Len(bs) => bs[n + 1].key > WindowStart
<1>1. bs \in Seq(Bucket) /\ WindowStart \in Int
  BY WindowNumbers, Zenon DEF WinTypes
<1>2. Len(bs) \in Nat /\ \A i \in 1 .. Len(bs) : bs[i].key \in Nat
  BY <1>1, TotalsNat, Zenon
<1> HIDE DEF bs
<1>3. \E n \in 0 .. Len(bs) : Q(n)
  <2>1. CASE L = {}
    <3>1. Len(bs) \in 0 .. Len(bs) /\ \A i \in 1 .. Len(bs) : bs[i].key <= WindowStart
      BY <1>1, <1>2, <2>1
    <3> QED
      BY <1>2, <3>1
  <2>2. CASE L # {}
    <3>1. PICK m \in L : \A i \in L : m <= i
      <4>1. L \subseteq Nat
        BY <1>2
      <4> HIDE DEF L
      <4> QED
        BY <2>2, <4>1, Least, Zenon
    <3>2. m \in 1 .. Len(bs) /\ m - 1 \in 0 .. Len(bs) /\ (m - 1) + 1 = m /\ bs[m].key > WindowStart
      BY <1>2, <3>1
    <3>3. \A i \in 1 .. m - 1 : bs[i].key <= WindowStart
      BY <1>1, <1>2, <3>1, <3>2
    <3> QED
      BY <3>2, <3>3, Zenon
  <2> QED
    BY <2>1, <2>2, Zenon
<1>4. Expired(w) = CHOOSE n \in 0 .. Len(bs) : Q(n)
  BY Zenon DEF Expired, bs
<1> HIDE DEF Q
<1>5. Expired(w) \in 0 .. Len(bs) /\ Q(Expired(w))
  BY <1>3, <1>4, Zenon
<1> QED
  BY <1>5, Zenon DEF Q, bs

\* What advance leaves of a window, with the totals of what is left.
LEMMA AdvanceEffect ==
  ASSUME WinTypes, NEW w \in Windows, BucketsInv(w), advance(w)
  PROVE \E rest \in Seq(Bucket) : \E n \in 0 .. Len(buckets[w]) :
          /\ buckets' = [buckets EXCEPT ![w] = rest]
          /\ qty' = [qty EXCEPT ![w] = QtyOf(rest)] /\ sum' = [sum EXCEPT ![w] = SumOf(rest)]
          /\ SumOf(rest) <= sum[w]
          /\ \A i \in 1 .. Len(rest) : n + i \in 1 .. Len(buckets[w]) /\ rest[i] = buckets[w][n + i]
          /\ 0 < Len(rest) => rest[1].key > WindowStart
<1> DEFINE bs == buckets[w]
<1> DEFINE n == Expired(w)
<1> DEFINE gone == SubSeq(bs, 1, n)
<1> DEFINE rest == SubSeq(bs, n + 1, Len(bs))
<1> DEFINE reset == n > 0 /\ rest = <<>>
<1>1. /\ buckets' = [buckets EXCEPT ![w] = rest]
      /\ qty' = [qty EXCEPT ![w] = IF reset THEN 0 ELSE qty[w] - QtyOf(gone)]
      /\ sum' = [sum EXCEPT ![w] = IF reset THEN 0 ELSE sum[w] - SumOf(gone)]
  BY Zenon DEF advance
<1>2. bs \in Seq(Bucket) /\ qty[w] = QtyOf(bs) /\ sum[w] = SumOf(bs)
  BY Zenon DEF WinTypes, BucketsInv
<1>3. n \in 0 .. Len(bs) /\ (n < Len(bs) => bs[n + 1].key > WindowStart)
  BY ExpiredIs, Zenon
<1>4. /\ gone \in Seq(Bucket) /\ rest \in Seq(Bucket) /\ Len(rest) = Len(bs) - n
      /\ \A i \in 1 .. Len(rest) : n + i \in 1 .. Len(bs) /\ rest[i] = bs[n + i]
      /\ SumOf(bs) = SumOf(gone) + SumOf(rest) /\ QtyOf(bs) = QtyOf(gone) + QtyOf(rest)
  <2> HIDE DEF n, bs
  <2> QED
    BY <1>2, <1>3, Removed, Zenon
<1> HIDE DEF gone, rest, n
<1>5. SumOf(gone) \in Nat /\ SumOf(rest) \in Nat /\ QtyOf(gone) \in Nat /\ QtyOf(rest) \in Nat /\ Len(bs) \in Nat
  BY <1>2, <1>4, TotalsNat, Zenon
<1>6. rest = <<>> => QtyOf(rest) = 0 /\ SumOf(rest) = 0
  BY <1>4, TotalsEmpty, Zenon
<1>7. qty' = [qty EXCEPT ![w] = QtyOf(rest)]
  <2>1. (IF reset THEN 0 ELSE qty[w] - QtyOf(gone)) = QtyOf(rest)
    BY <1>2, <1>4, <1>5, <1>6
  <2> QED
    BY <1>1, <2>1, Zenon
<1>8. sum' = [sum EXCEPT ![w] = SumOf(rest)]
  <2>1. (IF reset THEN 0 ELSE sum[w] - SumOf(gone)) = SumOf(rest)
    BY <1>2, <1>4, <1>5, <1>6
  <2> QED
    BY <1>1, <2>1, Zenon
<1>9. 0 < Len(rest) => rest[1].key > WindowStart
  <2> SUFFICES ASSUME 0 < Len(rest) PROVE rest[1].key > WindowStart
    BY Zenon
  <2>1. 1 \in 1 .. Len(rest) /\ n < Len(bs)
    BY <1>3, <1>4, <1>5
  <2> QED
    BY <1>3, <1>4, <2>1, Zenon
<1>10. SumOf(rest) <= sum[w]
  BY <1>2, <1>4, <1>5
<1> QED
  BY <1>1, <1>3, <1>4, <1>7, <1>8, <1>9, <1>10, Zenon

\* advance keeps the invariant of the windows, adds nothing and leaves no bucket
\* that is older than the window and the lag.
LEMMA AdvanceInv ==
  ASSUME WinTypes, NEW w \in Windows, \A x \in Windows : BucketsInv(x), advance(w), swNow' = swNow
  PROVE /\ buckets' \in [Windows -> Seq(Bucket)] /\ qty' \in [Windows -> Nat] /\ sum' \in [Windows -> Nat]
        /\ \A x \in Windows : BucketsInv(x)' /\ sum'[x] <= sum[x]
        /\ \A x \in Windows : \A i \in DOMAIN buckets'[x] : \E j \in DOMAIN buckets[x] : buckets'[x][i] = buckets[x][j]
        /\ \A i \in DOMAIN buckets'[w] : buckets'[w][i].key > WindowStart - WindowLag
<1>1. PICK rest \in Seq(Bucket) : \E n \in 0 .. Len(buckets[w]) :
          /\ buckets' = [buckets EXCEPT ![w] = rest]
          /\ qty' = [qty EXCEPT ![w] = QtyOf(rest)] /\ sum' = [sum EXCEPT ![w] = SumOf(rest)]
          /\ SumOf(rest) <= sum[w]
          /\ \A i \in 1 .. Len(rest) : n + i \in 1 .. Len(buckets[w]) /\ rest[i] = buckets[w][n + i]
          /\ 0 < Len(rest) => rest[1].key > WindowStart
  BY AdvanceEffect, Zenon
<1>2. PICK n \in 0 .. Len(buckets[w]) :
          /\ buckets' = [buckets EXCEPT ![w] = rest]
          /\ qty' = [qty EXCEPT ![w] = QtyOf(rest)] /\ sum' = [sum EXCEPT ![w] = SumOf(rest)]
          /\ SumOf(rest) <= sum[w]
          /\ \A i \in 1 .. Len(rest) : n + i \in 1 .. Len(buckets[w]) /\ rest[i] = buckets[w][n + i]
          /\ 0 < Len(rest) => rest[1].key > WindowStart
  BY <1>1, Zenon
<1>3. /\ Len(rest) \in Nat /\ DOMAIN rest = 1 .. Len(rest) /\ QtyOf(rest) \in Nat /\ SumOf(rest) \in Nat
      /\ \A i \in 1 .. Len(rest) : rest[i].key \in Nat
  BY TotalsNat, Zenon
<1>4. buckets[w] \in Seq(Bucket) /\ n \in Nat
  BY DEF WinTypes
<1>5. DOMAIN buckets[w] = 1 .. Len(buckets[w]) /\ Len(buckets[w]) \in Nat
  BY <1>4, TotalsNat, Zenon
<1>6. buckets' \in [Windows -> Seq(Bucket)] /\ qty' \in [Windows -> Nat] /\ sum' \in [Windows -> Nat]
  BY <1>2, <1>3, Zenon DEF WinTypes
<1>7. \A x \in Windows : x # w => buckets'[x] = buckets[x] /\ qty'[x] = qty[x] /\ sum'[x] = sum[x]
  BY <1>2, Zenon DEF WinTypes
<1>8. buckets'[w] = rest /\ qty'[w] = QtyOf(rest) /\ sum'[w] = SumOf(rest)
  BY <1>2, Zenon DEF WinTypes
<1>9. \A i \in 1 .. Len(rest) : rest[i].key <= Round(swNow)
  BY <1>2, <1>5, Zenon DEF BucketsInv
<1>10. \A i, j \in 1 .. Len(rest) : i < j => rest[i].key <= rest[j].key + WindowLag
  <2> SUFFICES ASSUME NEW i \in 1 .. Len(rest), NEW j \in 1 .. Len(rest), i < j
               PROVE rest[i].key <= rest[j].key + WindowLag
    BY Zenon
  <2>1. n + i \in DOMAIN buckets[w] /\ n + j \in DOMAIN buckets[w] /\ n + i < n + j
    BY <1>2, <1>4, <1>5
  <2> QED
    BY <1>2, <2>1, Zenon DEF BucketsInv
<1>11. BucketsInv(w)'
  BY <1>3, <1>8, <1>9, <1>10, Zenon DEF BucketsInv, Round
<1>12. ASSUME NEW x \in Windows, x # w PROVE BucketsInv(x)'
  BY <1>7, <1>12, Zenon DEF BucketsInv, Round
<1>13. \A x \in Windows : sum'[x] <= sum[x]
  BY <1>2, <1>7, <1>8 DEF WinTypes
<1>14. ASSUME NEW x \in Windows, NEW i \in DOMAIN buckets'[x]
       PROVE \E j \in DOMAIN buckets[x] : buckets'[x][i] = buckets[x][j]
  <2>1. CASE x = w
    BY <1>2, <1>3, <1>5, <1>8, <2>1, Zenon
  <2>2. CASE x # w
    BY <1>7, <2>2, Zenon
  <2> QED
    BY <2>1, <2>2, Zenon
<1>15. ASSUME NEW i \in 1 .. Len(rest) PROVE rest[i].key > WindowStart - WindowLag
  <2>1. rest[1].key > WindowStart /\ rest[1].key \in Nat /\ rest[i].key \in Nat
    BY <1>2, <1>3
  <2>2. WindowStart \in Int /\ WindowLag \in Nat
    BY WindowNumbers, Zenon
  <2>3. CASE i = 1
    BY <2>1, <2>2, <2>3
  <2>4. CASE i # 1
    <3>1. 1 \in 1 .. Len(rest) /\ 1 < i
      BY <1>3, <2>4
    <3>2. rest[1].key <= rest[i].key + WindowLag
      BY <1>10, <3>1, Zenon
    <3> QED
      BY <2>1, <2>2, <3>2
  <2> QED
    BY <2>3, <2>4, Zenon
<1>16. \A i \in DOMAIN buckets'[w] : buckets'[w][i].key > WindowStart - WindowLag
  BY <1>3, <1>8, <1>15, Zenon
<1> QED
  BY <1>6, <1>11, <1>12, <1>13, <1>14, <1>16, Zenon

\* A point that is inserted raises the totals, in the bucket of its key.
LEMMA InsertedIs ==
  ASSUME NEW bs \in Seq(Bucket), NEW key \in Nat, NEW val \in Nat
  PROVE LET cs == Inserted(bs, key, val)
        IN /\ cs \in Seq(Bucket)
           /\ QtyOf(cs) = QtyOf(bs) + 1 /\ SumOf(cs) = SumOf(bs) + val
           /\ Len(cs) \in {Len(bs), Len(bs) + 1}
           /\ \A j \in 1 .. Len(cs) : IF j <= Len(bs) THEN cs[j].key = bs[j].key ELSE cs[j].key = key
<1> DEFINE i == CHOOSE i \in DOMAIN bs : bs[i].key = key
<1>1. /\ Len(bs) \in Nat /\ DOMAIN bs = 1 .. Len(bs)
      /\ \A j \in 1 .. Len(bs) : bs[j] \in Bucket /\ bs[j].key \in Nat /\ bs[j].sum \in Nat /\ bs[j].qty \in Nat
  BY TotalsNat, Zenon
<1>2. CASE \E j \in DOMAIN bs : bs[j].key = key
  <2> DEFINE b == [bs[i] EXCEPT !.sum = @ + val, !.qty = @ + 1]
  <2> DEFINE cs == [bs EXCEPT ![i] = b]
  <2>1. i \in 1 .. Len(bs)
    BY <1>1, <1>2, Zenon
  <2>2. Inserted(bs, key, val) = cs
    BY <1>2, Zenon DEF Inserted
  <2> HIDE DEF i
  <2>3. b \in Bucket /\ b.key = bs[i].key /\ b.sum = bs[i].sum + val /\ b.qty = bs[i].qty + 1
    <3>1. PICK o : o = bs[i]
      BY Zenon
    <3>2. o \in [key : Nat, sum : Nat, qty : Nat]
      BY <1>1, <2>1, <3>1, Zenon DEF Bucket
    <3>3. [o EXCEPT !.sum = @ + val, !.qty = @ + 1] \in [key : {o.key}, sum : {o.sum + val}, qty : {o.qty + 1}]
      BY <3>2, Zenon
    <3>4. \A x : x \in [key : {o.key}, sum : {o.sum + val}, qty : {o.qty + 1}] =>
            x \in Bucket /\ x.key = o.key /\ x.sum = o.sum + val /\ x.qty = o.qty + 1
      BY <3>2 DEF Bucket
    <3>5. b = [o EXCEPT !.sum = @ + val, !.qty = @ + 1]
      BY <3>1, Zenon
    <3> QED
      BY <3>1, <3>3, <3>4, <3>5, Zenon
  <2> HIDE DEF b
  <2>4. cs \in Seq(Bucket) /\ Len(cs) = Len(bs) /\ DOMAIN cs = 1 .. Len(bs)
        /\ \A j \in 1 .. Len(bs) : IF j = i THEN cs[j] = b ELSE cs[j] = bs[j]
    BY <1>1, <2>1, <2>3
  <2> HIDE DEF cs
  <2>5. SumOf(cs) = SumOf(bs) + val
    <3> DEFINE v == [j \in DOMAIN bs |-> bs[j].sum]
    <3> DEFINE u == [j \in DOMAIN cs |-> cs[j].sum]
    <3>1. \A j \in 1 .. Len(bs) : v[j] \in Nat
      BY <1>1, Zenon
    <3>2. \A j \in 1 .. Len(bs) : IF j = i THEN u[j] = v[j] + val ELSE u[j] = v[j]
      BY <1>1, <2>3, <2>4, Zenon
    <3>3. SumOf(bs) = Total(v, Len(bs)) /\ SumOf(cs) = Total(u, Len(bs))
      BY <2>4, Zenon DEF SumOf
    <3> HIDE DEF v, u
    <3>4. Raised(u, v, Len(bs), i, val)
      BY <3>1, <3>2, Zenon DEF Raised
    <3> QED
      BY <1>1, <2>1, <3>3, <3>4, TotalRaised
  <2>6. QtyOf(cs) = QtyOf(bs) + 1
    <3> DEFINE v == [j \in DOMAIN bs |-> bs[j].qty]
    <3> DEFINE u == [j \in DOMAIN cs |-> cs[j].qty]
    <3>1. \A j \in 1 .. Len(bs) : v[j] \in Nat
      BY <1>1, Zenon
    <3>2. \A j \in 1 .. Len(bs) : IF j = i THEN u[j] = v[j] + 1 ELSE u[j] = v[j]
      BY <1>1, <2>3, <2>4, Zenon
    <3>3. QtyOf(bs) = Total(v, Len(bs)) /\ QtyOf(cs) = Total(u, Len(bs))
      BY <2>4, Zenon DEF QtyOf
    <3> HIDE DEF v, u
    <3>4. Raised(u, v, Len(bs), i, 1)
      BY <3>1, <3>2, Zenon DEF Raised
    <3> QED
      BY <1>1, <2>1, <3>3, <3>4, TotalRaised
  <2>7. \A j \in 1 .. Len(cs) : IF j <= Len(bs) THEN cs[j].key = bs[j].key ELSE cs[j].key = key
    <3> SUFFICES ASSUME NEW j \in 1 .. Len(bs) PROVE cs[j].key = bs[j].key /\ j <= Len(bs)
      BY <2>4, Zenon
    <3>1. CASE j = i
      BY <1>1, <2>3, <2>4, <3>1
    <3>2. CASE j # i
      BY <1>1, <2>4, <3>2
    <3> QED
      BY <3>1, <3>2, Zenon
  <2> QED
    BY <2>2, <2>4, <2>5, <2>6, <2>7, Zenon
<1>3. CASE ~ \E j \in DOMAIN bs : bs[j].key = key
  <2> DEFINE b == [key |-> key, sum |-> val, qty |-> 1]
  <2> DEFINE cs == Append(bs, b)
  <2> DEFINE n == Len(bs) + 1
  <2>1. Inserted(bs, key, val) = cs
    BY <1>3, Zenon DEF Inserted
  <2>2. b \in Bucket /\ b.key = key /\ b.sum = val /\ b.qty = 1
    BY Zenon DEF Bucket
  <2> HIDE DEF b
  <2>3. cs \in Seq(Bucket) /\ Len(cs) = n /\ DOMAIN cs = 1 .. n
        /\ \A j \in 1 .. n : IF j <= Len(bs) THEN cs[j] = bs[j] ELSE cs[j] = b
    BY <1>1, <2>2
  <2> HIDE DEF cs
  <2>4. SumOf(cs) = SumOf(bs) + val
    <3> DEFINE v == [j \in DOMAIN bs |-> bs[j].sum]
    <3> DEFINE u == [j \in DOMAIN cs |-> cs[j].sum]
    <3>1. (\A j \in 1 .. Len(bs) : u[j] = v[j]) /\ u[Len(bs) + 1] = val
      BY <1>1, <2>2, <2>3
    <3>2. SumOf(bs) = Total(v, Len(bs)) /\ SumOf(cs) = Total(u, Len(bs) + 1)
      BY <2>3, Zenon DEF SumOf
    <3> HIDE DEF v, u
    <3>3. Total(u, Len(bs) + 1) = Total(u, Len(bs)) + u[Len(bs) + 1]
      BY <1>1, TotalSteps, Zenon
    <3>4. Total(u, Len(bs)) = Total(v, Len(bs))
      BY <1>1, <3>1, TotalSame, Zenon
    <3> QED
      BY <3>1, <3>2, <3>3, <3>4, Zenon
  <2>5. QtyOf(cs) = QtyOf(bs) + 1
    <3> DEFINE v == [j \in DOMAIN bs |-> bs[j].qty]
    <3> DEFINE u == [j \in DOMAIN cs |-> cs[j].qty]
    <3>1. (\A j \in 1 .. Len(bs) : u[j] = v[j]) /\ u[Len(bs) + 1] = 1
      BY <1>1, <2>2, <2>3
    <3>2. QtyOf(bs) = Total(v, Len(bs)) /\ QtyOf(cs) = Total(u, Len(bs) + 1)
      BY <2>3, Zenon DEF QtyOf
    <3> HIDE DEF v, u
    <3>3. Total(u, Len(bs) + 1) = Total(u, Len(bs)) + u[Len(bs) + 1]
      BY <1>1, TotalSteps, Zenon
    <3>4. Total(u, Len(bs)) = Total(v, Len(bs))
      BY <1>1, <3>1, TotalSame, Zenon
    <3> QED
      BY <3>1, <3>2, <3>3, <3>4, Zenon
  <2>6. \A j \in 1 .. Len(cs) : IF j <= Len(bs) THEN cs[j].key = bs[j].key ELSE cs[j].key = key
    BY <1>1, <2>2, <2>3, Zenon
  <2> QED
    BY <2>1, <2>3, <2>4, <2>5, <2>6, Zenon
<1> QED
  BY <1>2, <1>3, Zenon

-----------------------------------------------------------------------------
(* The steps. *)

\* What IsHealthy has read stays true of what was added, and no bucket appears
\* that is out of the window.
LEMMA HealthStays ==
  ASSUME WinInv, UNCHANGED health, swNow' \in Nat, swNow <= swNow',
         added' \in [Windows -> Nat], \A w \in Windows : added[w] <= added'[w],
         \A w \in Windows : \A i \in DOMAIN buckets'[w] :
           \/ \E j \in DOMAIN buckets[w] : buckets'[w][i].key = buckets[w][j].key
           \/ buckets'[w][i].key \in Nat /\ buckets'[w][i].key > Round(swNow) - WindowLength
  PROVE HealthInv'
<1>0. HealthInv /\ WinTypes
  BY Zenon DEF WinInv
<1>1. DOMAIN health' = DOMAIN NoHealth
  BY <1>0, Zenon DEF HealthInv
<1>t. swNow \in Nat /\ added \in [Windows -> Nat]
  BY <1>0, Zenon DEF WinTypes
<1>2. health'.at \in Nat /\ health'.at <= swNow'
  <2>1. health.at \in Nat /\ health.at <= swNow
    BY <1>0, Zenon DEF HealthInv
  <2> QED
    BY <1>t, <2>1
<1>3. "requests" \in Windows /\ "errors" \in Windows /\ "latency" \in Windows
  BY Zenon DEF Windows
<1>4. health'.errors \in Nat /\ health'.errors <= added'["errors"]
  <2>1. health.errors \in Nat /\ health.errors <= added["errors"]
    BY <1>0, Zenon DEF HealthInv
  <2> QED
    BY <1>3, <1>t, <2>1
<1>5. HadRequests => HadRequests'
  BY <1>3, <1>t, WindowAssumption DEF HadRequests
<1>6. added["errors"] > 0 => added'["errors"] > 0
  BY <1>3, <1>t
<1>7. ASSUME NEW p \in DOMAIN Evict, health'.pc = Evict[p], NEW i \in DOMAIN buckets'[Reads[p]]
      PROVE buckets'[Reads[p]][i].key > Round(health'.at) - WindowLength - WindowLag
  <2>1. Reads[p] \in Windows
    BY <1>3 DEF Reads, Evict
  <2>2. Round(health.at) \in Nat /\ Round(swNow) \in Nat /\ Round(health.at) <= Round(swNow)
        /\ WindowLength \in Nat /\ WindowLag \in Nat
    BY <1>0, RoundOrder, WindowAssumption, Zenon DEF HealthInv, WinTypes
  <2>3. CASE \E j \in DOMAIN buckets[Reads[p]] : buckets'[Reads[p]][i].key = buckets[Reads[p]][j].key
    BY <1>0, <1>7, <2>3, Zenon DEF HealthInv
  <2>4. CASE buckets'[Reads[p]][i].key \in Nat /\ buckets'[Reads[p]][i].key > Round(swNow) - WindowLength
    BY <2>2, <2>4
  <2> QED
    BY <1>7, <2>1, <2>3, <2>4, Zenon
<1>8. health'.pc \in {"errors", "readErrors", "total", "readTotal"} => HadRequests'
  BY <1>0, <1>5, Zenon DEF HealthInv
<1>9. health'.overRate => HadRequests' /\ added'["errors"] > 0
  BY <1>0, <1>5, <1>6, Zenon DEF HealthInv
<1>10. UnhealthyHad'
  BY <1>0, <1>5, <1>6, Zenon DEF HealthInv, UnhealthyHad, HadRequests
<1>11. \A p \in DOMAIN Evict : health'.pc = Evict[p] =>
         \A i \in DOMAIN buckets'[Reads[p]] :
           buckets'[Reads[p]][i].key > Round(health'.at) - WindowLength - WindowLag
  BY <1>7, Zenon
<1> QED
  BY <1>1, <1>2, <1>4, <1>8, <1>9, <1>10, <1>11, Zenon DEF HealthInv, Evict, Reads, Round, NoHealth

\* The Adds under way are finitely many.
LEMMA PendingFinite ==
  ASSUME NEW w
  PROVE /\ IsFiniteSet(Pending(w)) /\ Cardinality(Pending(w)) \in Nat
        /\ IsFiniteSet(Pending(w)') /\ Cardinality(Pending(w)') \in Nat
<1>1. Pending(w) \subseteq Adders /\ Pending(w)' \subseteq Adders
  BY Zenon DEF Pending
<1> QED
  BY <1>1, FS_Subset, FS_CardinalityType, WindowAssumption, Zenon

\* Add reads the clock and keeps the invariant.
LEMMA AddInv ==
  ASSUME WinInv, NEW a \in Adders, NEW w \in Windows, Add(a, w)
  PROVE WinInv'
<1>0. WinTypes /\ AddersInv /\ CountsInv /\ \A x \in Windows : BucketsInv(x)
  BY Zenon DEF WinInv
<1>1. /\ adder[a].pc = "idle" /\ UNCHANGED <<swNow, buckets, qty, sum, health>>
      /\ adder' = [adder EXCEPT ![a] = [pc |-> "advance", window |-> w, t |-> swNow]]
      /\ added' = [added EXCEPT ![w] = added[w] + 1]
  BY Zenon DEF Add
<1>2. WinTypes'
  <2>1. [pc |-> "advance", window |-> w, t |-> swNow] \in [pc : {"idle", "advance", "insert"}, window : Windows, t : Nat]
    BY <1>0, Zenon DEF WinTypes
  <2>2. adder' \in [Adders -> [pc : {"idle", "advance", "insert"}, window : Windows, t : Nat]]
    BY <1>0, <1>1, <2>1, Zenon DEF WinTypes
  <2>3. added' \in [Windows -> Nat]
    BY <1>0, <1>1 DEF WinTypes
  <2> QED
    BY <1>0, <1>1, <2>2, <2>3, Zenon DEF WinTypes
<1>3. \A b \in Adders : IF b = a THEN adder'[b] = [pc |-> "advance", window |-> w, t |-> swNow] ELSE adder'[b] = adder[b]
  BY <1>0, <1>1, Zenon DEF WinTypes
<1>4. AddersInv'
  BY <1>0, <1>1, <1>3, WindowAssumption DEF AddersInv, WinTypes
<1>5. CountsInv'
  <2> SUFFICES ASSUME NEW x \in {"requests", "errors"}
               PROVE sum[x] + Cardinality(Pending(x)') <= added'[x]
    BY <1>1, Zenon DEF CountsInv
  <2>1. x \in Windows /\ sum[x] \in Nat /\ added[x] \in Nat /\ sum[x] + Cardinality(Pending(x)) <= added[x]
    BY <1>0, Zenon DEF CountsInv, Windows, WinTypes
  <2>2. CASE x = w
    <3>1. Pending(x)' = Pending(x) \cup {a} /\ a \notin Pending(x)
      BY <1>1, <1>3, <2>2 DEF Pending
    <3>2. Cardinality(Pending(x)') = Cardinality(Pending(x)) + 1
      BY <3>1, PendingFinite, FS_AddElement, Zenon
    <3>3. added'[x] = added[x] + 1
      BY <1>0, <1>1, <2>2, Zenon DEF WinTypes
    <3> QED
      BY <2>1, <3>2, <3>3, PendingFinite
  <2>3. CASE x # w
    <3>1. Pending(x)' = Pending(x)
      BY <1>1, <1>3, <2>3 DEF Pending
    <3>2. added'[x] = added[x]
      BY <1>0, <1>1, <2>1, <2>3, Zenon DEF WinTypes
    <3> QED
      BY <2>1, <3>1, <3>2, Zenon
  <2> QED
    BY <2>2, <2>3, Zenon
<1>6. HealthInv'
  <2>1. \A x \in Windows : added[x] \in Nat /\ added'[x] = IF x = w THEN added[x] + 1 ELSE added[x]
    BY <1>0, <1>1, Zenon DEF WinTypes
  <2>2. \A x \in Windows : added[x] <= added'[x]
    BY <2>1
  <2> QED
    BY <1>0, <1>1, <1>2, <2>2, HealthStays DEF WinTypes
<1>7. \A x \in Windows : BucketsInv(x)'
  BY <1>0, <1>1, Zenon DEF BucketsInv, Round
<1> QED
  BY <1>2, <1>4, <1>5, <1>6, <1>7, Zenon DEF WinInv

\* Advancing the window and counting the call keeps the invariant.
LEMMA AddAdvanceInv ==
  ASSUME WinInv, NEW a \in Adders, AddAdvance(a)
  PROVE WinInv'
<1> DEFINE w == adder[a].window
<1>0. WinTypes /\ AddersInv /\ CountsInv /\ \A x \in Windows : BucketsInv(x)
  BY Zenon DEF WinInv
<1>1. /\ adder[a].pc = "advance" /\ advance(w) /\ UNCHANGED <<swNow, health, added>>
      /\ adder' = [adder EXCEPT ![a] = [adder[a] EXCEPT !.pc = "insert"]]
  BY Zenon DEF AddAdvance
<1>2. w \in Windows /\ adder[a] \in [pc : {"idle", "advance", "insert"}, window : Windows, t : Nat]
  BY <1>0, Zenon DEF WinTypes
<1>3. /\ buckets' \in [Windows -> Seq(Bucket)] /\ qty' \in [Windows -> Nat] /\ sum' \in [Windows -> Nat]
      /\ \A x \in Windows : BucketsInv(x)' /\ sum'[x] <= sum[x]
      /\ \A x \in Windows : \A i \in DOMAIN buckets'[x] : \E j \in DOMAIN buckets[x] : buckets'[x][i] = buckets[x][j]
  <2> HIDE DEF w
  <2> QED
    BY <1>0, <1>1, <1>2, AdvanceInv, Zenon
<1>4. adder' \in [Adders -> [pc : {"idle", "advance", "insert"}, window : Windows, t : Nat]]
      /\ \A b \in Adders : /\ adder'[b].window = adder[b].window /\ adder'[b].t = adder[b].t
                           /\ adder'[b].pc # "idle" <=> adder[b].pc # "idle"
  BY <1>0, <1>1, <1>2, Zenon DEF WinTypes
<1>5. WinTypes'
  BY <1>0, <1>1, <1>3, <1>4, Zenon DEF WinTypes
<1>6. AddersInv'
  BY <1>0, <1>1, <1>4, Zenon DEF AddersInv
<1>7. CountsInv'
  <2> SUFFICES ASSUME NEW x \in {"requests", "errors"}
               PROVE sum'[x] + Cardinality(Pending(x)') <= added[x]
    BY <1>1, Zenon DEF CountsInv
  <2>1. /\ x \in Windows /\ sum[x] \in Nat /\ sum'[x] \in Nat /\ added[x] \in Nat
        /\ sum[x] + Cardinality(Pending(x)) <= added[x]
    BY <1>0, <1>3, Zenon DEF CountsInv, Windows, WinTypes
  <2>2. Pending(x)' = Pending(x)
    BY <1>4, Zenon DEF Pending
  <2> QED
    BY <1>3, <2>1, <2>2, PendingFinite
<1>8. HealthInv'
  <2>3. swNow \in Nat /\ added \in [Windows -> Nat]
    BY <1>0, Zenon DEF WinTypes
  <2>1. \A x \in Windows : added[x] <= added'[x]
    BY <1>1, <2>3
  <2>4. swNow' \in Nat /\ swNow <= swNow' /\ added' \in [Windows -> Nat]
    BY <1>1, <2>3
  <2>2. \A x \in Windows : \A i \in DOMAIN buckets'[x] : \E j \in DOMAIN buckets[x] : buckets'[x][i].key = buckets[x][j].key
    BY <1>3, Zenon
  <2> QED
    BY <1>1, <1>5, <2>1, <2>2, <2>4, HealthStays, Zenon
<1> QED
  BY <1>3, <1>5, <1>6, <1>7, <1>8, Zenon DEF WinInv

\* A point that is inserted is of the last window, and of what was added.
LEMMA AddWithTimeInv ==
  ASSUME WinInv, NEW a \in Adders, AddWithTime(a)
  PROVE WinInv'
<1>0. WinTypes /\ AddersInv /\ CountsInv /\ \A x \in Windows : BucketsInv(x)
  BY Zenon DEF WinInv
<1>1. /\ adder[a].pc = "insert" /\ UNCHANGED <<swNow, health, added>>
      /\ adder' = [adder EXCEPT ![a] = NoAdd]
  BY Zenon DEF AddWithTime
<1>13. PICK w, key, val : /\ w = adder[a].window /\ key = Round(adder[a].t)
                          /\ val = IF w = "latency" THEN Latency ELSE 1
  BY Zenon
<1>2. /\ w \in Windows /\ adder[a].t \in Nat /\ swNow \in Nat /\ adder[a].t <= swNow /\ swNow <= adder[a].t + WindowLag
  BY <1>0, <1>1, <1>13, Zenon DEF WinTypes, AddersInv
<1>3. key \in Nat /\ key <= Round(swNow) /\ Round(swNow) \in Nat /\ Round(swNow) <= key + WindowLag
  BY <1>2, <1>13, RoundOrder, Zenon
<1>4. val \in Nat /\ (w # "latency" => val = 1)
  BY <1>13, WindowAssumption, Zenon
<1>5. NoAdd \in [pc : {"idle", "advance", "insert"}, window : Windows, t : Nat] /\ NoAdd.pc = "idle"
  BY Zenon DEF NoAdd, Windows
<1>6. adder' \in [Adders -> [pc : {"idle", "advance", "insert"}, window : Windows, t : Nat]]
      /\ \A b \in Adders : IF b = a THEN adder'[b].pc = "idle" ELSE adder'[b] = adder[b]
  BY <1>0, <1>1, <1>5, Zenon DEF WinTypes
<1>7. AddersInv'
  BY <1>0, <1>1, <1>6, Zenon DEF AddersInv
<1>8. ASSUME NEW x PROVE /\ x = w => a \in Pending(x) /\ Pending(x)' = Pending(x) \ {a}
                         /\ x # w => Pending(x)' = Pending(x)
  BY <1>1, <1>6, <1>13 DEF Pending
<1>9. ASSUME NEW x PROVE /\ x = w => Cardinality(Pending(x)') = Cardinality(Pending(x)) - 1
                         /\ x # w => Cardinality(Pending(x)') = Cardinality(Pending(x))
  BY <1>8, PendingFinite, FS_RemoveElement
<1>10. \A x \in Windows : added[x] <= added'[x]
  BY <1>0, <1>1 DEF WinTypes
<1>11. CASE ~ inWindow(key)
  <2>1. UNCHANGED <<buckets, qty, sum>>
    BY <1>11, <1>13, Zenon DEF AddWithTime
  <2>2. WinTypes'
    BY <1>0, <1>1, <1>6, <2>1, Zenon DEF WinTypes
  <2>3. CountsInv'
    <3> SUFFICES ASSUME NEW x \in {"requests", "errors"}
                 PROVE sum[x] + Cardinality(Pending(x)') <= added[x]
      BY <1>1, <2>1, Zenon DEF CountsInv
    <3>1. /\ sum[x] \in Nat /\ added[x] \in Nat /\ sum[x] + Cardinality(Pending(x)) <= added[x]
      BY <1>0, Zenon DEF CountsInv, Windows, WinTypes
    <3> QED
      BY <1>9, <3>1, PendingFinite
  <2>4. HealthInv'
    BY <1>0, <1>1, <1>10, <2>1, <2>2, HealthStays DEF WinTypes
  <2>5. \A x \in Windows : BucketsInv(x)'
    BY <1>0, <1>1, <2>1, Zenon DEF BucketsInv, Round
  <2> QED
    BY <1>7, <2>2, <2>3, <2>4, <2>5, Zenon DEF WinInv
<1>12. CASE inWindow(key)
  <2> DEFINE cs == Inserted(buckets[w], key, val)
  <2>13. PICK n : n = Len(buckets[w])
    BY Zenon
  <2>1. /\ buckets' = [buckets EXCEPT ![w] = cs] /\ qty' = [qty EXCEPT ![w] = qty[w] + 1]
        /\ sum' = [sum EXCEPT ![w] = sum[w] + val]
    BY <1>12, <1>13, Zenon DEF AddWithTime
  <2>2. buckets[w] \in Seq(Bucket)
    BY <1>0, <1>2, Zenon DEF WinTypes
  <2>3. /\ cs \in Seq(Bucket)
        /\ QtyOf(cs) = QtyOf(buckets[w]) + 1 /\ SumOf(cs) = SumOf(buckets[w]) + val
        /\ Len(cs) \in {n, n + 1}
        /\ \A j \in 1 .. Len(cs) : IF j <= n THEN cs[j].key = buckets[w][j].key ELSE cs[j].key = key
    <3>1. /\ cs \in Seq(Bucket)
          /\ QtyOf(cs) = QtyOf(buckets[w]) + 1 /\ SumOf(cs) = SumOf(buckets[w]) + val
          /\ Len(cs) \in {Len(buckets[w]), Len(buckets[w]) + 1}
          /\ \A j \in 1 .. Len(cs) : IF j <= Len(buckets[w]) THEN cs[j].key = buckets[w][j].key ELSE cs[j].key = key
      BY <1>3, <1>4, <2>2, InsertedIs, Zenon
    <3> QED
      BY <2>13, <3>1, Zenon
  <2> HIDE DEF cs
  <2>4. Len(cs) \in Nat /\ DOMAIN cs = 1 .. Len(cs) /\ n \in Nat /\ DOMAIN buckets[w] = 1 .. n
        /\ \A j \in 1 .. Len(cs) : cs[j].key \in Nat
    BY <2>2, <2>3, <2>13, TotalsNat
  <2>12. \A j \in 1 .. Len(cs) : /\ j <= n => j \in 1 .. n /\ cs[j].key = buckets[w][j].key
                                 /\ ~ (j <= n) => cs[j].key = key
    <3> SUFFICES ASSUME NEW j \in 1 .. Len(cs)
                 PROVE /\ j <= n => j \in 1 .. n /\ cs[j].key = buckets[w][j].key
                       /\ ~ (j <= n) => cs[j].key = key
      BY Zenon
    <3>1. j \in Nat /\ (j <= n => j \in 1 .. n)
      BY <2>4
    <3> QED
      BY <2>3, <3>1, Zenon
  <2>5. /\ buckets'[w] = cs /\ qty'[w] = qty[w] + 1 /\ sum'[w] = sum[w] + val
        /\ \A x \in Windows : x # w => buckets'[x] = buckets[x] /\ qty'[x] = qty[x] /\ sum'[x] = sum[x]
    BY <1>0, <1>2, <2>1, Zenon DEF WinTypes
  <2>6. WinTypes'
    <3>1. buckets' \in [Windows -> Seq(Bucket)]
      BY <1>0, <2>1, <2>3, Zenon DEF WinTypes
    <3>2. qty' \in [Windows -> Nat] /\ sum' \in [Windows -> Nat]
      BY <1>0, <1>2, <1>4, <2>1 DEF WinTypes
    <3> QED
      BY <1>0, <1>1, <1>6, <3>1, <3>2, Zenon DEF WinTypes
  <2>7. CountsInv'
    <3> SUFFICES ASSUME NEW x \in {"requests", "errors"}
                 PROVE sum'[x] + Cardinality(Pending(x)') <= added[x]
      BY <1>1, Zenon DEF CountsInv
    <3>1. /\ sum[x] \in Nat /\ added[x] \in Nat /\ sum[x] + Cardinality(Pending(x)) <= added[x] /\ x \in Windows
          /\ x # "latency"
      BY <1>0, Zenon DEF CountsInv, Windows, WinTypes
    <3>2. CASE x = w
      BY <1>4, <1>9, <2>5, <3>1, <3>2, PendingFinite
    <3>3. CASE x # w
      BY <1>9, <2>5, <3>1, <3>3, PendingFinite, Zenon
    <3> QED
      BY <3>2, <3>3, Zenon
  <2>8. key > Round(swNow) - WindowLength
    BY <1>12, Zenon DEF inWindow, WindowStart
  <2>9. HealthInv'
    <3>1. ASSUME NEW x \in Windows, NEW i \in DOMAIN buckets'[x]
          PROVE \/ \E j \in DOMAIN buckets[x] : buckets'[x][i].key = buckets[x][j].key
                \/ buckets'[x][i].key \in Nat /\ buckets'[x][i].key > Round(swNow) - WindowLength
      <4>1. CASE x # w
        BY <2>5, <4>1, Zenon
      <4>2. CASE x = w /\ i <= n
        BY <2>4, <2>5, <2>12, <4>2, Zenon
      <4>3. CASE x = w /\ ~ (i <= n)
        BY <1>3, <2>4, <2>5, <2>8, <2>12, <4>3, Zenon
      <4> QED
        BY <4>1, <4>2, <4>3, Zenon
    <3> QED
      BY <1>0, <1>1, <1>10, <2>6, <3>1, HealthStays DEF WinTypes
  <2>10. ASSUME NEW x \in Windows, x # w PROVE BucketsInv(x)'
    BY <1>0, <1>1, <2>5, <2>10, Zenon DEF BucketsInv, Round
  <2>11. BucketsInv(w)'
    <3>1. qty'[w] = QtyOf(buckets'[w]) /\ sum'[w] = SumOf(buckets'[w])
      BY <1>0, <1>2, <2>3, <2>5, Zenon DEF BucketsInv
    <3>2. \A i \in 1 .. n : buckets[w][i].key <= Round(swNow) /\ buckets[w][i].key \in Nat
      BY <1>0, <1>2, <2>2, <2>4, <2>13, TotalsNat, Zenon DEF BucketsInv
    <3>3. \A i \in 1 .. Len(cs) : cs[i].key <= Round(swNow)
      BY <1>3, <2>12, <3>2, Zenon
    <3>4. \A i, j \in 1 .. Len(cs) : i < j => cs[i].key <= cs[j].key + WindowLag
      <4> SUFFICES ASSUME NEW i \in 1 .. Len(cs), NEW j \in 1 .. Len(cs), i < j
                   PROVE cs[i].key <= cs[j].key + WindowLag
        BY Zenon
      <4>1. CASE j <= n
        <5>1. i \in 1 .. n /\ j \in 1 .. n /\ cs[i].key = buckets[w][i].key /\ cs[j].key = buckets[w][j].key
          BY <2>4, <2>12, <4>1
        <5> QED
          BY <1>0, <1>2, <2>4, <5>1, Zenon DEF BucketsInv
      <4>2. CASE ~ (j <= n)
        <5>1. cs[j].key = key /\ cs[i].key <= Round(swNow) /\ cs[i].key \in Nat
          BY <2>4, <2>12, <3>3, <4>2, Zenon
        <5> QED
          BY <1>3, <5>1, WindowAssumption
      <4> QED
        BY <4>1, <4>2, Zenon
    <3> QED
      BY <1>1, <2>4, <2>5, <3>1, <3>3, <3>4, Zenon DEF BucketsInv, Round
  <2> QED
    BY <1>7, <2>6, <2>7, <2>9, <2>10, <2>11, Zenon DEF WinInv
<1> QED
  BY <1>11, <1>12, Zenon

\* The clock goes on and keeps the invariant.
LEMMA WindowTickInv ==
  ASSUME WinInv, WindowTick
  PROVE WinInv'
<1>0. WinTypes /\ AddersInv /\ CountsInv /\ \A x \in Windows : BucketsInv(x)
  BY Zenon DEF WinInv
<1>1. /\ swNow' = swNow + 1 /\ UNCHANGED <<buckets, qty, sum, adder, health, added>>
      /\ \A a \in Adders : adder[a].pc # "idle" => swNow < adder[a].t + WindowLag
  BY Zenon DEF WindowTick
<1>2. WinTypes'
  BY <1>0, <1>1 DEF WinTypes
<1>3. AddersInv'
  <2> SUFFICES ASSUME NEW a \in Adders, adder[a].pc # "idle"
               PROVE adder[a].t <= swNow + 1 /\ swNow + 1 <= adder[a].t + WindowLag
    BY <1>1, Zenon DEF AddersInv
  <2>1. adder[a].t \in Nat /\ swNow \in Nat /\ WindowLag \in Nat
    BY <1>0, WindowAssumption, Zenon DEF WinTypes
  <2> QED
    BY <1>0, <1>1, <2>1 DEF AddersInv
<1>4. CountsInv'
  BY <1>0, <1>1, Zenon DEF CountsInv, Pending
<1>5. HealthInv'
  <2>1. swNow' \in Nat /\ swNow <= swNow' /\ added' \in [Windows -> Nat] /\ \A x \in Windows : added[x] <= added'[x]
    <3>1. swNow \in Nat /\ added \in [Windows -> Nat]
      BY <1>0, Zenon DEF WinTypes
    <3> QED
      BY <1>1, <3>1
  <2> QED
    BY <1>1, <2>1, HealthStays, Zenon
<1>6. ASSUME NEW w \in Windows PROVE BucketsInv(w)'
  <2>1. Round(swNow) \in Nat /\ Round(swNow + 1) \in Nat /\ Round(swNow) <= Round(swNow + 1)
    BY <1>0, RoundOrder DEF WinTypes
  <2>2. Round(swNow)' = Round(swNow + 1)
    BY <1>1, Zenon DEF Round
  <2>3. \A i \in DOMAIN buckets[w] : buckets[w][i].key \in Nat
    BY <1>0, TotalsNat, Zenon DEF WinTypes
  <2>4. \A i \in DOMAIN buckets[w] : buckets[w][i].key <= Round(swNow)'
    BY <1>0, <2>1, <2>2, <2>3 DEF BucketsInv
  <2> QED
    BY <1>0, <1>1, <2>4, Zenon DEF BucketsInv
<1> QED
  BY <1>2, <1>3, <1>4, <1>5, <1>6 DEF WinInv

\* A step of IsHealthy that only reads: what it leaves alone.
LEMMA HealthOnly ==
  ASSUME WinInv, UNCHANGED <<swNow, buckets, qty, sum, adder, added>>, HealthInv'
  PROVE WinInv'
<1>1. WinTypes' /\ AddersInv' /\ CountsInv'
  BY Zenon DEF WinInv, WinTypes, AddersInv, CountsInv, Pending
<1>2. \A w \in Windows : BucketsInv(w)'
  BY Zenon DEF WinInv, BucketsInv, Round
<1> QED
  BY <1>1, <1>2, Zenon DEF WinInv

\* A step of IsHealthy that is not after an eviction.
LEMMA NotEvicted ==
  ASSUME WinInv, UNCHANGED <<swNow, buckets, qty, sum, adder, added>>,
         DOMAIN health' = DOMAIN NoHealth, health'.at \in {health.at, 0},
         health'.errors \in Nat, health'.errors <= added["errors"],
         \A p \in DOMAIN Evict : health'.pc # Evict[p],
         health'.pc \in {"errors", "total"} => HadRequests,
         health'.overRate => HadRequests /\ added["errors"] > 0,
         health'.verdict = "errors" => HadRequests /\ added["errors"] > 0
  PROVE WinInv'
<1>0. HealthInv /\ WinTypes
  BY Zenon DEF WinInv
<1>1. health'.at \in Nat /\ health'.at <= swNow'
  BY <1>0 DEF HealthInv, WinTypes
<1>2. health'.pc # "readErrors" /\ health'.pc # "readTotal"
  BY Zenon DEF Evict
<1>3. UnhealthyHad'
  BY Zenon DEF UnhealthyHad, HadRequests
<1>4. HadRequests' <=> HadRequests
  BY Zenon DEF HadRequests
<1>5. \A p \in DOMAIN Evict : health'.pc = Evict[p] =>
         \A i \in DOMAIN buckets'[Reads[p]] :
           buckets'[Reads[p]][i].key > Round(health'.at) - WindowLength - WindowLag
  BY Zenon
<1>6. HealthInv'
  BY <1>1, <1>2, <1>3, <1>4, <1>5, Zenon DEF HealthInv, Evict, Reads, Round, NoHealth
<1> QED
  BY <1>6, HealthOnly, Zenon

\* Advancing the window before reading it keeps the invariant.
LEMMA SumAdvanceInv ==
  ASSUME WinInv, SumAdvance
  PROVE WinInv'
<1>0. WinTypes /\ AddersInv /\ CountsInv /\ HealthInv /\ \A x \in Windows : BucketsInv(x)
  BY Zenon DEF WinInv
<1>1. PICK p \in DOMAIN Evict : p = health.pc
  BY Zenon DEF SumAdvance
<1>2. PICK w : w = Reads[p]
  BY Zenon
<1>3. /\ advance(w) /\ health' = [health EXCEPT !.pc = Evict[p], !.at = swNow]
      /\ UNCHANGED <<swNow, adder, added>>
  BY <1>1, <1>2, Zenon DEF SumAdvance
<1>4. w \in Windows
  BY <1>2 DEF Reads, Evict, Windows
<1>5. /\ buckets' \in [Windows -> Seq(Bucket)] /\ qty' \in [Windows -> Nat] /\ sum' \in [Windows -> Nat]
      /\ \A x \in Windows : BucketsInv(x)' /\ sum'[x] <= sum[x]
      /\ \A i \in DOMAIN buckets'[w] : buckets'[w][i].key > WindowStart - WindowLag
  BY <1>0, <1>3, <1>4, AdvanceInv, Zenon
<1>6. WinTypes' /\ AddersInv'
  BY <1>0, <1>3, <1>5, Zenon DEF WinTypes, AddersInv
<1>7. CountsInv'
  <2> SUFFICES ASSUME NEW x \in {"requests", "errors"}
               PROVE sum'[x] + Cardinality(Pending(x)') <= added[x]
    BY <1>3, Zenon DEF CountsInv
  <2>1. /\ x \in Windows /\ sum[x] \in Nat /\ sum'[x] \in Nat /\ added[x] \in Nat
        /\ sum[x] + Cardinality(Pending(x)) <= added[x]
    BY <1>0, <1>5, Zenon DEF CountsInv, Windows, WinTypes
  <2>2. Pending(x)' = Pending(x)
    BY <1>3, Zenon DEF Pending
  <2> QED
    BY <1>5, <2>1, <2>2, PendingFinite
<1>8. HealthInv'
  <2>1. /\ DOMAIN health' = DOMAIN NoHealth /\ health'.at = swNow /\ health'.errors = health.errors
        /\ health'.pc = Evict[p] /\ health'.overRate = health.overRate /\ health'.verdict = health.verdict
    BY <1>0, <1>3, Zenon DEF HealthInv, NoHealth
  <2>2. \A x \in DOMAIN Evict : Evict[x] = Evict[p] => x = p
    BY DEF Evict
  <2>3. \A x \in DOMAIN Evict : health'.pc = Evict[x] =>
          \A i \in DOMAIN buckets'[Reads[x]] :
            buckets'[Reads[x]][i].key > Round(health'.at) - WindowLength - WindowLag
    BY <1>2, <1>5, <2>1, <2>2, Zenon DEF WindowStart
  <2>4. HadRequests' <=> HadRequests
    BY <1>3, Zenon DEF HadRequests
  <2>5. health'.pc \in {"errors", "readErrors", "total", "readTotal"} => HadRequests
    BY <1>0, <1>1, <2>1 DEF HealthInv, Evict
  <2>6. swNow \in Nat /\ swNow' = swNow /\ added' = added /\ health.errors \in Nat /\ health.errors <= added["errors"]
    BY <1>0, <1>3, Zenon DEF WinTypes, HealthInv
  <2>7. swNow <= swNow
    BY <2>6
  <2>8. health.overRate => HadRequests /\ added["errors"] > 0
    BY <1>0, Zenon DEF HealthInv
  <2>9. UnhealthyHad'
    BY <1>0, <2>1, <2>4, <2>6, Zenon DEF HealthInv, UnhealthyHad
  <2> QED
    BY <2>1, <2>3, <2>4, <2>5, <2>6, <2>7, <2>8, <2>9, Zenon DEF HealthInv, Evict, Reads, Round, NoHealth
<1> QED
  BY <1>5, <1>6, <1>7, <1>8, Zenon DEF WinInv

\* What a window of ones holds was added to it.
LEMMA HeldWasAdded ==
  ASSUME WinInv, NEW w \in {"requests", "errors"}
  PROVE sum[w] \in Nat /\ added[w] \in Nat /\ sum[w] <= added[w]
<1>1. sum[w] \in Nat /\ added[w] \in Nat /\ sum[w] + Cardinality(Pending(w)) <= added[w]
  BY Zenon DEF WinInv, WinTypes, CountsInv, Windows
<1> QED
  BY <1>1, PendingFinite

\* IsHealthy and its verdict.
LEMMA VerdictInv ==
  ASSUME WinInv, NEW slow, \/ IsHealthy \/ Verdict(slow)
  PROVE WinInv'
<1>0. HealthInv /\ added["errors"] \in Nat
  BY HeldWasAdded, Zenon DEF WinInv
<1>1. CASE IsHealthy
  <2>1. /\ health' = [NoHealth EXCEPT !.pc = "requests", !.since = swNow]
        /\ UNCHANGED <<swNow, buckets, qty, sum, adder, added>>
    BY <1>1, Zenon DEF IsHealthy
  <2>2. /\ DOMAIN health' = DOMAIN NoHealth /\ health'.at = 0 /\ health'.errors = 0 /\ health'.pc = "requests"
        /\ health'.overRate = FALSE /\ health'.verdict = "none"
    BY <2>1, Zenon DEF NoHealth
  <2>3. \A p \in DOMAIN Evict : health'.pc # Evict[p]
    BY <2>2 DEF Evict
  <2> QED
    BY <1>0, <2>1, <2>2, <2>3, NotEvicted
<1>2. CASE Verdict(slow)
  <2> DEFINE v == IF health.overRate THEN "errors" ELSE IF slow THEN "latency" ELSE "healthy"
  <2>1. /\ health' = [NoHealth EXCEPT !.since = health.since, !.verdict = v]
        /\ UNCHANGED <<swNow, buckets, qty, sum, adder, added>>
    BY <1>2, Zenon DEF Verdict
  <2>2. v = "errors" => HadRequests /\ added["errors"] > 0
    BY <1>0, Zenon DEF HealthInv
  <2> HIDE DEF v
  <2>3. /\ DOMAIN health' = DOMAIN NoHealth /\ health'.at = 0 /\ health'.errors = 0 /\ health'.pc = "idle"
        /\ health'.overRate = FALSE /\ health'.verdict = v
    BY <2>1, Zenon DEF NoHealth
  <2>4. \A p \in DOMAIN Evict : health'.pc # Evict[p]
    BY <2>3 DEF Evict
  <2> QED
    BY <1>0, <2>1, <2>2, <2>3, <2>4, NotEvicted
<1> QED
  BY <1>1, <1>2, Zenon

\* Reading the requests of the window keeps the invariant.
LEMMA ReadRequestsInv ==
  ASSUME WinInv, ReadRequests
  PROVE WinInv'
<1> DEFINE next == IF sum["requests"] >= MinRequests THEN "errors" ELSE "latency"
<1>0. HealthInv
  BY Zenon DEF WinInv
<1>1. /\ health' = [[health EXCEPT !.requests = sum["requests"]] EXCEPT !.pc = next]
      /\ UNCHANGED <<swNow, buckets, qty, sum, adder, added>>
  BY Zenon DEF ReadRequests, Reading
<1>2. next \in {"errors", "latency"} /\ (next = "errors" => HadRequests)
  BY HeldWasAdded, WindowAssumption DEF HadRequests
<1> HIDE DEF next
<1>3. /\ DOMAIN health' = DOMAIN NoHealth /\ health'.at = health.at /\ health'.errors = health.errors
      /\ health'.pc = next /\ health'.overRate = health.overRate /\ health'.verdict = health.verdict
  BY <1>0, <1>1, Zenon DEF HealthInv, NoHealth
<1>4. \A p \in DOMAIN Evict : health'.pc # Evict[p]
  BY <1>2, <1>3 DEF Evict
<1>5. /\ health.errors \in Nat /\ health.errors <= added["errors"]
      /\ health.overRate => HadRequests /\ added["errors"] > 0
      /\ health.verdict = "errors" => HadRequests /\ added["errors"] > 0
  BY <1>0, Zenon DEF HealthInv, UnhealthyHad, HadRequests
<1> QED
  BY <1>1, <1>2, <1>3, <1>4, <1>5, NotEvicted, Zenon

\* Reading the errors of the window keeps the invariant.
LEMMA ReadErrorsInv ==
  ASSUME WinInv, ReadErrors
  PROVE WinInv'
<1>0. HealthInv
  BY Zenon DEF WinInv
<1>1. /\ health' = [[health EXCEPT !.errors = sum["errors"]] EXCEPT !.pc = "total"]
      /\ UNCHANGED <<swNow, buckets, qty, sum, adder, added>>
  BY Zenon DEF ReadErrors, Reading
<1>2. HadRequests
  BY <1>0, Zenon DEF HealthInv, ReadErrors
<1>3. /\ DOMAIN health' = DOMAIN NoHealth /\ health'.at = health.at /\ health'.errors = sum["errors"]
      /\ health'.pc = "total" /\ health'.overRate = health.overRate /\ health'.verdict = health.verdict
  BY <1>0, <1>1, Zenon DEF HealthInv, NoHealth
<1>4. \A p \in DOMAIN Evict : health'.pc # Evict[p]
  BY <1>3 DEF Evict
<1>5. /\ sum["errors"] \in Nat /\ sum["errors"] <= added["errors"]
      /\ health.overRate => HadRequests /\ added["errors"] > 0
      /\ health.verdict = "errors" => HadRequests /\ added["errors"] > 0
  BY <1>0, HeldWasAdded, Zenon DEF HealthInv, UnhealthyHad, HadRequests
<1> QED
  BY <1>1, <1>2, <1>3, <1>4, <1>5, NotEvicted, Zenon

\* A rate is over the threshold only if there were errors.
LEMMA OverNeedsErrors ==
  ASSUME NEW e \in Nat, NEW n \in Nat, OverRate(e, n)
  PROVE e > 0
<1>1. CASE n = 0
  BY <1>1, Zenon DEF OverRate
<1>2. CASE n # 0 /\ e = 0
  <2>1. 0 * RateDen >= RateNum * n
    BY <1>2, Zenon DEF OverRate
  <2>2. RateDen \in Nat /\ RateNum \in Nat \ {0} /\ n \in Nat \ {0}
    BY <1>2, WindowAssumption, Zenon
  <2>3. RateNum * n > 0
    BY <2>2
  <2> QED
    BY <2>1, <2>2, <2>3
<1> QED
  BY <1>1, <1>2

\* Reading the total for the rate keeps the invariant.
LEMMA ReadTotalInv ==
  ASSUME WinInv, ReadTotal
  PROVE WinInv'
<1> DEFINE over == OverRate(health.errors, sum["requests"])
<1>0. HealthInv
  BY Zenon DEF WinInv
<1>1. /\ health' = [[health EXCEPT !.total = sum["requests"], !.overRate = over] EXCEPT !.pc = "latency"]
      /\ UNCHANGED <<swNow, buckets, qty, sum, adder, added>>
  BY Zenon DEF ReadTotal, Reading
<1>2. HadRequests
  BY <1>0, Zenon DEF HealthInv, ReadTotal
<1>3. health.errors \in Nat /\ health.errors <= added["errors"] /\ sum["requests"] \in Nat /\ added["errors"] \in Nat
  BY <1>0, HeldWasAdded, Zenon DEF HealthInv
<1>4. over => added["errors"] > 0
  BY <1>3, OverNeedsErrors
<1> HIDE DEF over
<1>5. /\ DOMAIN health' = DOMAIN NoHealth /\ health'.at = health.at /\ health'.errors = health.errors
      /\ health'.pc = "latency" /\ health'.verdict = health.verdict
  BY <1>0, <1>1, Zenon DEF HealthInv, NoHealth
<1>6. health'.overRate = over
  BY <1>0, <1>1, Zenon DEF HealthInv, NoHealth
<1>7. \A p \in DOMAIN Evict : health'.pc # Evict[p]
  BY <1>5 DEF Evict
<1>8. health.verdict = "errors" => HadRequests /\ added["errors"] > 0
  BY <1>0, Zenon DEF HealthInv, UnhealthyHad, HadRequests
<1> QED
  BY <1>1, <1>2, <1>3, <1>4, <1>5, <1>6, <1>7, <1>8, NotEvicted

\* The reads of Avg.
LEMMA ReadLatencyInv ==
  ASSUME WinInv, ReadQty \/ ReadSum \/ Divide
  PROVE WinInv'
<1>0. HealthInv
  BY Zenon DEF WinInv
<1>1. CASE \E slow : Verdict(slow)
  BY <1>1, VerdictInv, Zenon
<1>2. CASE ~ \E slow : Verdict(slow)
  <2>1. \/ Reading("readSum", health)
        \/ Reading("divide", [health EXCEPT !.n = sum["latency"]])
    BY <1>2, Zenon DEF ReadQty, ReadSum, Divide
  <2>2. /\ DOMAIN health' = DOMAIN NoHealth /\ health'.at = health.at /\ health'.errors = health.errors
        /\ health'.pc \in {"readSum", "divide"} /\ health'.overRate = health.overRate
        /\ health'.verdict = health.verdict
        /\ UNCHANGED <<swNow, buckets, qty, sum, adder, added>>
    BY <1>0, <2>1, Zenon DEF HealthInv, NoHealth, Reading
  <2>3. \A p \in DOMAIN Evict : health'.pc # Evict[p]
    BY <2>2 DEF Evict
  <2>4. /\ health.errors \in Nat /\ health.errors <= added["errors"]
        /\ health.overRate => HadRequests /\ added["errors"] > 0
        /\ health.verdict = "errors" => HadRequests /\ added["errors"] > 0
    BY <1>0, Zenon DEF HealthInv, UnhealthyHad, HadRequests
  <2> QED
    BY <2>2, <2>3, <2>4, NotEvicted, Zenon
<1> QED
  BY <1>1, <1>2, Zenon

-----------------------------------------------------------------------------
\* The invariant holds of empty windows.
LEMMA WinInitially ==
  ASSUME SwInit
  PROVE WinInv
<1>1. NoAdd \in [pc : {"idle", "advance", "insert"}, window : Windows, t : Nat]
  BY Zenon DEF NoAdd, Windows
<1>2. <<>> \in Seq(Bucket)
  OBVIOUS
<1>3. WinTypes
  BY <1>1, <1>2, Zenon DEF SwInit, WinTypes
<1>4. AddersInv
  BY Zenon DEF SwInit, AddersInv, NoAdd
<1>5. CountsInv
  <2>1. \A w : Pending(w) = {}
    BY Zenon DEF SwInit, Pending, NoAdd
  <2>2. \A w : Cardinality(Pending(w)) = 0
    BY <2>1, FS_EmptySet, Zenon
  <2> QED
    BY <2>2 DEF SwInit, CountsInv, Windows
<1>6. HealthInv
  BY DEF SwInit, HealthInv, NoHealth, Evict, Windows, UnhealthyHad
<1>7. \A w \in Windows : BucketsInv(w)
  <2>1. QtyOf(<<>>) = 0 /\ SumOf(<<>>) = 0
    BY <1>2, TotalsEmpty, Zenon
  <2>2. \A w \in Windows : buckets[w] = <<>> /\ qty[w] = 0 /\ sum[w] = 0 /\ DOMAIN buckets[w] = {}
    BY DEF SwInit
  <2> QED
    BY <2>1, <2>2, Zenon DEF BucketsInv
<1> QED
  BY <1>3, <1>4, <1>5, <1>6, <1>7, Zenon DEF WinInv

\* Every step keeps the invariant.
LEMMA WinStep ==
  ASSUME WinInv, [SwNext]_swVars
  PROVE WinInv'
<1>1. CASE UNCHANGED swVars
  <2>1. UNCHANGED <<swNow, buckets, qty, sum, adder, health, added>>
    BY <1>1, Zenon DEF swVars
  <2>2. HealthInv'
    BY <2>1, HealthStays DEF WinInv, WinTypes
  <2> QED
    BY <2>1, <2>2, HealthOnly, Zenon
<1>2. ASSUME NEW a \in Adders, NEW w \in Windows, Add(a, w) PROVE WinInv'
  BY <1>2, AddInv, Zenon
<1>3. ASSUME NEW a \in Adders, AddAdvance(a) \/ AddWithTime(a) PROVE WinInv'
  BY <1>3, AddAdvanceInv, AddWithTimeInv, Zenon
<1> QED
  BY <1>1, <1>2, <1>3, VerdictInv, SumAdvanceInv, ReadRequestsInv, ReadErrorsInv, ReadTotalInv,
     ReadLatencyInv, WindowTickInv DEF SwNext

\* Whatever the sizes, the adders and how they overtake each other: what
\* IsHealthy reads after an eviction are the totals of the buckets, none of them
\* older than the window and the lag of an Add (advance, AddWithTime).
THEOREM WindowBoundedHolds == SwSpec => []WindowBounded
<1>1. WinInv => WindowBounded
  <2> SUFFICES ASSUME WinInv, NEW p \in DOMAIN Evict, health.pc = Evict[p]
               PROVE LET w == Reads[p]
                     IN /\ qty[w] = QtyOf(buckets[w]) /\ sum[w] = SumOf(buckets[w])
                        /\ \A i \in DOMAIN buckets[w] :
                             buckets[w][i].key > Round(health.at) - WindowLength - WindowLag
    BY Zenon DEF WindowBounded
  <2>1. Reads[p] \in Windows
    BY DEF Reads, Evict, Windows
  <2> QED
    BY <2>1, Zenon DEF WinInv, BucketsInv, HealthInv
<1> QED
  BY WinInitially, WinStep, <1>1, PTL DEF SwSpec

-----------------------------------------------------------------------------
(* When the errors were that IsHealthy finds. *)

\* The last error is in the window that ends when IsHealthy begins.
Recent == Round(lastAdd["errors"]) > Round(health.since) - WindowLength - WindowLag

\* No bucket, and no Add under way, is later than the last Add of its window.
LastInv ==
  /\ lastAdd \in [Windows -> Nat]
  /\ \A w \in Windows : \A i \in DOMAIN buckets[w] : buckets[w][i].key <= Round(lastAdd[w])
  /\ \A a \in Adders : adder[a].pc # "idle" => adder[a].t <= lastAdd[adder[a].window]
  /\ \A w \in Windows : lastAdd[w] <= swNow

\* IsHealthy evicts after it began, and the errors it counts are recent.
SinceInv ==
  /\ health.since \in Nat /\ health.since <= swNow
  /\ health.pc = "readErrors" => health.since <= health.at
  /\ health.errors > 0 \/ health.overRate \/ health.verdict = "errors" => Recent

RecentInv == WinInv /\ LastInv /\ SinceInv

\* Numbers that RecentInv compares.
LEMMA RecentNumbers ==
  ASSUME RecentInv
  PROVE /\ swNow \in Nat /\ health.since \in Nat /\ health.at \in Nat /\ health.errors \in Nat
        /\ lastAdd \in [Windows -> Nat] /\ "errors" \in Windows
        /\ WindowLength \in Nat /\ WindowLag \in Nat
BY WindowAssumption, Zenon DEF RecentInv, WinInv, WinTypes, HealthInv, LastInv, SinceInv, Windows

\* A later error is recent as well.
LEMMA RecentStays ==
  ASSUME RecentInv, Recent, lastAdd' \in [Windows -> Nat], lastAdd["errors"] <= lastAdd'["errors"],
         health'.since = health.since
  PROVE Recent'
<1>1. /\ lastAdd["errors"] \in Nat /\ lastAdd'["errors"] \in Nat /\ health.since \in Nat
      /\ WindowLength \in Nat /\ WindowLag \in Nat
  BY RecentNumbers, Zenon
<1>2. /\ Round(lastAdd["errors"]) \in Nat /\ Round(lastAdd'["errors"]) \in Nat /\ Round(health.since) \in Nat
      /\ Round(lastAdd["errors"]) <= Round(lastAdd'["errors"])
  BY <1>1, RoundOrder, Zenon
<1>3. Round(lastAdd["errors"]) > Round(health.since) - WindowLength - WindowLag
  BY Zenon DEF Recent
<1>4. Round(lastAdd'["errors"]) > Round(health.since) - WindowLength - WindowLag
  BY <1>1, <1>2, <1>3
<1> QED
  BY <1>4, Zenon DEF Recent, Round

\* Steps that leave IsHealthy alone.
LEMMA SinceStays ==
  ASSUME RecentInv, UNCHANGED health, swNow' \in Nat, swNow <= swNow',
         lastAdd' \in [Windows -> Nat], lastAdd["errors"] <= lastAdd'["errors"]
  PROVE SinceInv'
<1>1. health.since \in Nat /\ health.since <= swNow /\ swNow \in Nat
  BY RecentNumbers, Zenon DEF RecentInv, SinceInv
<1>2. health'.since <= swNow'
  BY <1>1
<1>3. Recent => Recent'
  BY RecentStays, Zenon
<1> QED
  BY <1>1, <1>2, <1>3, Zenon DEF RecentInv, SinceInv

\* Steps of IsHealthy that evict nothing.
LEMMA LastStays ==
  ASSUME LastInv, UNCHANGED <<swNow, buckets, adder, lastAdd>>
  PROVE LastInv'
BY Zenon DEF LastInv, Round

\* A caller reads the clock: the last add is now.
LEMMA RecentAdd ==
  ASSUME RecentInv, NEW a \in Adders, NEW w \in Windows, Add(a, w)
  PROVE LastInv' /\ SinceInv'
<1>1. /\ UNCHANGED <<swNow, buckets, health>> /\ lastAdd' = [lastAdd EXCEPT ![w] = swNow]
      /\ adder' = [adder EXCEPT ![a] = [pc |-> "advance", window |-> w, t |-> swNow]]
  BY Zenon DEF Add
<1>2. swNow \in Nat /\ lastAdd \in [Windows -> Nat] /\ "errors" \in Windows
  BY RecentNumbers, Zenon
<1>3. lastAdd' \in [Windows -> Nat] /\ \A x \in Windows : lastAdd'[x] = IF x = w THEN swNow ELSE lastAdd[x]
  BY <1>1, <1>2, Zenon
<1>4. \A x \in Windows : lastAdd[x] <= swNow
  BY Zenon DEF RecentInv, LastInv
<1>5. \A x \in Windows : lastAdd[x] <= lastAdd'[x] /\ lastAdd'[x] <= swNow
  BY <1>2, <1>3, <1>4
<1>6. SinceInv'
  <2>1. swNow' \in Nat /\ swNow <= swNow' /\ lastAdd["errors"] <= lastAdd'["errors"]
    BY <1>1, <1>2, <1>5
  <2> QED
    BY <1>1, <1>3, <2>1, SinceStays, Zenon
<1>7. ASSUME NEW x \in Windows, NEW i \in DOMAIN buckets[x] PROVE buckets[x][i].key <= Round(lastAdd'[x])
  <2>1. lastAdd[x] \in Nat /\ lastAdd'[x] \in Nat /\ buckets[x][i].key <= Round(lastAdd[x])
    BY <1>2, <1>3, Zenon DEF RecentInv, LastInv
  <2>2. Round(lastAdd[x]) \in Nat /\ Round(lastAdd'[x]) \in Nat /\ Round(lastAdd[x]) <= Round(lastAdd'[x])
    BY <1>5, <2>1, RoundOrder, Zenon
  <2>3. buckets[x][i].key \in Nat
    BY TotalsNat, Zenon DEF RecentInv, WinInv, WinTypes
  <2> QED
    BY <2>1, <2>2, <2>3
<1>8. ASSUME NEW b \in Adders, adder'[b].pc # "idle" PROVE adder'[b].t <= lastAdd'[adder'[b].window]
  <2>1. CASE b = a
    <3>1. adder'[b].t = swNow /\ adder'[b].window = w
      BY <1>1, <2>1, Zenon DEF RecentInv, WinInv, WinTypes
    <3> QED
      BY <1>2, <1>3, <3>1
  <2>2. CASE b # a
    <3>1. adder'[b] = adder[b] /\ adder[b].window \in Windows /\ adder[b].t \in Nat
      BY <1>1, <2>2, Zenon DEF RecentInv, WinInv, WinTypes
    <3>2. adder[b].t <= lastAdd[adder[b].window]
      BY <1>8, <3>1, Zenon DEF RecentInv, LastInv
    <3> QED
      BY <1>2, <1>3, <1>5, <3>1, <3>2
  <2> QED
    BY <2>1, <2>2, Zenon
<1>9. LastInv'
  BY <1>1, <1>3, <1>5, <1>7, <1>8, Zenon DEF LastInv, Round
<1> QED
  BY <1>6, <1>9, Zenon

\* An eviction leaves no bucket that was not there.
LEMMA LastEvicts ==
  ASSUME RecentInv, NEW w \in Windows, advance(w), UNCHANGED <<swNow, lastAdd>>,
         \A b \in Adders : /\ adder'[b].window = adder[b].window /\ adder'[b].t = adder[b].t
                           /\ adder'[b].pc # "idle" <=> adder[b].pc # "idle"
  PROVE LastInv'
<1>1. \A x \in Windows : \A i \in DOMAIN buckets'[x] : \E j \in DOMAIN buckets[x] : buckets'[x][i] = buckets[x][j]
  BY AdvanceInv, Zenon DEF RecentInv, WinInv
<1>2. \A x \in Windows : \A i \in DOMAIN buckets'[x] : buckets'[x][i].key <= Round(lastAdd[x])
  BY <1>1, Zenon DEF RecentInv, LastInv
<1> QED
  BY <1>2, Zenon DEF RecentInv, LastInv, Round

\* A bucket is inserted, at the time its caller read.
LEMMA RecentAddWithTime ==
  ASSUME RecentInv, NEW a \in Adders, AddWithTime(a)
  PROVE LastInv'
<1>0. WinTypes /\ LastInv
  BY Zenon DEF RecentInv, WinInv
<1>1. PICK w, key, val : /\ w = adder[a].window /\ key = Round(adder[a].t)
                         /\ val = IF w = "latency" THEN Latency ELSE 1
  BY Zenon
<1>2. /\ adder[a].pc = "insert" /\ adder' = [adder EXCEPT ![a] = NoAdd] /\ UNCHANGED <<swNow, lastAdd>>
      /\ IF inWindow(key) THEN buckets' = [buckets EXCEPT ![w] = Inserted(buckets[w], key, val)]
                          ELSE UNCHANGED buckets
  BY <1>1, Zenon DEF AddWithTime
<1>3. w \in Windows /\ adder[a].t \in Nat /\ adder[a].t <= lastAdd[w] /\ lastAdd[w] \in Nat
  BY <1>0, <1>1, <1>2, Zenon DEF WinTypes, LastInv
<1>4. key \in Nat /\ key <= Round(lastAdd[w]) /\ val \in Nat /\ buckets[w] \in Seq(Bucket)
  BY <1>0, <1>1, <1>3, RoundOrder, WindowAssumption, Zenon DEF WinTypes
<1>5. ASSUME NEW x \in Windows, NEW i \in DOMAIN buckets'[x] PROVE buckets'[x][i].key <= Round(lastAdd[x])
  <2>1. CASE buckets'[x] = buckets[x]
    BY <1>0, <1>5, <2>1, Zenon DEF LastInv
  <2>2. CASE buckets'[x] # buckets[x]
    <3> DEFINE cs == Inserted(buckets[w], key, val)
    <3>1. x = w /\ buckets'[x] = cs
      BY <1>0, <1>2, <1>3, <2>2, Zenon DEF WinTypes
    <3>2. /\ cs \in Seq(Bucket)
          /\ \A j \in 1 .. Len(cs) : IF j <= Len(buckets[w]) THEN cs[j].key = buckets[w][j].key ELSE cs[j].key = key
      BY <1>4, InsertedIs, Zenon
    <3> HIDE DEF cs
    <3>3. /\ i \in 1 .. Len(cs) /\ Len(buckets[w]) \in Nat
          /\ i <= Len(buckets[w]) => i \in DOMAIN buckets[w]
      BY <1>4, <1>5, <3>1, <3>2
    <3>4. cs[i].key = key \/ \E j \in DOMAIN buckets[w] : cs[i].key = buckets[w][j].key
      BY <3>2, <3>3, Zenon
    <3> QED
      BY <1>0, <1>3, <1>4, <3>1, <3>4, Zenon DEF LastInv
  <2> QED
    BY <2>1, <2>2, Zenon
<1>6. ASSUME NEW b \in Adders, adder'[b].pc # "idle" PROVE adder'[b] = adder[b]
  BY <1>0, <1>2, <1>6, Zenon DEF WinTypes, NoAdd
<1> QED
  BY <1>0, <1>2, <1>5, <1>6, Zenon DEF LastInv, Round

\* Errors that are counted are of buckets in the window.
LEMMA CountedAreRecent ==
  ASSUME RecentInv, health.pc = "readErrors", sum["errors"] > 0
  PROVE Recent
<1>1. /\ health.since \in Nat /\ health.at \in Nat /\ lastAdd \in [Windows -> Nat] /\ "errors" \in Windows
      /\ WindowLength \in Nat /\ WindowLag \in Nat
  BY RecentNumbers, Zenon
<1>2. health.since <= health.at
  BY Zenon DEF RecentInv, SinceInv
<1>3. buckets["errors"] \in Seq(Bucket) /\ sum["errors"] = SumOf(buckets["errors"])
  BY <1>1, Zenon DEF RecentInv, WinInv, WinTypes, BucketsInv
<1>4. 1 \in DOMAIN buckets["errors"]
  <2>1. Len(buckets["errors"]) # 0
    <3>1. ~ (0 > 0)
      OBVIOUS
    <3> QED
      BY <1>3, <3>1, TotalsEmpty, Zenon
  <2> QED
    BY <1>3, <2>1
<1>5. "errors" \in DOMAIN Evict /\ Evict["errors"] = "readErrors" /\ Reads["errors"] = "errors"
  BY DEF Evict, Reads
<1>6. buckets["errors"][1].key > Round(health.at) - WindowLength - WindowLag
  BY <1>4, <1>5, Zenon DEF RecentInv, WinInv, HealthInv
<1>7. buckets["errors"][1].key <= Round(lastAdd["errors"])
  BY <1>1, <1>4, Zenon DEF RecentInv, LastInv
<1>8. buckets["errors"][1].key \in Nat
  BY <1>3, <1>4, TotalsNat, Zenon
<1>9. /\ Round(health.since) \in Nat /\ Round(health.at) \in Nat /\ Round(lastAdd["errors"]) \in Nat
      /\ Round(health.since) <= Round(health.at)
  BY <1>1, <1>2, RoundOrder, Zenon
<1> QED
  BY <1>1, <1>6, <1>7, <1>8, <1>9 DEF Recent

\* The steps of IsHealthy.
LEMMA RecentHealth ==
  ASSUME RecentInv, NEW slow,
         \/ IsHealthy \/ SumAdvance \/ ReadRequests \/ ReadErrors \/ ReadTotal
         \/ Verdict(slow) \/ Reading("readSum", health) \/ Reading("divide", [health EXCEPT !.n = sum["latency"]])
  PROVE SinceInv'
<1>0. SinceInv /\ DOMAIN health = DOMAIN NoHealth
  BY Zenon DEF RecentInv, WinInv, HealthInv
<1>1. UNCHANGED <<swNow, lastAdd>>
  BY Zenon DEF IsHealthy, SumAdvance, ReadRequests, ReadErrors, ReadTotal, Reading, Verdict
<1>2. swNow \in Nat /\ health.since \in Nat /\ health.errors \in Nat /\ lastAdd \in [Windows -> Nat] /\ "errors" \in Windows
  BY RecentNumbers, Zenon
<1>3. Recent /\ health'.since = health.since => Recent'
  BY <1>1, Zenon DEF Recent, Round
<1>n. swNow <= swNow /\ ~ (0 > 0)
  BY <1>2
<1>4. CASE IsHealthy
  <2>1. /\ health'.since = swNow /\ health'.pc = "requests" /\ health'.errors = 0
        /\ health'.overRate = FALSE /\ health'.verdict = "none"
    BY <1>4, Zenon DEF IsHealthy, NoHealth
  <2> QED
    BY <1>1, <1>2, <1>n, <2>1, Zenon DEF SinceInv
<1>5. CASE SumAdvance
  <2>1. /\ health'.since = health.since /\ health'.at = swNow /\ health'.errors = health.errors
        /\ health'.overRate = health.overRate /\ health'.verdict = health.verdict
    BY <1>0, <1>5, Zenon DEF SumAdvance, NoHealth
  <2> QED
    BY <1>0, <1>1, <1>3, <2>1, Zenon DEF SinceInv
<1>6. CASE ReadRequests
  <2>1. /\ health'.since = health.since /\ health'.pc \in {"errors", "latency"} /\ health'.errors = health.errors
        /\ health'.overRate = health.overRate /\ health'.verdict = health.verdict
    BY <1>0, <1>6, Zenon DEF ReadRequests, Reading, NoHealth
  <2>2. health'.pc # "readErrors"
    BY <2>1, Zenon
  <2> QED
    BY <1>0, <1>1, <1>3, <2>1, <2>2, Zenon DEF SinceInv
<1>7. CASE ReadErrors
  <2>1. /\ health'.since = health.since /\ health'.pc = "total" /\ health'.errors = sum["errors"]
        /\ health'.overRate = health.overRate /\ health'.verdict = health.verdict
        /\ health.pc = "readErrors"
    BY <1>0, <1>7, Zenon DEF ReadErrors, Reading, NoHealth
  <2>2. sum["errors"] > 0 => Recent
    BY <2>1, CountedAreRecent, Zenon
  <2> QED
    BY <1>0, <1>1, <1>3, <2>1, <2>2, Zenon DEF SinceInv
<1>8. CASE ReadTotal
  <2> DEFINE over == OverRate(health.errors, sum["requests"])
  <2>1. /\ health'.since = health.since /\ health'.pc = "latency" /\ health'.errors = health.errors
        /\ health'.verdict = health.verdict
    BY <1>0, <1>8, Zenon DEF ReadTotal, Reading, NoHealth
  <2>2. health'.overRate = over
    <3> HIDE DEF over
    <3>1. health' = [[health EXCEPT !.total = sum["requests"], !.overRate = over] EXCEPT !.pc = "latency"]
      BY <1>8, Zenon DEF ReadTotal, Reading, over
    <3> QED
      BY <1>0, <3>1, Zenon DEF NoHealth
  <2>3. sum["requests"] \in Nat
    BY HeldWasAdded, Zenon DEF RecentInv
  <2>4. over => health.errors > 0
    BY <1>2, <2>3, OverNeedsErrors, Zenon
  <2> HIDE DEF over
  <2> QED
    BY <1>0, <1>1, <1>3, <2>1, <2>2, <2>4, Zenon DEF SinceInv
<1>9. CASE Verdict(slow)
  <2>1. /\ health'.since = health.since /\ health'.pc = "idle" /\ health'.errors = 0 /\ health'.overRate = FALSE
        /\ health'.verdict = IF health.overRate THEN "errors" ELSE IF slow THEN "latency" ELSE "healthy"
    BY <1>9, Zenon DEF Verdict, NoHealth
  <2>2. health'.verdict = "errors" => health.overRate
    BY <2>1, Zenon
  <2> QED
    BY <1>0, <1>1, <1>3, <1>n, <2>1, <2>2, Zenon DEF SinceInv
<1>10. CASE Reading("readSum", health) \/ Reading("divide", [health EXCEPT !.n = sum["latency"]])
  <2>1. /\ health'.since = health.since /\ health'.pc \in {"readSum", "divide"} /\ health'.errors = health.errors
        /\ health'.overRate = health.overRate /\ health'.verdict = health.verdict
    BY <1>0, <1>10, Zenon DEF Reading, NoHealth
  <2>2. health'.pc # "readErrors"
    BY <2>1, Zenon
  <2> QED
    BY <1>0, <1>1, <1>3, <2>1, <2>2, Zenon DEF SinceInv
<1> QED
  BY <1>4, <1>5, <1>6, <1>7, <1>8, <1>9, <1>10, Zenon

\* Every step of the windows keeps the times of the last adds.
LEMMA RecentStep ==
  ASSUME RecentInv, [SwNext]_swVars
  PROVE RecentInv'
<1>0. WinInv' /\ WinInv /\ LastInv
  BY WinStep, Zenon DEF RecentInv
<1>n. swNow \in Nat /\ swNow <= swNow /\ lastAdd \in [Windows -> Nat] /\ lastAdd["errors"] <= lastAdd["errors"]
      /\ \A w \in Windows : lastAdd[w] <= swNow
  <2>1. swNow \in Nat /\ lastAdd \in [Windows -> Nat] /\ lastAdd["errors"] \in Nat
    BY RecentNumbers, Zenon
  <2> QED
    BY <1>0, <2>1 DEF LastInv
<1>1. CASE UNCHANGED swVars
  <2>1. UNCHANGED <<swNow, buckets, adder, health, lastAdd>>
    BY <1>1, Zenon DEF swVars
  <2> QED
    BY <1>0, <1>n, <2>1, LastStays, SinceStays, Zenon DEF RecentInv
<1>2. ASSUME NEW a \in Adders, NEW w \in Windows, Add(a, w) PROVE RecentInv'
  BY <1>0, <1>2, RecentAdd, Zenon DEF RecentInv
<1>3. ASSUME NEW a \in Adders, AddAdvance(a) PROVE RecentInv'
  <2>1. /\ adder[a].window \in Windows /\ advance(adder[a].window) /\ UNCHANGED <<swNow, health, lastAdd>>
        /\ adder' = [adder EXCEPT ![a] = [adder[a] EXCEPT !.pc = "insert"]] /\ adder[a].pc = "advance"
    BY <1>0, <1>3, Zenon DEF AddAdvance, WinInv, WinTypes
  <2>2. \A b \in Adders : /\ adder'[b].window = adder[b].window /\ adder'[b].t = adder[b].t
                          /\ adder'[b].pc # "idle" <=> adder[b].pc # "idle"
    BY <1>0, <2>1, Zenon DEF WinInv, WinTypes
  <2>3. LastInv'
    BY <2>1, <2>2, LastEvicts, Zenon
  <2> QED
    BY <1>0, <1>n, <2>1, <2>3, SinceStays, Zenon DEF RecentInv
<1>4. ASSUME NEW a \in Adders, AddWithTime(a) PROVE RecentInv'
  <2>1. UNCHANGED <<swNow, health, lastAdd>>
    BY <1>4, Zenon DEF AddWithTime
  <2> QED
    BY <1>0, <1>4, <1>n, <2>1, RecentAddWithTime, SinceStays, Zenon DEF RecentInv
<1>5. CASE SumAdvance
  <2>1. PICK p \in DOMAIN Evict : advance(Reads[p]) /\ UNCHANGED <<swNow, adder, lastAdd>>
    BY <1>5, Zenon DEF SumAdvance
  <2>2. Reads[p] \in Windows
    BY DEF Reads, Evict, Windows
  <2>3. LastInv'
    BY <2>1, <2>2, LastEvicts, Zenon
  <2> QED
    BY <1>0, <1>5, <2>3, RecentHealth, Zenon DEF RecentInv
<1>6. CASE IsHealthy \/ ReadRequests \/ ReadErrors \/ ReadTotal
  <2>1. UNCHANGED <<swNow, buckets, adder, lastAdd>>
    BY <1>6, Zenon DEF IsHealthy, ReadRequests, ReadErrors, ReadTotal, Reading
  <2> QED
    BY <1>0, <1>6, <2>1, LastStays, RecentHealth, Zenon DEF RecentInv
<1>7. CASE ReadQty \/ ReadSum \/ Divide
  <2>1. PICK slow : \/ Verdict(slow) \/ Reading("readSum", health)
                    \/ Reading("divide", [health EXCEPT !.n = sum["latency"]])
    BY <1>7, Zenon DEF ReadQty, ReadSum, Divide
  <2>2. UNCHANGED <<swNow, buckets, adder, lastAdd>>
    BY <2>1, Zenon DEF Reading, Verdict
  <2> QED
    BY <1>0, <2>1, <2>2, LastStays, RecentHealth, Zenon DEF RecentInv
<1>8. CASE WindowTick
  <2>1. swNow' = swNow + 1 /\ UNCHANGED <<buckets, adder, health, lastAdd>>
    BY <1>8, Zenon DEF WindowTick
  <2>2. swNow' \in Nat /\ swNow <= swNow' /\ \A w \in Windows : lastAdd[w] <= swNow'
    BY <1>n, <2>1
  <2>3. LastInv'
    BY <1>0, <2>1, <2>2, Zenon DEF LastInv, Round
  <2> QED
    BY <1>0, <1>n, <2>1, <2>2, <2>3, SinceStays, Zenon DEF RecentInv
<1> QED
  BY <1>1, <1>2, <1>3, <1>4, <1>5, <1>6, <1>7, <1>8, Zenon DEF SwNext

\* Nothing was added yet.
LEMMA RecentInitially ==
  ASSUME SwInit
  PROVE RecentInv
<1>1. WinInv
  BY WinInitially, Zenon
<1>2. \A w \in Windows : buckets[w] = <<>> /\ lastAdd[w] = 0 /\ DOMAIN buckets[w] = {}
  BY DEF SwInit
<1>3. 0 \in Nat /\ 0 <= 0 /\ ~ (0 > 0)
  OBVIOUS
<1>4. LastInv
  BY <1>2, <1>3, Zenon DEF SwInit, LastInv, NoAdd
<1>5. SinceInv
  BY <1>3, Zenon DEF SwInit, SinceInv, NoHealth
<1> QED
  BY <1>1, <1>4, <1>5, Zenon DEF RecentInv

\* A backend is found unhealthy for its errors only after an error that the
\* window of the check still covers, and the minimum of requests, whatever
\* happens between the reads (IsHealthy, ErrorRate).
THEOREM UnhealthyNeedsErrorsHolds == SwSpec => []UnhealthyNeedsErrors
<1>1. RecentInv => UnhealthyNeedsErrors
  BY Zenon DEF RecentInv, WinInv, HealthInv, SinceInv, Recent, UnhealthyHad, HadRequests, UnhealthyNeedsErrors
<1> QED
  BY RecentInitially, RecentStep, <1>1, PTL DEF SwSpec
=============================================================================
