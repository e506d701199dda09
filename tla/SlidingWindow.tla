--------------------------- MODULE SlidingWindow ---------------------------
(***************************************************************************)
(* proxyd/pkg/avg-sliding-window/sliding.go, and the health of a backend   *)
(* that backend.go computes from three such windows.                       *)
(*                                                                         *)
(* An Add reads the clock, evicts old buckets in one critical section and  *)
(* inserts its point in another, so that adders overtake each other and    *)
(* buckets are not always in the order of their keys.  IsHealthy reads the *)
(* sums without the mutex, one after the other.                            *)
(***************************************************************************)
EXTENDS Totals, Sequences, FiniteSets

CONSTANTS
  Adders,         \* goroutines that call Incr or Add
  BucketSize,     \* sw.bucketSize
  WindowLength,   \* sw.windowLength
  Latency,        \* the latency that a request adds
  MaxLatency,     \* b.maxLatencyThreshold
  MinRequests,    \* 10 in ErrorRate
  RateNum,        \* b.maxErrorRateThreshold is RateNum / RateDen
  RateDen,
  WindowTime,     \* bound: the clock stops here
  WindowLag,      \* bound: how late an Add inserts what it timed
  MaxAdds         \* bound: the Adds called

ASSUME WindowAssumption ==
  /\ BucketSize \in Nat \ {0} /\ WindowLength \in Nat /\ WindowTime \in Nat /\ MaxAdds \in Nat
  /\ WindowLag \in Nat /\ WindowLag % BucketSize = 0
  /\ Latency \in Nat /\ MaxLatency \in Nat \ {0} /\ MinRequests \in Nat \ {0}
  /\ RateNum \in Nat \ {0} /\ RateDen \in Nat \ {0}
  /\ IsFiniteSet(Adders)

Windows == {"requests", "errors", "latency"}

VARIABLES
  swNow,    \* the clock
  buckets,  \* sw.buckets: a linked map, in the order of insertion
  qty,      \* sw.qty
  sum,      \* sw.sum
  adder,    \* where each Add is
  health,   \* where IsHealthy is, since when, what it has read, and its verdict
  added,    \* history: the Adds called on each window
  lastAdd   \* history: when the last of them was

swVars == <<swNow, buckets, qty, sum, adder, health, added, lastAdd>>

NoAdd == [pc |-> "idle", window |-> "requests", t |-> 0]
NoHealth == [pc |-> "idle", since |-> 0, at |-> 0, requests |-> 0, errors |-> 0, total |-> 0,
             n |-> 0, overRate |-> FALSE, verdict |-> "none"]

SwInit ==
  /\ swNow = 0
  /\ buckets = [w \in Windows |-> <<>>]
  /\ qty = [w \in Windows |-> 0] /\ sum = [w \in Windows |-> 0]
  /\ adder = [a \in Adders |-> NoAdd]
  /\ health = NoHealth
  /\ added = [w \in Windows |-> 0] /\ lastAdd = [w \in Windows |-> 0]

\* time.Round: to the nearest bucket, halves up.
Round(t) == ((t + BucketSize \div 2) \div BucketSize) * BucketSize

WindowStart == Round(swNow) - WindowLength

SumOf(bs) == Total([i \in DOMAIN bs |-> bs[i].sum], Len(bs))
QtyOf(bs) == Total([i \in DOMAIN bs |-> bs[i].qty], Len(bs))

\* Mutant of Expired: one bucket goes at a time.
ExpiredOne(w) == IF buckets[w] # <<>> /\ Head(buckets[w]).key <= WindowStart THEN 1 ELSE 0

\* How many buckets advance removes: those before the first one in the window.
Expired(w) ==
  CHOOSE n \in 0 .. Len(buckets[w]) :
    /\ \A i \in 1 .. n : buckets[w][i].key <= WindowStart
    /\ n < Len(buckets[w]) => buckets[w][n + 1].key > WindowStart

\* advance: the last bucket to go resets the totals, the others are deducted.
advance(w) ==
  LET n == Expired(w)
      gone == SubSeq(buckets[w], 1, n)
      rest == SubSeq(buckets[w], n + 1, Len(buckets[w]))
      reset == n > 0 /\ rest = <<>>
  IN /\ buckets' = [buckets EXCEPT ![w] = rest]
     /\ qty' = [qty EXCEPT ![w] = IF reset THEN 0 ELSE @ - QtyOf(gone)]
     /\ sum' = [sum EXCEPT ![w] = IF reset THEN 0 ELSE @ - SumOf(gone)]

-----------------------------------------------------------------------------
(* Add. *)

\* The clock is read before either critical section.
Add(a, w) ==
  /\ adder[a].pc = "idle"
  /\ added["requests"] + added["errors"] + added["latency"] < MaxAdds
  /\ adder' = [adder EXCEPT ![a] = [pc |-> "advance", window |-> w, t |-> swNow]]
  /\ added' = [added EXCEPT ![w] = @ + 1] /\ lastAdd' = [lastAdd EXCEPT ![w] = swNow]
  /\ UNCHANGED <<swNow, buckets, qty, sum, health>>

AddAdvance(a) ==
  /\ adder[a].pc = "advance"
  /\ advance(adder[a].window)
  /\ adder' = [adder EXCEPT ![a].pc = "insert"]
  /\ UNCHANGED <<swNow, health, added, lastAdd>>

inWindow(key) == WindowStart < key /\ key <= Round(swNow)

\* A point goes to the bucket of its key, or to a new one at the end.
Inserted(bs, key, val) ==
  LET i == CHOOSE i \in DOMAIN bs : bs[i].key = key
  IN IF \E j \in DOMAIN bs : bs[j].key = key
       THEN [bs EXCEPT ![i].sum = @ + val, ![i].qty = @ + 1]
       ELSE Append(bs, [key |-> key, sum |-> val, qty |-> 1])

AddWithTime(a) ==
  LET w == adder[a].window
      key == Round(adder[a].t)
      val == IF w = "latency" THEN Latency ELSE 1
  IN /\ adder[a].pc = "insert"
     /\ adder' = [adder EXCEPT ![a] = NoAdd]
     /\ IF inWindow(key)
          THEN /\ buckets' = [buckets EXCEPT ![w] = Inserted(@, key, val)]
               /\ qty' = [qty EXCEPT ![w] = @ + 1]
               /\ sum' = [sum EXCEPT ![w] = @ + val]
          ELSE UNCHANGED <<buckets, qty, sum>>
     /\ UNCHANGED <<swNow, health, added, lastAdd>>

-----------------------------------------------------------------------------
(* IsHealthy. *)

IsHealthy ==
  /\ health.pc = "idle"
  /\ health' = [NoHealth EXCEPT !.pc = "requests", !.since = swNow]
  /\ UNCHANGED <<swNow, buckets, qty, sum, adder, added, lastAdd>>

\* Sum and Avg first advance the window, in a critical section.
Evict == [requests |-> "readRequests", errors |-> "readErrors",
          total |-> "readTotal", latency |-> "readQty"]
Reads == [requests |-> "requests", errors |-> "errors", total |-> "requests",
          latency |-> "latency"]

SumAdvance ==
  /\ health.pc \in DOMAIN Evict
  /\ advance(Reads[health.pc])
  /\ health' = [health EXCEPT !.pc = Evict[health.pc], !.at = swNow]
  /\ UNCHANGED <<swNow, adder, added, lastAdd>>

Reading(next, h) ==
  /\ health' = [h EXCEPT !.pc = next]
  /\ UNCHANGED <<swNow, buckets, qty, sum, adder, added, lastAdd>>

\* ErrorRate looks at the errors only after a minimum of requests.
ReadRequests ==
  /\ health.pc = "readRequests"
  /\ Reading(IF sum["requests"] >= MinRequests THEN "errors" ELSE "latency",
             [health EXCEPT !.requests = sum["requests"]])

ReadErrors ==
  /\ health.pc = "readErrors"
  /\ Reading("total", [health EXCEPT !.errors = sum["errors"]])

\* Mutant of OverRate: a rate of no requests at all is over the threshold.
OverRateOfNone(errors, total) == errors * RateDen >= RateNum * total

\* errorRate >= b.maxErrorRateThreshold, in floating point: 0 / 0 is not a
\* number and compares false, any other division by zero is infinite.
OverRate(errors, total) ==
  IF total = 0 THEN errors > 0 ELSE errors * RateDen >= RateNum * total

ReadTotal ==
  /\ health.pc = "readTotal"
  /\ Reading("latency", [health EXCEPT !.total = sum["requests"],
                           !.overRate = OverRate(health.errors, sum["requests"])])

Verdict(slow) ==
  /\ health' = [NoHealth EXCEPT !.since = health.since, !.verdict =
        IF health.overRate THEN "errors" ELSE IF slow THEN "latency" ELSE "healthy"]
  /\ UNCHANGED <<swNow, buckets, qty, sum, adder, added, lastAdd>>

\* Avg: the quantity is read twice, around the sum.
ReadQty ==
  /\ health.pc = "readQty"
  /\ IF qty["latency"] = 0 THEN Verdict(FALSE) ELSE Reading("readSum", health)

ReadSum ==
  /\ health.pc = "readSum"
  /\ Reading("divide", [health EXCEPT !.n = sum["latency"]])

\* Should the quantity be gone by now, the quotient is infinite or not a
\* number, and what its conversion to a duration gives depends on the machine.
Divide ==
  /\ health.pc = "divide"
  /\ IF qty["latency"] = 0 THEN \E slow \in BOOLEAN : Verdict(slow)
                           ELSE Verdict(health.n >= MaxLatency * qty["latency"])

WindowTick ==
  /\ swNow < WindowTime
  /\ \A a \in Adders : adder[a].pc # "idle" => swNow < adder[a].t + WindowLag
  /\ swNow' = swNow + 1
  /\ UNCHANGED <<buckets, qty, sum, adder, health, added, lastAdd>>

SwNext ==
  \/ \E a \in Adders, w \in Windows : Add(a, w)
  \/ \E a \in Adders : AddAdvance(a) \/ AddWithTime(a)
  \/ IsHealthy \/ SumAdvance
  \/ ReadRequests \/ ReadErrors \/ ReadTotal \/ ReadQty \/ ReadSum \/ Divide
  \/ WindowTick

SwSpec == SwInit /\ [][SwNext]_swVars

-----------------------------------------------------------------------------
(* Properties. *)

\* What is read after an eviction is the total of the buckets, although advance
\* resets it in one branch and deducts from it in the other, and no bucket is
\* older than the window and the time an Add may lag: advance stops at the first
\* bucket in the window, and one behind it that is too old was inserted late.
WindowBounded ==
  \A p \in DOMAIN Evict : health.pc = Evict[p] =>
    LET w == Reads[p]
    IN /\ qty[w] = QtyOf(buckets[w]) /\ sum[w] = SumOf(buckets[w])
       /\ \A i \in DOMAIN buckets[w] :
            buckets[w][i].key > Round(health.at) - WindowLength - WindowLag

\* A backend is unhealthy for its errors only if one was added in the window
\* that ends when IsHealthy begins, or since (but for the time an Add may lag),
\* and if it ever had the minimum of requests, however the windows move between
\* the three reads of ErrorRate: errors that left the window are not held
\* against it, and a rate of nothing is none.
UnhealthyNeedsErrors ==
  health.verdict = "errors" =>
    /\ added["errors"] > 0 /\ added["requests"] >= MinRequests
    /\ Round(lastAdd["errors"]) > Round(health.since) - WindowLength - WindowLag
=============================================================================
