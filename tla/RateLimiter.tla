---------------------------- MODULE RateLimiter ----------------------------
(***************************************************************************)
(* proxyd/frontend_rate_limiter.go: the limiter that asks Redis and falls  *)
(* back on memory.  Its callers are HTTP handlers, so Takes overlap: each  *)
(* pulls out the current generation of counters under one mutex and counts *)
(* in it under another, and each names its window in Redis before Redis    *)
(* runs the command.                                                       *)
(***************************************************************************)
EXTENDS Integers, Sequences

CONSTANTS
  Takers,       \* goroutines that call Take
  LimitKeys,    \* what is limited: an address, a method, a sender
  LimitMax,     \* r.max and m.max
  LimitDur,     \* r.dur and m.dur, in milliseconds
  Second,       \* 1000, the milliseconds in the unit of Time.Unix
  LimiterTime,  \* bound: the clock stops here
  LimiterLag,   \* bound: how late Redis runs a command
  MaxTakes      \* bound: the Takes begun

ASSUME LimiterAssumption ==
  /\ LimitKeys # {} /\ LimitMax \in Nat /\ LimitDur \in Nat \ {0} /\ Second \in 1 .. LimitDur
  /\ LimiterTime \in Nat /\ LimiterLag \in Nat /\ MaxTakes \in Nat

VARIABLES
  rlNow,      \* the clock
  rdb,        \* Redis: value and expiry of each key that was ever set
  gens,       \* the generations of m.currGeneration, the current one last
  taker,      \* where each Take is
  takes,      \* the Takes begun
  byRedis,    \* history: Takes granted by Redis, for a window and a key
  byMemory    \* history: Takes granted by memory, for a window and a key

rlVars == <<rlNow, rdb, gens, taker, takes, byRedis, byMemory>>

\* truncateNow: the start of the window, in seconds.
truncateNow(now) == ((now \div LimitDur) * LimitDur) \div Second

Stamps == 0 .. LimiterTime
NoTake == [pc |-> "idle", key |-> CHOOSE k \in LimitKeys : TRUE, ts |-> 0, at |-> 0, gen |-> 0]
NoGrants == [ts \in Stamps |-> [k \in LimitKeys |-> 0]]

RlInit ==
  /\ rlNow = 0
  /\ rdb = [ts \in Stamps |-> [k \in LimitKeys |-> [val |-> 0, expires |-> 0]]]
  /\ gens = <<>>
  /\ taker = [t \in Takers |-> NoTake]
  /\ takes = 0
  /\ byRedis = NoGrants /\ byMemory = NoGrants

-----------------------------------------------------------------------------
(* FallbackRateLimiter.Take and the primary, RedisFrontendRateLimiter.Take. *)

Take(t, k) ==
  /\ taker[t].pc = "idle" /\ takes < MaxTakes
  /\ takes' = takes + 1
  /\ taker' = [taker EXCEPT ![t] = [pc |-> "redis", key |-> k, ts |-> truncateNow(rlNow),
                                    at |-> rlNow, gen |-> 0]]
  /\ UNCHANGED <<rlNow, rdb, gens, byRedis, byMemory>>

\* Mutant of Lifetime: the counter lives for a third of the window.
ShortLifetime == LimitDur \div 3

Lifetime == LimitDur - 1

Value(ts, k) == IF rlNow < rdb[ts][k].expires THEN rdb[ts][k].val ELSE 0

\* Redis runs INCR and PEXPIRE.
Incr(t) ==
  rdb' = [rdb EXCEPT ![taker[t].ts][taker[t].key] =
            [val |-> Value(taker[t].ts, taker[t].key) + 1, expires |-> rlNow + Lifetime]]

RedisTake(t) ==
  /\ taker[t].pc = "redis"
  /\ Incr(t)
  /\ byRedis' = IF Value(taker[t].ts, taker[t].key) < LimitMax
                  THEN [byRedis EXCEPT ![taker[t].ts][taker[t].key] = @ + 1] ELSE byRedis
  /\ taker' = [taker EXCEPT ![t] = NoTake]
  /\ UNCHANGED <<rlNow, gens, takes, byMemory>>

\* An error, with the commands run or not: the secondary is asked.
RedisFails(t) ==
  /\ taker[t].pc = "redis"
  /\ Incr(t) \/ UNCHANGED rdb
  /\ taker' = [taker EXCEPT ![t].pc = "memory"]
  /\ UNCHANGED <<rlNow, gens, takes, byRedis, byMemory>>

-----------------------------------------------------------------------------
(* The secondary, MemoryFrontendRateLimiter.Take. *)

\* Mutant of Current: a new generation for every Take.
CurrentFresh(ts) == Append(gens, [ts |-> ts, used |-> [k \in LimitKeys |-> 0]])

\* m.currGeneration, reset when it is another window's.
Current(ts) ==
  IF gens # <<>> /\ gens[Len(gens)].ts = ts
    THEN gens ELSE Append(gens, [ts |-> ts, used |-> [k \in LimitKeys |-> 0]])

\* Under m.mtx: the generation is pulled out.
MemoryTake(t) ==
  /\ taker[t].pc = "memory"
  /\ gens' = Current(truncateNow(rlNow))
  /\ taker' = [taker EXCEPT ![t].pc = "count", ![t].gen = Len(gens')]
  /\ UNCHANGED <<rlNow, rdb, takes, byRedis, byMemory>>

\* limitedKeys.Take, under the generation's own mutex.
Count(t) ==
  LET g == taker[t].gen  k == taker[t].key
  IN /\ taker[t].pc = "count"
     /\ gens' = [gens EXCEPT ![g].used[k] = @ + 1]
     /\ byMemory' = IF gens[g].used[k] < LimitMax
                      THEN [byMemory EXCEPT ![gens[g].ts][k] = @ + 1] ELSE byMemory
     /\ taker' = [taker EXCEPT ![t] = NoTake]
     /\ UNCHANGED <<rlNow, rdb, takes, byRedis>>

LimiterTick ==
  /\ rlNow < LimiterTime
  /\ \A t \in Takers : taker[t].pc = "redis" => rlNow < taker[t].at + LimiterLag
  /\ rlNow' = rlNow + 1
  /\ UNCHANGED <<rdb, gens, taker, takes, byRedis, byMemory>>

RlNext ==
  \/ \E t \in Takers, k \in LimitKeys : Take(t, k)
  \/ \E t \in Takers : RedisTake(t) \/ RedisFails(t) \/ MemoryTake(t) \/ Count(t)
  \/ LimiterTick

RlSpec == RlInit /\ [][RlNext]_rlVars

-----------------------------------------------------------------------------
(* Properties. *)

\* The variables have their types, and a Take that counts has a generation.
RlTypeOK ==
  /\ rlNow \in Stamps /\ takes \in 0 .. MaxTakes
  /\ rdb \in [Stamps -> [LimitKeys -> [val : Nat, expires : Nat]]]
  /\ gens \in Seq([ts : Stamps, used : [LimitKeys -> Nat]])
  /\ taker \in [Takers -> [pc : {"idle", "redis", "memory", "count"}, key : LimitKeys,
                           ts : Stamps, at : Stamps, gen : Nat]]
  /\ \A t \in Takers : taker[t].pc = "count" => taker[t].gen \in 1 .. Len(gens)
  /\ byRedis \in [Stamps -> [LimitKeys -> Nat]]
  /\ byMemory \in [Stamps -> [LimitKeys -> Nat]]

\* Memory grants a key at most LimitMax Takes in a window, although a Take counts
\* after it has let go of the limiter: one that counts late counts in the
\* generation of its own window, and a window never gets a second generation.
MemoryWithinLimit == \A ts \in Stamps, k \in LimitKeys : byMemory[ts][k] <= LimitMax

\* Redis grants a key at most twice LimitMax in a window.  The counter lives one
\* millisecond less than the window, so it may be gone in the window's last
\* millisecond and start again, but not a second time, unless a command is
\* delayed for as long as the counter lives.
RedisWithinTwice == \A ts \in Stamps, k \in LimitKeys : byRedis[ts][k] <= 2 * LimitMax
=============================================================================
