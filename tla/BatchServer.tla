---------------------------- MODULE BatchServer ----------------------------
(***************************************************************************)
(* proxyd/server.go: an HTTP request, single or a batch, from HandleRPC to *)
(* its answer, with the cache of cache.go and methods.go.  The calls of a  *)
(* batch are spread over groups, looked up, forwarded in minibatches to    *)
(* backends that may answer in any order, and put together again, while    *)
(* other requests share the cache and the limits.                          *)
(***************************************************************************)
EXTENDS Integers, Sequences, FiniteSets, Functions

CONSTANTS
  Handlers,              \* goroutines serving HTTP requests
  Bodies,                \* the bodies each may get: isBatch, and the calls
  MaxBatchSize,          \* s.maxBatchSize
  MaxUpstreamBatchSize,  \* s.maxUpstreamBatchSize
  LimitOf,               \* the maximum of each limiter: main, override, sender
  OverrideIsGlobal       \* the method with a limit of its own is globally limited

\* The calls of a body are a sequence.
ASSUME BodiesAssumption ==
  \A h \in Handlers : \A body \in Bodies[h] :
    body.calls \in Seq({body.calls[i] : i \in DOMAIN body.calls})

\* A call has an id, a method and its params.  What the loop over the calls
\* tells apart is the kind of the method:
\*   unparsable, invalid, healthz, accounts, unlisted: answered by proxyd;
\*   static, rawByHash: cached, by their params (rawByHash is
\*   debug_getRawReceipts of a block hash);  limited: has a limit of its own;
\*   send: eth_sendRawTransaction;  badSend: one refused before the sender's
\*   limit is taken;  receipts: consensus_getReceipts.
NoId == "nil"
GroupOf(c) == IF c.method = "send" THEN "sequencer" ELSE "main"

VARIABLES
  http,       \* each HTTP request: where it is, its body, its outcome
  responses,  \* responses of the calls, by position; Unset before
  batches,    \* the group of each call that was let through
  work,       \* the group at hand: positions to look up, misses, those to store,
              \* slices whose order is that of the calls
  used,       \* what was taken from each limiter
  primary,    \* the Redis cache: the value stored under a key
  secondary,  \* the memory cache behind it
  panicked    \* sortBatchRPCResponse found a duplicate

bsVars == <<http, responses, batches, work, used, primary, secondary, panicked>>

Unset == [id |-> "unset", is |-> "unset", of |-> <<>>]
NoGroup == <<0, "none">>
NothingToDo == [look |-> {}, miss |-> {}, store |-> {}]
IdleHandler == [pc |-> "idle", body |-> [isBatch |-> FALSE, calls |-> <<>>], i |-> 0,
         exempt |-> FALSE, out |-> "none"]

\* The key that methods.go makes of a request.
Key(c) == <<c.method, c.params>>
CacheKeys ==
  {Key(c) : c \in UNION {{b.calls[i] : i \in DOMAIN b.calls} : b \in UNION {Bodies[h] : h \in Handlers}}}
Nothing == [is |-> "nothing", of |-> <<>>]

BsInit ==
  /\ http = [h \in Handlers |-> IdleHandler]
  /\ responses = [h \in Handlers |-> <<>>]
  /\ batches = [h \in Handlers |-> <<>>]
  /\ work = [h \in Handlers |-> NothingToDo]
  /\ used = [l \in DOMAIN LimitOf |-> 0]
  /\ primary = [k \in CacheKeys |-> Nothing] /\ secondary = [k \in CacheKeys |-> Nothing]
  /\ panicked = FALSE

CallsOf(h) == http[h].body.calls
caches == <<primary, secondary>>

-----------------------------------------------------------------------------
(* HandleRPC. *)

Finish(h, out) == http' = [http EXCEPT ![h].pc = "done", ![h].out = out]

\* 401, no remote address, a body too large or unreadable, a batch that is
\* malformed: no call is looked at.
RefuseBody(h) ==
  /\ http[h].pc = "idle"
  /\ Finish(h, "error")
  /\ UNCHANGED <<responses, batches, work, used, caches, panicked>>

HandleRPC(h, body, exempt) ==
  LET n == Len(body.calls)
  IN /\ http[h].pc = "idle"
     /\ IF body.isBatch /\ (n > MaxBatchSize \/ n = 0)
          THEN Finish(h, "error") /\ UNCHANGED <<responses, batches>>
          ELSE /\ http' = [http EXCEPT ![h] =
                    [IdleHandler EXCEPT !.pc = "loop", !.body = body, !.i = 1, !.exempt = exempt]]
               /\ responses' = [responses EXCEPT ![h] = [i \in 1 .. n |-> Unset]]
               /\ batches' = [batches EXCEPT ![h] = [i \in 1 .. n |-> NoGroup]]
     /\ UNCHANGED <<work, used, caches, panicked>>

-----------------------------------------------------------------------------
(* handleBatchRPC: the loop over the calls. *)

\* rateLimitSender knows no exemption; what it cannot take for a transaction of
\* an allowed chain is refused before the limit.
SenderLimiter(c) == IF c.method = "send" THEN <<"sender">> ELSE <<>>

\* isLimited, of the limiters that a call meets, in order.
LimitersOf(c, exempt) ==
  LET base == IF exempt THEN <<>> ELSE <<"main">>
      own == IF c.method = "limited" /\ (OverrideIsGlobal \/ ~exempt) THEN <<"override">> ELSE <<>>
  IN base \o own \o SenderLimiter(c)

\* Every limiter is taken up to the first that is over, that one included.  The
\* limiter in the place of failing, if there is one, fails: it takes nothing and
\* counts as over.
TakenOf(c, exempt, failing) ==
  LET ls == LimitersOf(c, exempt)
      over == {n \in DOMAIN ls : n = failing \/ used[ls[n]] >= LimitOf[ls[n]]}
      last == IF over = {} THEN Len(ls) ELSE CHOOSE n \in over : \A m \in over : n <= m
  IN [ok |-> over = {}, from |-> {ls[n] : n \in (1 .. last) \ {failing}}]

Errs(id) == [id |-> id, is |-> "error", of |-> <<>>]

\* What the loop answers by itself.
AnsweredHere(c) ==
  CASE c.method \in {"unparsable", "invalid"} -> Errs(NoId)
    [] c.method \in {"unlisted", "badSend", "healthz"} -> Errs(c.id)
    [] c.method = "accounts" -> [id |-> c.id, is |-> "value", of |-> Key(c)]
    [] OTHER -> Unset

\* ids[id]: how many calls before this one were let through with its id.
GroupId(h) ==
  1 + Cardinality({j \in 1 .. http[h].i - 1 :
        batches[h][j] # NoGroup /\ CallsOf(h)[j].id = CallsOf(h)[http[h].i].id})

Loop(h) ==
  LET i == http[h].i
      c == CallsOf(h)[i]
      local == AnsweredHere(c) # Unset
  IN /\ http[h].pc = "loop" /\ i <= Len(CallsOf(h))
     /\ ~(c.method = "healthz" /\ Len(CallsOf(h)) = 1)
     /\ \E failing \in 0 .. Len(LimitersOf(c, http[h].exempt)) :
          LET taken == TakenOf(c, http[h].exempt, failing)
              through == ~local /\ taken.ok
          IN /\ used' = [l \in DOMAIN used |->
                  IF (~local \/ c.method = "badSend") /\ l \in taken.from
                    THEN used[l] + 1 ELSE used[l]]
             /\ responses' = [responses EXCEPT ![h][i] =
                  IF local THEN AnsweredHere(c) ELSE IF through THEN @ ELSE Errs(c.id)]
             /\ batches' = [batches EXCEPT ![h][i] =
                  IF through THEN <<GroupId(h), GroupOf(c)>> ELSE NoGroup]
     /\ http' = [http EXCEPT ![h].i = i + 1]
     /\ UNCHANGED <<work, caches, panicked>>

\* The health check, alone, returns at once.
Healthz(h) ==
  /\ http[h].pc = "loop" /\ http[h].i = 1 /\ Len(CallsOf(h)) = 1 /\ CallsOf(h)[1].method = "healthz"
  /\ responses' = [responses EXCEPT ![h] = <<[id |-> CallsOf(h)[1].id, is |-> "value", of |-> Key(CallsOf(h)[1])]>>]
  /\ Finish(h, "responses")
  /\ UNCHANGED <<batches, work, used, caches, panicked>>

\* The loop over the groups: a map, in any order.
Left(h) == {batches[h][i] : i \in DOMAIN batches[h]} \ {NoGroup}

NextGroup(h) ==
  /\ http[h].pc = "loop" /\ http[h].i > Len(CallsOf(h)) /\ work[h] = NothingToDo
  /\ \E g \in Left(h) :
       /\ work' = [work EXCEPT ![h].look = {i \in DOMAIN batches[h] : batches[h][i] = g}]
       /\ batches' = [batches EXCEPT ![h] =
            [i \in DOMAIN @ |-> IF @[i] = g THEN NoGroup ELSE @[i]]]
  /\ http' = [http EXCEPT ![h].pc = "group"]
  /\ UNCHANGED <<responses, used, caches, panicked>>

AnswerLocally(h) ==
  /\ http[h].pc = "loop" /\ http[h].i > Len(CallsOf(h)) /\ Left(h) = {}
  /\ Finish(h, "responses")
  /\ UNCHANGED <<responses, batches, work, used, caches, panicked>>

-----------------------------------------------------------------------------
(* handleBatchRPC: a group.  GetRPC, Forward, PutRPC. *)

Cacheable(c) == c.method \in {"static", "rawByHash"}

\* The value comes from Redis, which may have lost it or not have it yet on the
\* replica that is read, or from memory if Redis fails.
CacheGet(key) == {primary[key], secondary[key], Nothing}

\* The first of a slice of positions.
Foremost(S) == CHOOSE i \in S : \A j \in S : i <= j

\* The id of the response is the call's.
GetRPC(h) ==
  LET i == Foremost(work[h].look)
      c == CallsOf(h)[i]
  IN /\ http[h].pc = "group" /\ work[h].look # {}
     /\ \E v \in IF Cacheable(c) THEN CacheGet(Key(c)) ELSE {Nothing} :
          IF v = Nothing
            THEN work' = [work EXCEPT ![h].look = @ \ {i}, ![h].miss = @ \union {i}] /\ UNCHANGED responses
            ELSE /\ work' = [work EXCEPT ![h].look = @ \ {i}]
                 /\ responses' = [responses EXCEPT ![h][i] = [id |-> c.id, is |-> v.is, of |-> v.of]]
     /\ UNCHANGED <<http, batches, used, caches, panicked>>

Ready(h) == http[h].pc = "group" /\ work[h].look = {} /\ work[h].store = {}

\* The first misses.
Minibatch(h) ==
  {i \in work[h].miss : Cardinality({j \in work[h].miss : j <= i}) <= MaxUpstreamBatchSize}

\* The deadline is looked at before every minibatch, and nowhere else: once it
\* has passed, the whole request fails.
ShortCircuit(h) ==
  /\ Ready(h) /\ work[h].miss # {}
  /\ Finish(h, "error")
  /\ work' = [work EXCEPT ![h] = NothingToDo]
  /\ UNCHANGED <<responses, batches, used, caches, panicked>>

\* Mutant of sortBatchRPCResponse: the backend's order is kept.
unsortedBatchRPCResponse(elems, res) == res

\* By the position of the id among the requests.
sortBatchRPCResponse(elems, res) ==
  LET pos(r) == CHOOSE i \in DOMAIN elems : elems[i].id = r.id
      sorted == CHOOSE p \in Bijection(DOMAIN res, DOMAIN res) :
                  \A i, j \in DOMAIN res : i < j => pos(res[p[i]]) < pos(res[p[j]])
  IN [i \in DOMAIN res |-> res[sorted[i]]]

\* What a backend answers a call; a list of receipts may be empty.
Results(c) ==
  {[id |-> c.id, is |-> k, of |-> Key(c)] :
     k \in {"value", "null", "error"} \union (IF c.method = "rawByHash" THEN {"empty"} ELSE {})}

\* Set the responses of a minibatch; those with a result will be stored.
Respond(h, res) ==
  /\ responses' = [responses EXCEPT ![h] =
       [i \in DOMAIN @ |-> IF i \in DOMAIN res THEN res[i] ELSE @[i]]]
  /\ work' = [work EXCEPT
       ![h].miss = @ \ DOMAIN res,
       ![h].store = {i \in DOMAIN res : res[i].is \notin {"error", "null"}}]

\* BackendGroup.Forward succeeds: the backend answers in an order of its own.
Forward(h) ==
  LET mini == Minibatch(h)
      elems == [i \in mini |-> CallsOf(h)[i]]
      twice == \E i, j \in mini : i # j /\ elems[i].id = elems[j].id
  IN /\ Ready(h) /\ mini # {}
     /\ ~(http[h].body.isBatch /\ \E i \in mini : elems[i].method = "receipts")
     /\ panicked' = (panicked \/ twice)
     /\ \E order \in Bijection(mini, mini) :
        \E res \in {r \in [mini -> UNION {Results(elems[i]) : i \in mini}] :
                      \A i \in mini : r[i] \in Results(elems[order[i]])} :
          Respond(h, IF twice THEN res ELSE sortBatchRPCResponse(elems, res))
     /\ UNCHANGED <<http, batches, used, caches>>

\* Forward fails: no backend, or too large a response.
ForwardFails(h) ==
  /\ Ready(h) /\ work[h].miss # {}
  /\ Respond(h, [i \in Minibatch(h) |-> Errs(CallsOf(h)[i].id)])
  /\ UNCHANGED <<http, batches, used, caches, panicked>>

\* consensus_getReceipts in a batch, or with a target it does not know.
ReceiptsFail(h) ==
  /\ Ready(h)
  /\ \E i \in Minibatch(h) : CallsOf(h)[i].method = "receipts"
  /\ Finish(h, "error")
  /\ work' = [work EXCEPT ![h] = NothingToDo]
  /\ UNCHANGED <<responses, batches, used, caches, panicked>>

\* Mutant of MayStore: an empty list of receipts is stored as well.
MayStoreEmpty(c, res) == Cacheable(c)

\* The filters of the handlers.
MayStore(c, res) == Cacheable(c) /\ (c.method = "rawByHash" => res.is # "empty")

\* In Redis, or in memory when Redis fails, which it may do after storing.
CachePut(key, v) ==
  LET redis == primary' = [primary EXCEPT ![key] = v]
  IN \/ redis /\ UNCHANGED secondary
     \/ secondary' = [secondary EXCEPT ![key] = v] /\ (redis \/ UNCHANGED primary)

PutRPC(h) ==
  LET i == Foremost(work[h].store)
      c == CallsOf(h)[i]
  IN /\ http[h].pc = "group" /\ work[h].store # {}
     /\ IF MayStore(c, responses[h][i])
          THEN CachePut(Key(c), [is |-> responses[h][i].is, of |-> responses[h][i].of])
          ELSE UNCHANGED caches
     /\ work' = [work EXCEPT ![h].store = @ \ {i}]
     /\ UNCHANGED <<http, responses, batches, used, panicked>>

EndGroup(h) ==
  /\ Ready(h) /\ work[h].miss = {}
  /\ http' = [http EXCEPT ![h].pc = "loop"]
  /\ UNCHANGED <<responses, batches, work, used, caches, panicked>>

BsStep(h) ==
  \/ Loop(h) \/ Healthz(h) \/ NextGroup(h) \/ AnswerLocally(h)
  \/ GetRPC(h) \/ ShortCircuit(h) \/ Forward(h) \/ ForwardFails(h) \/ ReceiptsFail(h)
  \/ PutRPC(h) \/ EndGroup(h)

BsNext ==
  \E h \in Handlers :
    \/ RefuseBody(h) \/ BsStep(h)
    \/ \E body \in Bodies[h], exempt \in BOOLEAN : HandleRPC(h, body, exempt)

BsSpec == BsInit /\ [][BsNext]_bsVars

-----------------------------------------------------------------------------
(* Properties. *)

\* No batch brings the proxy down (sortBatchRPCResponse panics, in a goroutine
\* where nothing recovers, if a minibatch has an id twice), and every call of
\* an answered request has its response at its own position, with its own id;
\* a result is the result of that very call, whatever the groups, the
\* minibatches, the hits and the order of the backend.
ResponsesAligned ==
  /\ ~panicked
  /\ \A h \in Handlers : http[h].pc = "done" /\ http[h].out = "responses" =>
       \A i \in DOMAIN CallsOf(h) :
         LET r == responses[h][i]  c == CallsOf(h)[i]
         IN /\ r # Unset
            /\ r.id = c.id \/ (r.id = NoId /\ c.method \in {"unparsable", "invalid"})
            /\ r.is # "error" => r.of = Key(c)

\* A cache holds under a key only a result of that very request that may be
\* served again: no error, no null, no empty list of receipts.
CacheSound ==
  \A k \in CacheKeys, c \in {primary, secondary} : c[k] # Nothing =>
    /\ c[k].of = k
    /\ k[1] \in {"static", "rawByHash"} /\ c[k].is = "value"
=============================================================================
