--------------------------- MODULE ServingProofs ----------------------------
(***************************************************************************)
(* What the clients of proxyd get, for any group, any numbers, any bodies  *)
(* and any messages: a batch is answered in its order, what a cache holds  *)
(* may be served, the backend chosen by the consensus mode has the block   *)
(* asked for, and the messages of a WebSocket arrive in order.             *)
(***************************************************************************)
EXTENDS BatchServer, ConsensusServing, WSProxier, FiniteSetTheorems, NumberProofs, TLAPS

-----------------------------------------------------------------------------
(***************************************************************************)
(* BatchServer: the invariant follows the positions of a batch through the *)
(* groups, the chunks and the cache: a call that the loop has seen waits   *)
(* in a group, is at work, or is answered, and no group has an id twice.   *)
(***************************************************************************)

\* The first of a slice is in it.
LEMMA ForemostIn ==
  ASSUME NEW S, S \subseteq Nat, S # {}
  PROVE Foremost(S) \in S
<1>1. \E i \in S : \A j \in S : i <= j
  BY Least, Zenon
<1> QED
  BY <1>1, Zenon DEF Foremost

-----------------------------------------------------------------------------
(* sortBatchRPCResponse. *)

\* A permutation of naturals that keeps their order changes nothing.
LEMMA Monotone ==
  ASSUME NEW S, S \subseteq Nat, NEW f \in Bijection(S, S),
         \A i, j \in S : i < j => f[i] < f[j]
  PROVE \A i \in S : f[i] = i
<1> DEFINE T == {i \in S : f[i] # i}
<1> SUFFICES ASSUME T # {} PROVE FALSE
  BY Zenon
<1>1. PICK x \in T : \A y \in T : x <= y
  BY Least, Zenon
<1>2. /\ f \in [S -> S] /\ \A w \in S : \E v \in S : f[v] = w
  BY Zenon DEF Bijection, Injection, Surjection
<1>3. x \in S /\ f[x] # x /\ f[x] \in S /\ x \in Nat /\ f[x] \in Nat
  BY <1>1, <1>2, Zenon
<1>4. PICK y \in S : f[y] = x
  BY <1>2, <1>3, Zenon
<1>5. y \in Nat /\ y # x
  BY <1>3, <1>4, Zenon
<1>6. CASE y < x
  <2>1. y \notin T
    BY <1>1, <1>3, <1>5, <1>6
  <2> QED
    BY <1>4, <1>5, <2>1, Zenon
<1>7. CASE x < y
  <2>1. f[x] < x
    BY <1>3, <1>4, <1>7, Zenon
  <2>2. f[x] \notin T
    BY <1>1, <1>3, <2>1
  <2>3. f[f[x]] = f[x]
    BY <1>3, <2>2, Zenon
  <2>4. f[f[x]] < f[x]
    BY <1>3, <2>1, Zenon
  <2> QED
    BY <1>3, <2>3, <2>4
<1> QED
  BY <1>3, <1>5, <1>6, <1>7

\* The requests at positions S have ids of their own, and are answered in the
\* given order.
InOrder(S, elems, res, order) ==
  /\ S \subseteq Nat /\ DOMAIN elems = S /\ DOMAIN res = S
  /\ \A i, j \in S : i # j => elems[i].id # elems[j].id
  /\ order \in Bijection(S, S) /\ \A i \in S : res[i].id = elems[order[i]].id

\* Every answer is at the place of its request.
InPlace(S, t, res, order) == DOMAIN t = S /\ \A i \in S : \E k \in S : order[k] = i /\ t[i] = res[k]

\* Whatever the order of the backend, the response to a request is put in the
\* place of the request.
LEMMA Sorted ==
  ASSUME NEW S, NEW elems, NEW res, NEW order, InOrder(S, elems, res, order)
  PROVE InPlace(S, sortBatchRPCResponse(elems, res), res, order)
<1> USE DEF InOrder
<1> DEFINE t == sortBatchRPCResponse(elems, res)
<1> DEFINE pos(r) == CHOOSE i \in S : elems[i].id = r.id
<1> DEFINE Q(p) == \A i, j \in S : i < j => pos(res[p[i]]) < pos(res[p[j]])
<1> DEFINE sorted == CHOOSE p \in Bijection(S, S) : Q(p)
<1>1. sortBatchRPCResponse(elems, res) = [i \in S |-> res[sorted[i]]]
  BY DEF sortBatchRPCResponse
<1>2. /\ order \in [S -> S] /\ \A w \in S : \E v \in S : order[v] = w
      /\ \A v, w \in S : order[v] = order[w] => v = w
  BY Zenon DEF Bijection, Injection, Surjection, IsInjective
<1>3. \A k \in S : pos(res[k]) = order[k]
  <2> SUFFICES ASSUME NEW k \in S PROVE pos(res[k]) = order[k]
    BY Zenon
  <2>1. order[k] \in S /\ elems[order[k]].id = res[k].id
    BY <1>2, Zenon
  <2>2. \A i \in S : elems[i].id = res[k].id => i = order[k]
    BY <2>1, Zenon
  <2> QED
    BY <2>1, <2>2, Zenon
<1>12. ASSUME NEW p \in [S -> S] PROVE Q(p) <=> \A i, j \in S : i < j => order[p[i]] < order[p[j]]
  <2>1. \A i \in S : pos(res[p[i]]) = order[p[i]]
    BY <1>3, Zenon
  <2> HIDE DEF pos
  <2> QED
    BY <2>1, Zenon
<1> HIDE DEF Q
<1> DEFINE inv == [j \in S |-> CHOOSE k \in S : order[k] = j]
<1>4. \A j \in S : inv[j] \in S /\ order[inv[j]] = j
  BY <1>2, Zenon
<1>5. inv \in Bijection(S, S)
  <2>1. inv \in [S -> S]
    BY <1>4, Zenon
  <2>2. \A i, j \in S : inv[i] = inv[j] => i = j
    BY <1>4
  <2>3. \A i \in S : inv[order[i]] = i
    BY <1>2, <1>4
  <2>4. \A i \in S : \E j \in S : inv[j] = i
    BY <1>2, <2>3, Zenon
  <2> HIDE DEF inv
  <2> QED
    BY <2>1, <2>2, <2>4, Zenon DEF Bijection, Injection, Surjection, IsInjective
<1> HIDE DEF inv
<1>6. Q(inv)
  <2>1. inv \in [S -> S]
    BY <1>5, Zenon DEF Bijection, Injection
  <2> QED
    BY <1>4, <1>12, <2>1
<1>7. sorted \in Bijection(S, S) /\ Q(sorted)
  BY <1>5, <1>6, Zenon
<1> HIDE DEF sorted
<1>8. /\ sorted \in [S -> S] /\ \A w \in S : \E v \in S : sorted[v] = w
      /\ \A v, w \in S : sorted[v] = sorted[w] => v = w
  BY <1>7, Zenon DEF Bijection, Injection, Surjection, IsInjective
<1> DEFINE q == [i \in S |-> order[sorted[i]]]
<1>9. q \in Bijection(S, S)
  <2>1. q \in [S -> S]
    BY <1>2, <1>8, Zenon
  <2>2. \A i, j \in S : q[i] = q[j] => i = j
    BY <1>2, <1>8, Zenon
  <2>3. \A i \in S : \E j \in S : q[j] = i
    BY <1>2, <1>8
  <2> HIDE DEF q
  <2> QED
    BY <2>1, <2>2, <2>3, Zenon DEF Bijection, Injection, Surjection, IsInjective
<1>10. \A i, j \in S : i < j => q[i] < q[j]
  <2>1. \A i, j \in S : i < j => order[sorted[i]] < order[sorted[j]]
    BY <1>7, <1>8, <1>12, Zenon
  <2> QED
    BY <2>1, Zenon
<1>11. \A i \in S : q[i] = i
  <2> HIDE DEF q
  <2> QED
    BY <1>9, <1>10, Monotone, Zenon
<1>13. \A i \in S : sorted[i] \in S /\ order[sorted[i]] = i
  BY <1>8, <1>11, Zenon
<1>14. DOMAIN t = S /\ \A i \in S : t[i] = res[sorted[i]]
  BY <1>1
<1> HIDE DEF t
<1>15. InPlace(S, t, res, order)
  BY <1>13, <1>14, Zenon DEF InPlace
<1> QED
  BY <1>15, Zenon DEF t

-----------------------------------------------------------------------------
\* A response that is the one of its call.
AlignedCall(r, c) ==
  /\ r # Unset
  /\ r.id = c.id \/ (r.id = NoId /\ c.method \in {"unparsable", "invalid"})
  /\ r.is # "error" => r.of = Key(c)

\* The calls up to n that were let through with the id of call j.
SameId(cs, bs, j, n) == {k \in 1 .. n : bs[k] # NoGroup /\ cs[k].id = cs[j].id}

\* A result that may be stored.
Storable(r, c) == /\ AlignedCall(r, c) /\ r.is \in {"value", "empty"}
                  /\ r.is = "empty" => c.method = "rawByHash"

\* A request while it is served: its calls, how far the loop over them is, its
\* responses, groups and work.  No group has an id twice, and a call the loop
\* has seen waits in a group, is at work, or is answered.
ServedInv(h, cs, i, rs, bs, w) ==
  /\ cs \in {body.calls : body \in Bodies[h]} /\ i \in Nat \ {0}
  /\ DOMAIN rs = DOMAIN cs /\ DOMAIN bs = DOMAIN cs
  /\ w.look \subseteq DOMAIN cs /\ w.miss \subseteq DOMAIN cs /\ w.store \subseteq DOMAIN cs
  /\ \A j \in DOMAIN cs : j >= i => bs[j] = NoGroup
  /\ \A j \in DOMAIN cs : bs[j] # NoGroup /\ i <= Len(cs) =>
       bs[j][1] \in Nat /\ bs[j][1] <= Cardinality(SameId(cs, bs, j, i - 1))
  /\ \A j, k \in DOMAIN cs : j # k /\ bs[j] # NoGroup /\ bs[j] = bs[k] => cs[j].id # cs[k].id
  /\ \A j, k \in w.look \cup w.miss : j # k => cs[j].id # cs[k].id
  /\ \A j \in DOMAIN cs : j < i =>
       bs[j] # NoGroup \/ j \in w.look \cup w.miss \/ AlignedCall(rs[j], cs[j])
  /\ \A j \in w.store : Storable(rs[j], cs[j])

HandlerInv(h, x, rs, bs, w) ==
  /\ DOMAIN x = {"pc", "body", "i", "exempt", "out"}
  /\ w \in [look : SUBSET Nat, miss : SUBSET Nat, store : SUBSET Nat]
  /\ x.pc \in {"idle", "loop", "group", "done"}
  /\ x.pc # "group" => w = NothingToDo
  /\ x.pc = "group" => x.i > Len(x.body.calls)
  /\ x.pc \in {"loop", "group"} => ServedInv(h, x.body.calls, x.i, rs, bs, w)
  /\ x.pc = "done" /\ x.out = "responses" =>
       \A j \in DOMAIN x.body.calls : AlignedCall(rs[j], x.body.calls[j])

BsInv ==
  /\ DOMAIN http = Handlers /\ DOMAIN responses = Handlers
  /\ DOMAIN batches = Handlers /\ DOMAIN work = Handlers
  /\ DOMAIN primary = CacheKeys /\ DOMAIN secondary = CacheKeys
  /\ panicked = FALSE /\ CacheSound
  /\ \A h \in Handlers : HandlerInv(h, http[h], responses[h], batches[h], work[h])

\* A step of one handler leaves the others alone.
LEMMA OneHandler ==
  ASSUME BsInv, NEW h \in Handlers,
         DOMAIN http' = Handlers, DOMAIN responses' = Handlers, DOMAIN batches' = Handlers, DOMAIN work' = Handlers,
         \A g \in Handlers : g # h => /\ http'[g] = http[g] /\ responses'[g] = responses[g]
                                      /\ batches'[g] = batches[g] /\ work'[g] = work[g],
         HandlerInv(h, http'[h], responses'[h], batches'[h], work'[h]),
         panicked' = FALSE, CacheSound', DOMAIN primary' = CacheKeys, DOMAIN secondary' = CacheKeys
  PROVE BsInv'
<1>1. ASSUME NEW g \in Handlers PROVE HandlerInv(g, http'[g], responses'[g], batches'[g], work'[g])
  <2>1. CASE g = h
    BY <2>1, Zenon
  <2>2. CASE g # h
    BY <2>2, Zenon DEF BsInv
  <2> QED
    BY <2>1, <2>2, Zenon
<1> QED
  BY <1>1, Zenon DEF BsInv

\* A step that writes no cache leaves the caches sound.
LEMMA CachesSame ==
  ASSUME BsInv, UNCHANGED caches
  PROVE CacheSound' /\ DOMAIN primary' = CacheKeys /\ DOMAIN secondary' = CacheKeys
BY Zenon DEF BsInv, caches, CacheSound

\* The calls of a served request.
LEMMA CallsSeq ==
  ASSUME NEW h \in Handlers, NEW cs \in {body.calls : body \in Bodies[h]}
  PROVE DOMAIN cs = 1 .. Len(cs) /\ Len(cs) \in Nat
<1>1. PICK body \in Bodies[h] : cs = body.calls
  BY Zenon
<1>2. body.calls \in Seq({body.calls[i] : i \in DOMAIN body.calls})
  BY BodiesAssumption, Zenon
<1> QED
  BY <1>1, <1>2

-----------------------------------------------------------------------------
(* Steps that end a request, or a group. *)

\* The request fails.
LEMMA FailsInv ==
  ASSUME BsInv, NEW h \in Handlers, Finish(h, "error"), work' = work \/ work' = [work EXCEPT ![h] = NothingToDo],
         http[h].pc # "group" \/ work' = [work EXCEPT ![h] = NothingToDo],
         UNCHANGED <<responses, batches, caches, panicked>>
  PROVE BsInv'
<1>1. HandlerInv(h, http[h], responses[h], batches[h], work[h]) /\ DOMAIN http = Handlers /\ DOMAIN work = Handlers
  BY Zenon DEF BsInv
<1>2. http' = [http EXCEPT ![h] = [http[h] EXCEPT !.pc = "done", !.out = "error"]]
  BY Zenon DEF Finish
<1>3. /\ DOMAIN http'[h] = {"pc", "body", "i", "exempt", "out"} /\ http'[h].pc = "done" /\ http'[h].out = "error"
      /\ DOMAIN http' = Handlers /\ \A g \in Handlers : g # h => http'[g] = http[g]
  BY <1>1, <1>2, Zenon DEF HandlerInv
<1>4. work'[h] = NothingToDo /\ DOMAIN work' = Handlers /\ \A g \in Handlers : g # h => work'[g] = work[g]
  BY <1>1, Zenon DEF HandlerInv
<1>5. NothingToDo \in [look : SUBSET Nat, miss : SUBSET Nat, store : SUBSET Nat]
  BY Zenon DEF NothingToDo
<1>6. HandlerInv(h, http'[h], responses'[h], batches'[h], work'[h])
  BY <1>3, <1>4, <1>5, Zenon DEF HandlerInv
<1> QED
  BY <1>3, <1>4, <1>6, OneHandler, CachesSame, Zenon DEF BsInv

\* The calls are all answered.
LEMMA AnswerLocallyInv ==
  ASSUME BsInv, NEW h \in Handlers, AnswerLocally(h)
  PROVE BsInv'
<1>1. HandlerInv(h, http[h], responses[h], batches[h], work[h]) /\ DOMAIN http = Handlers
  BY Zenon DEF BsInv
<1>2. /\ http' = [http EXCEPT ![h] = [http[h] EXCEPT !.pc = "done", !.out = "responses"]]
      /\ http[h].pc = "loop" /\ http[h].i > Len(http[h].body.calls) /\ Left(h) = {}
      /\ UNCHANGED <<responses, batches, work, caches, panicked>>
  BY Zenon DEF Finish, AnswerLocally, CallsOf
<1>3. /\ DOMAIN http'[h] = {"pc", "body", "i", "exempt", "out"} /\ http'[h].pc = "done"
      /\ http'[h].body = http[h].body
      /\ DOMAIN http' = Handlers /\ \A g \in Handlers : g # h => http'[g] = http[g]
  BY <1>1, <1>2, Zenon DEF HandlerInv
<1>4. /\ ServedInv(h, http[h].body.calls, http[h].i, responses[h], batches[h], work[h])
      /\ work[h] = NothingToDo /\ work[h] \in [look : SUBSET Nat, miss : SUBSET Nat, store : SUBSET Nat]
  BY <1>1, <1>2, Zenon DEF HandlerInv
<1>5. ASSUME NEW j \in DOMAIN http[h].body.calls PROVE AlignedCall(responses[h][j], http[h].body.calls[j])
  <2>1. http[h].body.calls \in {body.calls : body \in Bodies[h]} /\ http[h].i \in Nat
        /\ DOMAIN batches[h] = DOMAIN http[h].body.calls
    BY <1>4, Zenon DEF ServedInv
  <2>2. j < http[h].i
    BY <1>2, <2>1, CallsSeq
  <2>3. batches[h][j] = NoGroup
    BY <1>2, <2>1, Zenon DEF Left
  <2> QED
    BY <1>4, <2>2, <2>3 DEF ServedInv, NothingToDo
<1>6. HandlerInv(h, http'[h], responses'[h], batches'[h], work'[h])
  BY <1>2, <1>3, <1>4, <1>5, Zenon DEF HandlerInv
<1> QED
  BY <1>2, <1>3, <1>6, OneHandler, CachesSame, Zenon DEF BsInv

\* HandleHealthz keeps the invariant.
LEMMA HealthzInv ==
  ASSUME BsInv, NEW h \in Handlers, Healthz(h)
  PROVE BsInv'
<1> DEFINE c == http[h].body.calls[1]
<1> DEFINE r == [id |-> c.id, is |-> "value", of |-> Key(c)]
<1>1. HandlerInv(h, http[h], responses[h], batches[h], work[h]) /\ DOMAIN http = Handlers /\ DOMAIN responses = Handlers
  BY Zenon DEF BsInv
<1>2. /\ http' = [http EXCEPT ![h] = [http[h] EXCEPT !.pc = "done", !.out = "responses"]]
      /\ http[h].pc = "loop" /\ Len(http[h].body.calls) = 1
      /\ responses' = [responses EXCEPT ![h] = <<r>>]
      /\ UNCHANGED <<batches, work, caches, panicked>>
  BY Zenon DEF Finish, Healthz, CallsOf
<1>3. /\ DOMAIN http'[h] = {"pc", "body", "i", "exempt", "out"} /\ http'[h].pc = "done"
      /\ http'[h].body = http[h].body
      /\ DOMAIN http' = Handlers /\ \A g \in Handlers : g # h => http'[g] = http[g]
  BY <1>1, <1>2, Zenon DEF HandlerInv
<1>4. /\ http[h].body.calls \in {body.calls : body \in Bodies[h]}
      /\ work[h] = NothingToDo /\ work[h] \in [look : SUBSET Nat, miss : SUBSET Nat, store : SUBSET Nat]
  BY <1>1, <1>2, Zenon DEF HandlerInv, ServedInv
<1>5. DOMAIN http[h].body.calls = {1}
  BY <1>2, <1>4, CallsSeq
<1>6. AlignedCall(r, c)
  BY Zenon DEF AlignedCall, Unset
<1> HIDE DEF r
<1>7. /\ responses'[h] = <<r>> /\ DOMAIN responses' = Handlers
      /\ \A g \in Handlers : g # h => responses'[g] = responses[g]
  BY <1>1, <1>2, Zenon
<1>8. \A j \in DOMAIN http[h].body.calls : AlignedCall(responses'[h][j], http[h].body.calls[j])
  BY <1>5, <1>6, <1>7
<1>9. HandlerInv(h, http'[h], responses'[h], batches'[h], work'[h])
  BY <1>2, <1>3, <1>4, <1>8, Zenon DEF HandlerInv
<1> QED
  BY <1>2, <1>3, <1>7, <1>9, OneHandler, CachesSame, Zenon DEF BsInv

\* The group is done.
LEMMA EndGroupInv ==
  ASSUME BsInv, NEW h \in Handlers, EndGroup(h)
  PROVE BsInv'
<1>1. HandlerInv(h, http[h], responses[h], batches[h], work[h]) /\ DOMAIN http = Handlers
  BY Zenon DEF BsInv
<1>2. /\ http' = [http EXCEPT ![h] = [http[h] EXCEPT !.pc = "loop"]]
      /\ http[h].pc = "group" /\ work[h].look = {} /\ work[h].store = {} /\ work[h].miss = {}
      /\ UNCHANGED <<responses, batches, work, caches, panicked>>
  BY Zenon DEF EndGroup, Ready
<1>3. /\ DOMAIN http'[h] = {"pc", "body", "i", "exempt", "out"} /\ http'[h].pc = "loop"
      /\ http'[h].body = http[h].body /\ http'[h].i = http[h].i
      /\ DOMAIN http' = Handlers /\ \A g \in Handlers : g # h => http'[g] = http[g]
  BY <1>1, <1>2, Zenon DEF HandlerInv
<1>4. /\ ServedInv(h, http[h].body.calls, http[h].i, responses[h], batches[h], work[h])
      /\ work[h] \in [look : SUBSET Nat, miss : SUBSET Nat, store : SUBSET Nat]
  BY <1>1, <1>2, Zenon DEF HandlerInv
<1>5. work[h] = NothingToDo
  BY <1>2, <1>4, Zenon DEF NothingToDo
<1>6. HandlerInv(h, http'[h], responses'[h], batches'[h], work'[h])
  BY <1>2, <1>3, <1>4, <1>5, Zenon DEF HandlerInv
<1> QED
  BY <1>2, <1>3, <1>6, OneHandler, CachesSame, Zenon DEF BsInv

-----------------------------------------------------------------------------
(* The calls are taken up, and the loop over them. *)

\* HandleRPC and HandleWS begin a request that the invariant holds of.
LEMMA HandleRPCInv ==
  ASSUME BsInv, NEW h \in Handlers, NEW body \in Bodies[h], NEW exempt \in BOOLEAN, HandleRPC(h, body, exempt)
  PROVE BsInv'
<1>1. HandlerInv(h, http[h], responses[h], batches[h], work[h]) /\ DOMAIN http = Handlers
      /\ DOMAIN responses = Handlers /\ DOMAIN batches = Handlers /\ DOMAIN work = Handlers
  BY Zenon DEF BsInv
<1>2. CASE Finish(h, "error") /\ UNCHANGED <<responses, batches>>
  BY <1>2, FailsInv, Zenon DEF HandleRPC
<1>3. CASE ~ (Finish(h, "error") /\ UNCHANGED <<responses, batches>>)
  <2> DEFINE n == Len(body.calls)
  <2> DEFINE x == [IdleHandler EXCEPT !.pc = "loop", !.body = body, !.i = 1, !.exempt = exempt]
  <2> DEFINE rs == [i \in 1 .. n |-> Unset]
  <2> DEFINE bs == [i \in 1 .. n |-> NoGroup]
  <2>1. /\ http' = [http EXCEPT ![h] = x] /\ responses' = [responses EXCEPT ![h] = rs]
        /\ batches' = [batches EXCEPT ![h] = bs] /\ UNCHANGED <<work, caches, panicked>>
        /\ http[h].pc = "idle"
    BY <1>3, Zenon DEF HandleRPC
  <2>2. DOMAIN x = {"pc", "body", "i", "exempt", "out"} /\ x.pc = "loop" /\ x.body = body /\ x.i = 1
    BY Zenon DEF IdleHandler
  <2>3. work[h] = NothingToDo
    BY <1>1, <2>1, Zenon DEF HandlerInv
  <2>4. body.calls \in {b.calls : b \in Bodies[h]}
    BY Zenon
  <2>5. DOMAIN body.calls = 1 .. n /\ n \in Nat
    BY <2>4, CallsSeq, Zenon
  <2>6. DOMAIN rs = 1 .. n /\ DOMAIN bs = 1 .. n /\ \A i \in 1 .. n : bs[i] = NoGroup
    BY Zenon
  <2> HIDE DEF x, rs, bs, n
  <2>7. ServedInv(h, body.calls, 1, rs, bs, NothingToDo)
    BY <2>4, <2>5, <2>6 DEF ServedInv, NothingToDo
  <2>8. HandlerInv(h, x, rs, bs, NothingToDo)
    BY <2>2, <2>7, Zenon DEF HandlerInv, NothingToDo
  <2>9. /\ http'[h] = x /\ responses'[h] = rs /\ batches'[h] = bs /\ work'[h] = NothingToDo
        /\ DOMAIN http' = Handlers /\ DOMAIN responses' = Handlers /\ DOMAIN batches' = Handlers /\ DOMAIN work' = Handlers
        /\ \A g \in Handlers : g # h => /\ http'[g] = http[g] /\ responses'[g] = responses[g]
                                        /\ batches'[g] = batches[g] /\ work'[g] = work[g]
    BY <1>1, <2>1, <2>3, Zenon
  <2> QED
    BY <2>1, <2>8, <2>9, OneHandler, CachesSame, Zenon DEF BsInv
<1> QED
  BY <1>2, <1>3, Zenon

\* The loop's next call joins a group in which no call has its id, or is
\* answered.
LEMMA LoopServed ==
  ASSUME NEW h \in Handlers, NEW cs, NEW i, NEW rs, NEW bs, NEW r, NEW g,
         ServedInv(h, cs, i, rs, bs, NothingToDo), i <= Len(cs),
         \/ g = NoGroup /\ AlignedCall(r, cs[i])
         \/ /\ g[1] = 1 + Cardinality(SameId(cs, bs, i, i - 1)) /\ g # NoGroup
  PROVE ServedInv(h, cs, i + 1, [rs EXCEPT ![i] = r], [bs EXCEPT ![i] = g], NothingToDo)
<1> DEFINE rt == [rs EXCEPT ![i] = r]
<1> DEFINE bt == [bs EXCEPT ![i] = g]
<1>1. /\ cs \in {body.calls : body \in Bodies[h]} /\ i \in Nat \ {0}
      /\ DOMAIN rs = DOMAIN cs /\ DOMAIN bs = DOMAIN cs
  BY Zenon DEF ServedInv
<1>2. DOMAIN cs = 1 .. Len(cs) /\ Len(cs) \in Nat /\ i \in DOMAIN cs
  BY <1>1, CallsSeq
<1>3. \A j \in DOMAIN cs : /\ j # i => rt[j] = rs[j] /\ bt[j] = bs[j]
                           /\ j = i => rt[j] = r /\ bt[j] = g
  BY <1>1, Zenon
<1>4. DOMAIN rt = DOMAIN cs /\ DOMAIN bt = DOMAIN cs
  BY <1>1, Zenon
<1> HIDE DEF rt, bt
<1>5. \A j \in DOMAIN cs : j >= i => bs[j] = NoGroup
  BY Zenon DEF ServedInv
<1>6. \A j \in DOMAIN cs : IsFiniteSet(SameId(cs, bt, j, i)) /\ IsFiniteSet(SameId(cs, bs, j, i - 1))
  <2>1. IsFiniteSet(1 .. i) /\ IsFiniteSet(1 .. i - 1)
    BY <1>1, FS_Interval
  <2>2. \A j \in DOMAIN cs : SameId(cs, bt, j, i) \subseteq 1 .. i /\ SameId(cs, bs, j, i - 1) \subseteq 1 .. i - 1
    BY Zenon DEF SameId
  <2> QED
    BY <2>1, <2>2, FS_Subset, Zenon
<1>7. \A j \in DOMAIN cs : SameId(cs, bs, j, i - 1) \subseteq SameId(cs, bt, j, i)
  BY <1>1, <1>2, <1>3 DEF SameId
<1>8. \A j \in DOMAIN cs : /\ Cardinality(SameId(cs, bs, j, i - 1)) \in Nat /\ Cardinality(SameId(cs, bt, j, i)) \in Nat
                           /\ Cardinality(SameId(cs, bs, j, i - 1)) <= Cardinality(SameId(cs, bt, j, i))
  BY <1>6, <1>7, FS_Subset, FS_CardinalityType, Zenon
<1>9. \A j \in DOMAIN cs : bs[j] # NoGroup => bs[j][1] \in Nat /\ bs[j][1] <= Cardinality(SameId(cs, bs, j, i - 1))
  BY Zenon DEF ServedInv
<1>10. ASSUME g # NoGroup, NEW j \in DOMAIN cs, bs[j] = g PROVE cs[j].id # cs[i].id
  <2>1. g[1] = 1 + Cardinality(SameId(cs, bs, i, i - 1))
    BY <1>10, Zenon
  <2>2. g[1] \in Nat /\ g[1] <= Cardinality(SameId(cs, bs, j, i - 1))
    BY <1>9, <1>10, Zenon
  <2>3. cs[j].id = cs[i].id => SameId(cs, bs, j, i - 1) = SameId(cs, bs, i, i - 1)
    BY Zenon DEF SameId
  <2> QED
    BY <1>2, <1>8, <2>1, <2>2, <2>3
<1>11. ASSUME NEW j \in DOMAIN cs, bt[j] # NoGroup
       PROVE bt[j][1] \in Nat /\ bt[j][1] <= Cardinality(SameId(cs, bt, j, i))
  <2>1. CASE j # i
    BY <1>3, <1>8, <1>9, <1>11, <2>1
  <2>2. CASE j = i
    <3>1. g # NoGroup /\ g[1] = 1 + Cardinality(SameId(cs, bs, i, i - 1))
      BY <1>3, <1>11, <2>2, Zenon
    <3>2. SameId(cs, bt, i, i) = SameId(cs, bs, i, i - 1) \cup {i} /\ i \notin SameId(cs, bs, i, i - 1)
      BY <1>1, <1>2, <1>3, <3>1 DEF SameId
    <3>3. Cardinality(SameId(cs, bt, i, i)) = Cardinality(SameId(cs, bs, i, i - 1)) + 1
      BY <1>2, <1>6, <3>2, FS_AddElement, Zenon
    <3> QED
      BY <1>2, <1>3, <1>8, <2>2, <3>1, <3>3
  <2> QED
    BY <2>1, <2>2, Zenon
<1>12. \A j, k \in DOMAIN cs : j # k /\ bt[j] # NoGroup /\ bt[j] = bt[k] => cs[j].id # cs[k].id
  <2>1. \A j, k \in DOMAIN cs : j # k /\ bs[j] # NoGroup /\ bs[j] = bs[k] => cs[j].id # cs[k].id
    BY Zenon DEF ServedInv
  <2> QED
    BY <1>2, <1>3, <1>10, <2>1
<1>13. \A j \in DOMAIN cs : j < i + 1 => bt[j] # NoGroup \/ AlignedCall(rt[j], cs[j])
  <2>1. \A j \in DOMAIN cs : j < i => bs[j] # NoGroup \/ AlignedCall(rs[j], cs[j])
    BY Zenon DEF ServedInv, NothingToDo
  <2>2. g # NoGroup \/ AlignedCall(r, cs[i])
    BY Zenon
  <2> QED
    BY <1>1, <1>2, <1>3, <2>1, <2>2
<1>14. \A j \in DOMAIN cs : j >= i + 1 => bt[j] = NoGroup
  BY <1>1, <1>2, <1>3, <1>5
<1>15. i + 1 \in Nat \ {0} /\ (i + 1) - 1 = i
  BY <1>1
<1>16. ServedInv(h, cs, i + 1, rt, bt, NothingToDo)
  BY <1>1, <1>4, <1>11, <1>12, <1>13, <1>14, <1>15, Zenon DEF ServedInv, NothingToDo
<1> QED
  BY <1>16, Zenon DEF rt, bt

\* The loop over the requests of a batch keeps the invariant.
LEMMA LoopInv ==
  ASSUME BsInv, NEW h \in Handlers, Loop(h)
  PROVE BsInv'
<1> DEFINE cs == http[h].body.calls
<1> DEFINE i == http[h].i
<1> DEFINE c == cs[i]
<1> DEFINE group == <<GroupId(h), GroupOf(c)>>
<1>1. HandlerInv(h, http[h], responses[h], batches[h], work[h]) /\ DOMAIN http = Handlers
      /\ DOMAIN responses = Handlers /\ DOMAIN batches = Handlers /\ DOMAIN work = Handlers
  BY Zenon DEF BsInv
<1>2. /\ http[h].pc = "loop" /\ i <= Len(cs) /\ http' = [http EXCEPT ![h] = [http[h] EXCEPT !.i = i + 1]]
      /\ UNCHANGED <<work, caches, panicked>>
  BY Zenon DEF Loop, CallsOf
<1>3. work[h] = NothingToDo /\ ServedInv(h, cs, i, responses[h], batches[h], NothingToDo)
      /\ DOMAIN http[h] = {"pc", "body", "i", "exempt", "out"}
  BY <1>1, <1>2, Zenon DEF HandlerInv
<1>4. PICK through \in BOOLEAN :
        /\ responses' = [responses EXCEPT ![h] = [responses[h] EXCEPT ![i] =
             IF AnsweredHere(c) # Unset THEN AnsweredHere(c) ELSE IF through THEN responses[h][i] ELSE Errs(c.id)]]
        /\ batches' = [batches EXCEPT ![h] = [batches[h] EXCEPT ![i] = IF through THEN group ELSE NoGroup]]
        /\ through => AnsweredHere(c) = Unset
  BY Zenon DEF Loop, CallsOf
<1>5. GroupId(h) = 1 + Cardinality(SameId(cs, batches[h], i, i - 1))
  BY Zenon DEF GroupId, SameId, CallsOf
<1>6. group # NoGroup /\ group[1] = GroupId(h)
  <2>1. i \in Nat \ {0}
    BY <1>3, Zenon DEF ServedInv
  <2>2. SameId(cs, batches[h], i, i - 1) \subseteq 1 .. i - 1 /\ IsFiniteSet(1 .. i - 1)
    BY <2>1, FS_Interval DEF SameId
  <2>3. Cardinality(SameId(cs, batches[h], i, i - 1)) \in Nat
    BY <2>2, FS_Subset, FS_CardinalityType, Zenon
  <2>4. GroupId(h) # 0
    BY <1>5, <2>3
  <2> QED
    BY <2>4, Zenon DEF NoGroup
<1>7. AnsweredHere(c) # Unset => AlignedCall(AnsweredHere(c), c)
  BY Zenon DEF AnsweredHere, AlignedCall, Errs, Unset, NoId
<1>8. AlignedCall(Errs(c.id), c)
  BY Zenon DEF AlignedCall, Errs, Unset
<1>9. PICK r, g : /\ responses' = [responses EXCEPT ![h] = [responses[h] EXCEPT ![i] = r]]
                  /\ batches' = [batches EXCEPT ![h] = [batches[h] EXCEPT ![i] = g]]
                  /\ \/ g = NoGroup /\ AlignedCall(r, c)
                     \/ g = group
  <2>1. CASE through
    BY <1>4, <2>1, Zenon
  <2>2. CASE ~ through /\ AnsweredHere(c) # Unset
    BY <1>4, <1>7, <2>2, Zenon
  <2>3. CASE ~ through /\ AnsweredHere(c) = Unset
    BY <1>4, <1>8, <2>3, Zenon
  <2> QED
    BY <2>1, <2>2, <2>3, Zenon
<1>10. ServedInv(h, cs, i + 1, [responses[h] EXCEPT ![i] = r], [batches[h] EXCEPT ![i] = g], NothingToDo)
  <2> HIDE DEF group
  <2> QED
    BY <1>2, <1>3, <1>5, <1>6, <1>9, LoopServed, Zenon
<1>11. /\ responses'[h] = [responses[h] EXCEPT ![i] = r] /\ batches'[h] = [batches[h] EXCEPT ![i] = g]
       /\ work'[h] = NothingToDo
       /\ DOMAIN http' = Handlers /\ DOMAIN responses' = Handlers /\ DOMAIN batches' = Handlers /\ DOMAIN work' = Handlers
       /\ \A f \in Handlers : f # h => /\ http'[f] = http[f] /\ responses'[f] = responses[f]
                                       /\ batches'[f] = batches[f] /\ work'[f] = work[f]
  BY <1>1, <1>2, <1>3, <1>9, Zenon
<1>12. /\ http'[h].pc = "loop" /\ http'[h].i = i + 1 /\ http'[h].body = http[h].body
       /\ DOMAIN http'[h] = {"pc", "body", "i", "exempt", "out"}
  BY <1>1, <1>2, <1>3
<1>13. HandlerInv(h, http'[h], responses'[h], batches'[h], work'[h])
  BY <1>10, <1>11, <1>12 DEF HandlerInv, NothingToDo
<1> QED
  BY <1>2, <1>11, <1>13, OneHandler, CachesSame, Zenon DEF BsInv

-----------------------------------------------------------------------------
(* A group is taken up, looked up, forwarded and stored. *)

\* The work of a request, field by field.
LEMMA LookSet ==
  ASSUME NEW w \in [look : SUBSET Nat, miss : SUBSET Nat, store : SUBSET Nat], NEW S, NEW T
  PROVE [w EXCEPT !.look = S] = [look |-> S, miss |-> w.miss, store |-> w.store]
<1>1. [w EXCEPT !.look = S] \in [look : {S}, miss : {w.miss}, store : {w.store}]
  BY Zenon
<1> QED
  BY <1>1

\* The same, of the calls looked up and missed.
LEMMA LookMissSet ==
  ASSUME NEW w \in [look : SUBSET Nat, miss : SUBSET Nat, store : SUBSET Nat], NEW S, NEW T
  PROVE [w EXCEPT !.look = S, !.miss = T] = [look |-> S, miss |-> T, store |-> w.store]
<1>1. [w EXCEPT !.look = S, !.miss = T] \in [look : {S}, miss : {T}, store : {w.store}]
  BY Zenon
<1> QED
  <2>1. \A l, m, s, u : u \in [look : {l}, miss : {m}, store : {s}] => u = [look |-> l, miss |-> m, store |-> s]
    OBVIOUS
  <2> QED
    BY <1>1, <2>1, Zenon

\* The same, of the calls to store.
LEMMA StoreSet ==
  ASSUME NEW w \in [look : SUBSET Nat, miss : SUBSET Nat, store : SUBSET Nat], NEW S, NEW T
  PROVE [w EXCEPT !.store = S] = [look |-> w.look, miss |-> w.miss, store |-> S]
<1>1. [w EXCEPT !.store = S] \in [look : {w.look}, miss : {w.miss}, store : {S}]
  BY Zenon
<1> QED
  BY <1>1

\* The same, of the calls missed and to store.
LEMMA MissStoreSet ==
  ASSUME NEW w \in [look : SUBSET Nat, miss : SUBSET Nat, store : SUBSET Nat], NEW S, NEW T
  PROVE [w EXCEPT !.miss = S, !.store = T] = [look |-> w.look, miss |-> S, store |-> T]
<1>1. [w EXCEPT !.miss = S, !.store = T] \in [look : {w.look}, miss : {S}, store : {T}]
  BY Zenon
<1> QED
  <2>1. \A l, m, s, u : u \in [look : {l}, miss : {m}, store : {s}] => u = [look |-> l, miss |-> m, store |-> s]
    OBVIOUS
  <2> QED
    BY <1>1, <2>1, Zenon

\* Going to the next group of equal requests keeps the invariant.
LEMMA NextGroupInv ==
  ASSUME BsInv, NEW h \in Handlers, NextGroup(h)
  PROVE BsInv'
<1> DEFINE cs == http[h].body.calls
<1> DEFINE i == http[h].i
<1> DEFINE bs == batches[h]
<1>1. HandlerInv(h, http[h], responses[h], batches[h], work[h]) /\ DOMAIN http = Handlers
      /\ DOMAIN responses = Handlers /\ DOMAIN batches = Handlers /\ DOMAIN work = Handlers
  BY Zenon DEF BsInv
<1>2. PICK g \in Left(h) :
        /\ work' = [work EXCEPT ![h].look = {j \in DOMAIN batches[h] : batches[h][j] = g}]
        /\ batches' = [batches EXCEPT ![h] = [j \in DOMAIN @ |-> IF @[j] = g THEN NoGroup ELSE @[j]]]
  BY Zenon DEF NextGroup
<1>3. /\ http[h].pc = "loop" /\ i > Len(cs) /\ work[h] = NothingToDo
      /\ http' = [http EXCEPT ![h] = [http[h] EXCEPT !.pc = "group"]]
      /\ UNCHANGED <<responses, caches, panicked>>
  BY Zenon DEF NextGroup, CallsOf
<1>4. /\ ServedInv(h, cs, i, responses[h], bs, NothingToDo)
      /\ DOMAIN http[h] = {"pc", "body", "i", "exempt", "out"}
  BY <1>1, <1>3, Zenon DEF HandlerInv
<1> DEFINE look == {j \in DOMAIN bs : bs[j] = g}
<1> DEFINE bt == [j \in DOMAIN bs |-> IF bs[j] = g THEN NoGroup ELSE bs[j]]
<1> DEFINE w == [look |-> look, miss |-> {}, store |-> {}]
<1>5. batches' = [batches EXCEPT ![h] = bt] /\ work' = [work EXCEPT ![h] = w]
  <2>1. work[h] \in [look : SUBSET Nat, miss : SUBSET Nat, store : SUBSET Nat] /\ work[h].miss = {} /\ work[h].store = {}
    BY <1>3 DEF NothingToDo
  <2>5. \A S : [work[h] EXCEPT !.look = S] = [look |-> S, miss |-> work[h].miss, store |-> work[h].store]
    BY <2>1, LookSet, Zenon
  <2>2. [work[h] EXCEPT !.look = look] = w
    BY <2>1, <2>5, Zenon
  <2>3. work' = [work EXCEPT ![h] = [work[h] EXCEPT !.look = look]]
    BY <1>2, Zenon
  <2>4. batches' = [batches EXCEPT ![h] = bt]
    BY <1>2, Zenon
  <2> QED
    BY <2>2, <2>3, <2>4, Zenon
<1>6. cs \in {body.calls : body \in Bodies[h]} /\ DOMAIN bs = DOMAIN cs /\ i \in Nat \ {0}
  BY <1>4, Zenon DEF ServedInv
<1>7. DOMAIN cs = 1 .. Len(cs) /\ Len(cs) \in Nat
  BY <1>6, CallsSeq, Zenon
<1>8. g # NoGroup
  BY Zenon DEF Left
<1>9. DOMAIN bt = DOMAIN cs /\ \A j \in DOMAIN cs : IF j \in look THEN bs[j] = g /\ bt[j] = NoGroup ELSE bt[j] = bs[j]
  BY <1>6, Zenon
<1>10. look \subseteq DOMAIN cs
  BY <1>6, Zenon
<1> HIDE DEF look, bt
<1>11. w \in [look : SUBSET Nat, miss : SUBSET Nat, store : SUBSET Nat]
  BY <1>7, <1>10
<1>12. w.look = look /\ w.miss = {} /\ w.store = {}
  BY Zenon
<1> HIDE DEF w
<1>13. ServedInv(h, cs, i, responses[h], bt, w)
  <2>1. DOMAIN responses[h] = DOMAIN cs /\ \A j \in DOMAIN cs : j >= i => bt[j] = NoGroup
    BY <1>4, <1>9, Zenon DEF ServedInv
  <2>2. ~ (i <= Len(cs))
    BY <1>3, <1>6, <1>7
  <2>3. \A j, k \in DOMAIN cs : j # k /\ bs[j] # NoGroup /\ bs[j] = bs[k] => cs[j].id # cs[k].id
    BY <1>4, Zenon DEF ServedInv
  <2>4. \A j, k \in DOMAIN cs : j # k /\ bt[j] # NoGroup /\ bt[j] = bt[k] => cs[j].id # cs[k].id
    BY <1>9, <2>3, Zenon
  <2>5. \A j, k \in look : j # k => cs[j].id # cs[k].id
    BY <1>8, <1>9, <1>10, <2>3
  <2>6. \A j \in DOMAIN cs : j < i => bt[j] # NoGroup \/ j \in look \/ AlignedCall(responses[h][j], cs[j])
    <3>1. \A j \in DOMAIN cs : j < i => bs[j] # NoGroup \/ AlignedCall(responses[h][j], cs[j])
      BY <1>4, Zenon DEF ServedInv, NothingToDo
    <3> QED
      BY <1>9, <3>1, Zenon
  <2> QED
    BY <1>6, <1>9, <1>10, <1>12, <2>1, <2>2, <2>4, <2>5, <2>6, Zenon DEF ServedInv
<1>14. /\ batches'[h] = bt /\ work'[h] = w
       /\ DOMAIN http' = Handlers /\ DOMAIN batches' = Handlers /\ DOMAIN work' = Handlers
       /\ \A f \in Handlers : f # h => /\ http'[f] = http[f] /\ batches'[f] = batches[f] /\ work'[f] = work[f]
  BY <1>1, <1>3, <1>5
<1>15. /\ http'[h].pc = "group" /\ http'[h].i = i /\ http'[h].body = http[h].body
       /\ DOMAIN http'[h] = {"pc", "body", "i", "exempt", "out"}
  BY <1>1, <1>3, <1>4, Zenon
<1>16. HandlerInv(h, http'[h], responses'[h], batches'[h], work'[h])
  BY <1>3, <1>11, <1>13, <1>14, <1>15, Zenon DEF HandlerInv
<1> QED
  BY <1>1, <1>3, <1>14, <1>16, OneHandler, CachesSame, Zenon DEF BsInv

\* A step at a group sets responses and work only.
LEMMA GroupStep ==
  ASSUME BsInv, NEW h \in Handlers, NEW rs, NEW w, http[h].pc = "group", UNCHANGED <<http, batches>>,
         panicked' = FALSE,
         DOMAIN responses' = Handlers, responses'[h] = rs,
         \A g \in Handlers : g # h => responses'[g] = responses[g],
         work' = [work EXCEPT ![h] = w],
         w \in [look : SUBSET Nat, miss : SUBSET Nat, store : SUBSET Nat],
         ServedInv(h, http[h].body.calls, http[h].i, rs, batches[h], w),
         CacheSound', DOMAIN primary' = CacheKeys, DOMAIN secondary' = CacheKeys
  PROVE BsInv'
<1>1. HandlerInv(h, http[h], responses[h], batches[h], work[h]) /\ DOMAIN http = Handlers
      /\ DOMAIN responses = Handlers /\ DOMAIN batches = Handlers /\ DOMAIN work = Handlers
  BY Zenon DEF BsInv
<1>2. HandlerInv(h, http[h], rs, batches[h], w)
  BY <1>1, Zenon DEF HandlerInv
<1>3. work'[h] = w /\ DOMAIN work' = Handlers /\ \A g \in Handlers : g # h => work'[g] = work[g]
  BY <1>1, Zenon
<1> QED
  BY <1>1, <1>2, <1>3, OneHandler, Zenon

\* Of a group that is being served.
LEMMA AtGroup ==
  ASSUME BsInv, NEW h \in Handlers, http[h].pc = "group"
  PROVE LET cs == http[h].body.calls
        IN /\ ServedInv(h, cs, http[h].i, responses[h], batches[h], work[h])
           /\ cs \in {body.calls : body \in Bodies[h]} /\ DOMAIN cs = 1 .. Len(cs) /\ Len(cs) \in Nat
           /\ DOMAIN responses[h] = DOMAIN cs
           /\ work[h] \in [look : SUBSET Nat, miss : SUBSET Nat, store : SUBSET Nat]
           /\ work[h].look \subseteq DOMAIN cs /\ work[h].miss \subseteq DOMAIN cs /\ work[h].store \subseteq DOMAIN cs
           /\ DOMAIN work = Handlers /\ DOMAIN responses = Handlers
<1>1. HandlerInv(h, http[h], responses[h], batches[h], work[h]) /\ DOMAIN work = Handlers /\ DOMAIN responses = Handlers
  BY Zenon DEF BsInv
<1>2. /\ ServedInv(h, http[h].body.calls, http[h].i, responses[h], batches[h], work[h])
      /\ work[h] \in [look : SUBSET Nat, miss : SUBSET Nat, store : SUBSET Nat]
  BY <1>1, Zenon DEF HandlerInv
<1> QED
  BY <1>1, <1>2, CallsSeq, Zenon DEF ServedInv

\* The key of a call is one of the keys.
LEMMA KeyOfCall ==
  ASSUME NEW h \in Handlers, NEW cs \in {body.calls : body \in Bodies[h]}, NEW i \in DOMAIN cs
  PROVE Key(cs[i]) \in CacheKeys
<1>1. PICK body \in Bodies[h] : cs = body.calls
  BY Zenon
<1>2. body \in UNION {Bodies[g] : g \in Handlers}
  BY Zenon
<1>3. cs[i] \in UNION {{b.calls[j] : j \in DOMAIN b.calls} : b \in UNION {Bodies[g] : g \in Handlers}}
  BY <1>1, <1>2
<1> QED
  BY <1>3, Zenon DEF CacheKeys

\* Looking a request up in the cache keeps the invariant.
LEMMA GetRPCInv ==
  ASSUME BsInv, NEW h \in Handlers, GetRPC(h)
  PROVE BsInv'
<1> DEFINE cs == http[h].body.calls
<1> DEFINE i == Foremost(work[h].look)
<1> DEFINE c == cs[i]
<1> DEFINE w0 == work[h]
<1>1. /\ http[h].pc = "group" /\ work[h].look # {}
      /\ UNCHANGED <<http, batches, caches, panicked>>
  BY Zenon DEF GetRPC
<1>2. /\ ServedInv(h, cs, http[h].i, responses[h], batches[h], w0)
      /\ cs \in {body.calls : body \in Bodies[h]} /\ DOMAIN cs = 1 .. Len(cs) /\ Len(cs) \in Nat
      /\ DOMAIN responses[h] = DOMAIN cs
      /\ w0 \in [look : SUBSET Nat, miss : SUBSET Nat, store : SUBSET Nat]
      /\ w0.look \subseteq DOMAIN cs /\ w0.miss \subseteq DOMAIN cs /\ w0.store \subseteq DOMAIN cs
  BY <1>1, AtGroup, Zenon
<1>3. i \in w0.look
  BY <1>1, <1>2, ForemostIn, Zenon
<1>4. PICK v \in IF Cacheable(c) THEN CacheGet(Key(c)) ELSE {Nothing} :
          IF v = Nothing
            THEN work' = [work EXCEPT ![h].look = @ \ {i}, ![h].miss = @ \union {i}] /\ UNCHANGED responses
            ELSE /\ work' = [work EXCEPT ![h].look = @ \ {i}]
                 /\ responses' = [responses EXCEPT ![h][i] = [id |-> c.id, is |-> v.is, of |-> v.of]]
  BY Zenon DEF GetRPC, CallsOf
<1>5. CASE v = Nothing
  <2> DEFINE w == [look |-> w0.look \ {i}, miss |-> w0.miss \cup {i}, store |-> w0.store]
  <2>1. work' = [work EXCEPT ![h] = w] /\ responses' = responses
    <3>5. work[h] \in [look : SUBSET Nat, miss : SUBSET Nat, store : SUBSET Nat]
      BY <1>2, Zenon
    <3>4. \A S, T : [work[h] EXCEPT !.look = S, !.miss = T] = [look |-> S, miss |-> T, store |-> work[h].store]
      BY <3>5, LookMissSet, Zenon
    <3>1. [work[h] EXCEPT !.look = @ \ {i}, !.miss = @ \union {i}] = w
      BY <3>4, Zenon
    <3>2. work' = [work EXCEPT ![h] = [work[h] EXCEPT !.look = @ \ {i}, !.miss = @ \union {i}]]
      BY <1>4, <1>5, Zenon
    <3>3. responses' = responses
      BY <1>4, <1>5, Zenon
    <3> QED
      BY <3>1, <3>2, <3>3, Zenon
  <2>2. w \in [look : SUBSET Nat, miss : SUBSET Nat, store : SUBSET Nat]
    BY <1>2, <1>3, Zenon
  <2>3. w.look \cup w.miss = w0.look \cup w0.miss /\ w.store = w0.store
        /\ w.look \subseteq DOMAIN cs /\ w.miss \subseteq DOMAIN cs
    BY <1>2, <1>3, Zenon
  <2> HIDE DEF w
  <2>4. ServedInv(h, cs, http[h].i, responses[h], batches[h], w)
    BY <1>2, <2>3, Zenon DEF ServedInv
  <2> QED
    BY <1>1, <2>1, <2>2, <2>4, GroupStep, CachesSame, Zenon DEF BsInv
<1>6. CASE v # Nothing
  <2> DEFINE w == [look |-> w0.look \ {i}, miss |-> w0.miss, store |-> w0.store]
  <2> DEFINE r == [id |-> c.id, is |-> v.is, of |-> v.of]
  <2> DEFINE rs == [responses[h] EXCEPT ![i] = r]
  <2>1. work' = [work EXCEPT ![h] = w] /\ responses' = [responses EXCEPT ![h] = rs]
    <3>1. [work[h] EXCEPT !.look = @ \ {i}] = w
      BY <1>2, LookSet, Zenon
    <3>2. work' = [work EXCEPT ![h] = [work[h] EXCEPT !.look = @ \ {i}]]
      BY <1>4, <1>6, Zenon
    <3>3. responses' = [responses EXCEPT ![h] = rs]
      BY <1>4, <1>6, Zenon
    <3> QED
      BY <3>1, <3>2, <3>3, Zenon
  <2>2. v = primary[Key(c)] \/ v = secondary[Key(c)]
    BY <1>4, <1>6, Zenon DEF CacheGet
  <2>3. v.of = Key(c) /\ v.is = "value"
    <3>1. Key(c) \in CacheKeys
      BY <1>2, <1>3, KeyOfCall, Zenon
    <3> QED
      BY <1>6, <2>2, <3>1 DEF BsInv, CacheSound
  <2>4. Storable(r, c) /\ AlignedCall(r, c)
    BY <2>3, Zenon DEF Storable, AlignedCall, Unset
  <2>5. w \in [look : SUBSET Nat, miss : SUBSET Nat, store : SUBSET Nat]
    BY <1>2, <1>3, Zenon
  <2>6. w.look = w0.look \ {i} /\ w.miss = w0.miss /\ w.store = w0.store
    BY Zenon
  <2> HIDE DEF w, r
  <2>7. DOMAIN rs = DOMAIN cs /\ \A j \in DOMAIN cs : IF j = i THEN rs[j] = r ELSE rs[j] = responses[h][j]
    BY <1>2, <1>3, Zenon
  <2> HIDE DEF rs
  <2>9. DOMAIN responses' = Handlers /\ responses'[h] = rs /\ \A g \in Handlers : g # h => responses'[g] = responses[g]
    BY <2>1, Zenon DEF BsInv
  <2>8. ServedInv(h, cs, http[h].i, rs, batches[h], w)
    <3>1. \A j \in DOMAIN cs : j < http[h].i =>
            batches[h][j] # NoGroup \/ j \in w.look \cup w.miss \/ AlignedCall(rs[j], cs[j])
      BY <1>2, <2>4, <2>6, <2>7, Zenon DEF ServedInv
    <3>2. \A j \in w.store : Storable(rs[j], cs[j])
      BY <1>2, <2>4, <2>6, <2>7, Zenon DEF ServedInv
    <3>3. \A j, k \in w.look \cup w.miss : j # k => cs[j].id # cs[k].id
      BY <1>2, <2>6, Zenon DEF ServedInv
    <3>4. w.look \subseteq DOMAIN cs /\ w.miss \subseteq DOMAIN cs /\ w.store \subseteq DOMAIN cs
      BY <1>2, <2>6, Zenon
    <3> QED
      BY <1>2, <2>7, <3>1, <3>2, <3>3, <3>4, Zenon DEF ServedInv
  <2> QED
    BY <1>1, <2>1, <2>5, <2>8, <2>9, GroupStep, CachesSame, Zenon DEF BsInv
<1> QED
  BY <1>5, <1>6, Zenon

\* A minibatch is of calls that were missed.
LEMMA MinibatchMissed ==
  ASSUME NEW h
  PROVE Minibatch(h) \subseteq work[h].miss
BY Zenon DEF Minibatch

\* Responses each for its own call leave every call waiting or answered.
LEMMA RespondInv ==
  ASSUME BsInv, NEW h \in Handlers, Ready(h), NEW res, DOMAIN res \subseteq work[h].miss,
         \A i \in DOMAIN res : AlignedCall(res[i], http[h].body.calls[i]),
         \A i \in DOMAIN res : res[i].is \notin {"error", "null"} => Storable(res[i], http[h].body.calls[i]),
         Respond(h, res), UNCHANGED <<http, batches, caches>>, panicked' = FALSE
  PROVE BsInv'
<1> DEFINE cs == http[h].body.calls
<1> DEFINE w0 == work[h]
<1> DEFINE store == {i \in DOMAIN res : res[i].is \notin {"error", "null"}}
<1> DEFINE w == [look |-> w0.look, miss |-> w0.miss \ DOMAIN res, store |-> store]
<1> DEFINE rs == [i \in DOMAIN responses[h] |-> IF i \in DOMAIN res THEN res[i] ELSE responses[h][i]]
<1>1. http[h].pc = "group" /\ w0.look = {} /\ w0.store = {}
  BY Zenon DEF Ready
<1>2. /\ ServedInv(h, cs, http[h].i, responses[h], batches[h], w0)
      /\ cs \in {body.calls : body \in Bodies[h]} /\ DOMAIN cs = 1 .. Len(cs) /\ Len(cs) \in Nat
      /\ DOMAIN responses[h] = DOMAIN cs
      /\ w0 \in [look : SUBSET Nat, miss : SUBSET Nat, store : SUBSET Nat]
      /\ w0.look \subseteq DOMAIN cs /\ w0.miss \subseteq DOMAIN cs
      /\ DOMAIN work = Handlers /\ DOMAIN responses = Handlers
  BY <1>1, AtGroup, Zenon
<1>3. work' = [work EXCEPT ![h] = w]
  <2>1. work' = [work EXCEPT ![h] = [work[h] EXCEPT !.miss = @ \ DOMAIN res, !.store = store]]
    BY Zenon DEF Respond
  <2>2. work[h] \in [look : SUBSET Nat, miss : SUBSET Nat, store : SUBSET Nat]
    BY <1>2, Zenon
  <2>3. \A S, T : [work[h] EXCEPT !.miss = S, !.store = T] = [look |-> work[h].look, miss |-> S, store |-> T]
    BY <2>2, MissStoreSet, Zenon
  <2> HIDE DEF store
  <2>4. [work[h] EXCEPT !.miss = @ \ DOMAIN res, !.store = store] = w
    BY <2>3, Zenon
  <2> QED
    BY <2>1, <2>4, Zenon
<1>4. responses' = [responses EXCEPT ![h] = rs]
  BY Zenon DEF Respond
<1>5. /\ DOMAIN rs = DOMAIN cs
      /\ \A i \in DOMAIN cs : IF i \in DOMAIN res THEN rs[i] = res[i] ELSE rs[i] = responses[h][i]
  BY <1>2, Zenon
<1>6. store \subseteq DOMAIN cs /\ store \subseteq Nat /\ \A i \in store : Storable(rs[i], cs[i])
  BY <1>2, Zenon
<1> HIDE DEF rs, store
<1>7. w \in [look : SUBSET Nat, miss : SUBSET Nat, store : SUBSET Nat]
  BY <1>2, <1>6, Zenon
<1>8. w.look = {} /\ w.miss = w0.miss \ DOMAIN res /\ w.store = store
  BY <1>1
<1> HIDE DEF w
<1>9. ServedInv(h, cs, http[h].i, rs, batches[h], w)
  <2>1. \A j \in DOMAIN cs : j < http[h].i =>
          batches[h][j] # NoGroup \/ j \in w.look \cup w.miss \/ AlignedCall(rs[j], cs[j])
    BY <1>1, <1>2, <1>5, <1>8, Zenon DEF ServedInv
  <2>2. \A j, k \in w.look \cup w.miss : j # k => cs[j].id # cs[k].id
    BY <1>2, <1>8, Zenon DEF ServedInv
  <2>3. w.look \subseteq DOMAIN cs /\ w.miss \subseteq DOMAIN cs /\ w.store \subseteq DOMAIN cs
    BY <1>2, <1>6, <1>8, Zenon
  <2>4. \A j \in w.store : Storable(rs[j], cs[j])
    BY <1>6, <1>8, Zenon
  <2> QED
    BY <1>2, <1>5, <2>1, <2>2, <2>3, <2>4, Zenon DEF ServedInv
<1>10. DOMAIN responses' = Handlers /\ responses'[h] = rs /\ \A g \in Handlers : g # h => responses'[g] = responses[g]
  BY <1>2, <1>4, Zenon
<1> QED
  BY <1>1, <1>3, <1>7, <1>9, <1>10, GroupStep, CachesSame, Zenon

\* A failed forward keeps the invariant: its error goes to every place of the
\* chunk.
LEMMA ForwardFailsInv ==
  ASSUME BsInv, NEW h \in Handlers, ForwardFails(h)
  PROVE BsInv'
<1> DEFINE res == [i \in Minibatch(h) |-> Errs(http[h].body.calls[i].id)]
<1>1. Ready(h) /\ Respond(h, res) /\ UNCHANGED <<http, batches, caches, panicked>>
  BY Zenon DEF ForwardFails, CallsOf
<1>2. DOMAIN res \subseteq work[h].miss
  BY MinibatchMissed, Zenon
<1>3. \A i \in DOMAIN res : AlignedCall(res[i], http[h].body.calls[i]) /\ res[i].is = "error"
  BY Zenon DEF AlignedCall, Errs, Unset
<1> HIDE DEF res
<1> QED
  BY <1>1, <1>2, <1>3, RespondInv, Zenon DEF BsInv

\* What a backend answers a call is for that call.
LEMMA ResultsOf ==
  ASSUME NEW c, NEW r \in Results(c)
  PROVE r.id = c.id /\ AlignedCall(r, c) /\ (r.is \notin {"error", "null"} => Storable(r, c))
<1>1. PICK k \in {"value", "null", "error"} \union (IF c.method = "rawByHash" THEN {"empty"} ELSE {}) :
        r = [id |-> c.id, is |-> k, of |-> Key(c)]
  BY Zenon DEF Results
<1>2. k \in {"value", "null", "error", "empty"} /\ (k = "empty" => c.method = "rawByHash")
  BY Zenon
<1>3. r.id = c.id /\ r.is = k /\ r.of = Key(c)
  BY <1>1, Zenon
<1>4. r # Unset
  BY <1>2, <1>3 DEF Unset
<1> QED
  BY <1>2, <1>3, <1>4, Zenon DEF AlignedCall, Storable

\* No minibatch has an id twice, and the sort puts every answer of the backend
\* at its call's place.
LEMMA ForwardInv ==
  ASSUME BsInv, NEW h \in Handlers, Forward(h)
  PROVE BsInv'
<1> DEFINE cs == http[h].body.calls
<1> DEFINE mini == Minibatch(h)
<1> DEFINE elems == [i \in mini |-> cs[i]]
<1> DEFINE twice == \E i, j \in mini : i # j /\ elems[i].id = elems[j].id
<1>1. Ready(h) /\ UNCHANGED <<http, batches, caches>> /\ panicked' = (panicked \/ twice)
  BY Zenon DEF Forward, CallsOf
<1>2. PICK order \in Bijection(mini, mini) :
        \E res \in {r \in [mini -> UNION {Results(elems[i]) : i \in mini}] :
                      \A i \in mini : r[i] \in Results(elems[order[i]])} :
          Respond(h, IF twice THEN res ELSE sortBatchRPCResponse(elems, res))
  BY Zenon DEF Forward, CallsOf
<1>3. PICK res \in {r \in [mini -> UNION {Results(elems[i]) : i \in mini}] :
                      \A i \in mini : r[i] \in Results(elems[order[i]])} :
          Respond(h, IF twice THEN res ELSE sortBatchRPCResponse(elems, res))
  BY <1>2, Zenon
<1>4. /\ ServedInv(h, cs, http[h].i, responses[h], batches[h], work[h])
      /\ work[h].miss \subseteq Nat
  BY <1>1, AtGroup, Zenon DEF Ready
<1>5. mini \subseteq work[h].miss
  BY MinibatchMissed
<1>6. \A i, j \in mini : i # j => elems[i].id # elems[j].id
  BY <1>4, <1>5, Zenon DEF ServedInv
<1>7. ~ twice
  BY <1>6
<1>8. panicked' = FALSE
  BY <1>1, <1>7, Zenon DEF BsInv
<1> DEFINE t == sortBatchRPCResponse(elems, res)
<1>9. Respond(h, t)
  BY <1>3, <1>7
<1>10. order \in [mini -> mini] /\ DOMAIN res = mini /\ \A i \in mini : res[i] \in Results(cs[order[i]])
  <2>1. order \in [mini -> mini]
    BY DEF Bijection, Injection, IsInjective
  <2> QED
    BY <2>1, Zenon
<1>11. \A i \in mini : res[i].id = elems[order[i]].id
  BY <1>10, ResultsOf, Zenon
<1>12. DOMAIN elems = mini /\ mini \subseteq Nat
  BY <1>4, <1>5, Zenon
<1>16. order \in Bijection(mini, mini) /\ DOMAIN res = mini
  BY <1>10, Zenon
<1> HIDE DEF elems, mini
<1>17. InOrder(mini, elems, res, order)
  BY <1>6, <1>11, <1>12, <1>16 DEF InOrder
<1>18. InPlace(mini, t, res, order)
  BY <1>17, Sorted, Zenon
<1> HIDE DEF t
<1>13. DOMAIN t = mini /\ \A i \in mini : \E k \in mini : order[k] = i /\ t[i] = res[k]
  BY <1>18 DEF InPlace
<1>14. \A i \in mini : t[i] \in Results(cs[i])
  BY <1>10, <1>13, Zenon
<1>15. \A i \in DOMAIN t : AlignedCall(t[i], cs[i]) /\ (t[i].is \notin {"error", "null"} => Storable(t[i], cs[i]))
  BY <1>13, <1>14, ResultsOf, Zenon
<1> QED
  BY <1>1, <1>5, <1>8, <1>9, <1>13, <1>15, RespondInv, Zenon

\* Only a result that may be served again gets into a cache, under its key.
LEMMA PutRPCInv ==
  ASSUME BsInv, NEW h \in Handlers, PutRPC(h)
  PROVE BsInv'
<1> DEFINE cs == http[h].body.calls
<1> DEFINE i == Foremost(work[h].store)
<1> DEFINE c == cs[i]
<1> DEFINE r == responses[h][i]
<1> DEFINE w0 == work[h]
<1> DEFINE w == [look |-> w0.look, miss |-> w0.miss, store |-> w0.store \ {i}]
<1>1. /\ http[h].pc = "group" /\ work[h].store # {} /\ UNCHANGED <<http, responses, batches, panicked>>
      /\ work' = [work EXCEPT ![h] = [work[h] EXCEPT !.store = @ \ {i}]]
  BY Zenon DEF PutRPC
<1>2. /\ ServedInv(h, cs, http[h].i, responses[h], batches[h], w0)
      /\ cs \in {body.calls : body \in Bodies[h]}
      /\ w0 \in [look : SUBSET Nat, miss : SUBSET Nat, store : SUBSET Nat]
      /\ w0.look \subseteq DOMAIN cs /\ w0.miss \subseteq DOMAIN cs /\ w0.store \subseteq DOMAIN cs
      /\ DOMAIN work = Handlers /\ DOMAIN responses = Handlers
  BY <1>1, AtGroup, Zenon
<1>3. i \in w0.store
  BY <1>1, <1>2, ForemostIn
<1>4. work' = [work EXCEPT ![h] = w]
  <2>1. \A S : [work[h] EXCEPT !.store = S] = [look |-> work[h].look, miss |-> work[h].miss, store |-> S]
    BY <1>2, StoreSet, Zenon
  <2> QED
    BY <1>1, <2>1, Zenon
<1>5. w \in [look : SUBSET Nat, miss : SUBSET Nat, store : SUBSET Nat]
  BY <1>2, Zenon
<1>6. w.look = w0.look /\ w.miss = w0.miss /\ w.store = w0.store \ {i}
  BY Zenon
<1>7. Storable(r, c) /\ Key(c) \in CacheKeys
  BY <1>2, <1>3, KeyOfCall, Zenon DEF ServedInv
<1> HIDE DEF w
<1>8. ServedInv(h, cs, http[h].i, responses[h], batches[h], w)
  BY <1>2, <1>6, Zenon DEF ServedInv
<1>9. CacheSound' /\ DOMAIN primary' = CacheKeys /\ DOMAIN secondary' = CacheKeys
  <2>1. CASE UNCHANGED caches
    BY <2>1, CachesSame
  <2>2. CASE ~ UNCHANGED caches
    <3> DEFINE v == [is |-> r.is, of |-> r.of]
    <3>1. MayStore(c, r) /\ CachePut(Key(c), v)
      BY <2>2, Zenon DEF PutRPC, CallsOf
    <3>2. c.method \in {"static", "rawByHash"} /\ r.is = "value" /\ r.of = Key(c)
      BY <1>7, <3>1, Zenon DEF MayStore, Cacheable, Storable, AlignedCall
    <3>3. v.is = "value" /\ v.of = Key(c) /\ Key(c)[1] \in {"static", "rawByHash"}
      BY <3>2, Zenon DEF Key
    <3>4. /\ DOMAIN primary = CacheKeys /\ DOMAIN secondary = CacheKeys /\ CacheSound
      BY Zenon DEF BsInv
    <3> HIDE DEF v
    <3>5. /\ primary' = primary \/ primary' = [primary EXCEPT ![Key(c)] = v]
          /\ secondary' = secondary \/ secondary' = [secondary EXCEPT ![Key(c)] = v]
      BY <3>1, Zenon DEF CachePut
    <3> DEFINE Sound(m) == /\ DOMAIN m = CacheKeys
                           /\ \A k \in CacheKeys : m[k] # Nothing =>
                                m[k].of = k /\ k[1] \in {"static", "rawByHash"} /\ m[k].is = "value"
    <3>6. \A m, n : Sound(m) /\ (n = m \/ n = [m EXCEPT ![Key(c)] = v]) => Sound(n)
      BY <3>3, Zenon
    <3>7. Sound(primary) /\ Sound(secondary)
      BY <3>4, Zenon DEF CacheSound
    <3> HIDE DEF Sound
    <3>8. Sound(primary')
      BY <3>5, <3>6, <3>7, Zenon
    <3>9. Sound(secondary')
      BY <3>5, <3>6, <3>7, Zenon
    <3> QED
      BY <3>8, <3>9 DEF CacheSound, Sound
  <2> QED
    BY <2>1, <2>2, Zenon
<1> QED
  BY <1>1, <1>2, <1>4, <1>5, <1>8, <1>9, GroupStep, Zenon DEF BsInv

-----------------------------------------------------------------------------
(* The invariant, and what it shows. *)

\* The invariant holds of a server without requests.
LEMMA BsInitially ==
  ASSUME BsInit
  PROVE BsInv
<1>1. \A h \in Handlers : HandlerInv(h, IdleHandler, <<>>, <<>>, NothingToDo)
  BY Zenon DEF HandlerInv, IdleHandler, NothingToDo
<1>2. CacheSound
  BY Zenon DEF BsInit, CacheSound, Nothing
<1> QED
  BY <1>1, <1>2, Zenon DEF BsInit, BsInv

\* Every step keeps the invariant.
LEMMA BsStepInv ==
  ASSUME BsInv, [BsNext]_bsVars
  PROVE BsInv'
<1>1. CASE UNCHANGED bsVars
  BY <1>1, Zenon DEF BsInv, bsVars, CacheSound
<1>2. ASSUME NEW h \in Handlers, RefuseBody(h) PROVE BsInv'
  BY <1>2, FailsInv, Zenon DEF RefuseBody
<1>3. ASSUME NEW h \in Handlers, BsStep(h) PROVE BsInv'
  <2>1. CASE ShortCircuit(h)
    BY <2>1, FailsInv, Zenon DEF ShortCircuit
  <2>2. CASE ReceiptsFail(h)
    BY <2>2, FailsInv, Zenon DEF ReceiptsFail
  <2> QED
    BY <1>3, <2>1, <2>2, LoopInv, HealthzInv, NextGroupInv, AnswerLocallyInv, GetRPCInv, ForwardInv,
       ForwardFailsInv, PutRPCInv, EndGroupInv DEF BsStep
<1>4. ASSUME NEW h \in Handlers, NEW body \in Bodies[h], NEW exempt \in BOOLEAN, HandleRPC(h, body, exempt) PROVE BsInv'
  BY <1>4, HandleRPCInv, Zenon
<1> QED
  BY <1>1, <1>2, <1>3, <1>4, Zenon DEF BsNext

\* Whatever the bodies, the limits and the sizes of the batches: no batch
\* brings the proxy down, and an answered request has at every position the
\* response of that call (handleBatchRPC, sortBatchRPCResponse).
THEOREM ResponsesAlignedHolds == BsSpec => []ResponsesAligned
<1>1. BsInv => ResponsesAligned
  BY Zenon DEF BsInv, HandlerInv, ResponsesAligned, AlignedCall, CallsOf
<1> QED
  BY BsInitially, BsStepInv, <1>1, PTL DEF BsSpec

\* Whatever is asked, and whichever cache fails: what is stored under a key is
\* a result of that very request that may be served again (cache.go, PutRPC).
THEOREM CacheSoundHolds == BsSpec => []CacheSound
<1>1. BsInv => CacheSound
  BY Zenon DEF BsInv
<1> QED
  BY BsInitially, BsStepInv, <1>1, PTL DEF BsSpec

-----------------------------------------------------------------------------
(***************************************************************************)
(* ConsensusServing: the four fields a round publishes are read one by one *)
(* by a request.  The invariant says, phase by phase, which of them        *)
(* already fit the members of the round, and what a request has read when  *)
(* nothing was published meanwhile.                                        *)
(***************************************************************************)

\* The numbers published are at most what the members of the group had reported.
Fits(numbers, group, members) ==
  \A be \in group : /\ numbers.latest <= members[be].latest
                    /\ numbers.safe <= members[be].safe
                    /\ numbers.finalized <= members[be].finalized

ServingTypes ==
  /\ tracker \in ViewTags /\ consensusGroup \in SUBSET GroupBackends
  /\ round \in [phase : {"resolving", "setLatest", "setSafe", "setFinalized", "setGroup"},
                group : SUBSET GroupBackends, latest : Nat, members : [GroupBackends -> ViewTags]]
  /\ installed \in [GroupBackends -> ViewTags] /\ quiet \in BOOLEAN
  /\ inflight \in [pc : {"idle", "readLatest", "readSafe", "readFinalized", "forward", "sent"},
                  asked : BlockTags \union {"latest"}, block : Nat, backends : SUBSET GroupBackends,
                  latest : Nat, safe : Nat, target : GroupBackends \union {NoBackend}]

\* What of a round is already published fits its members.
RoundInv ==
  LET written(phases) == round.phase \in phases
  IN \A be \in round.group :
       /\ written({"setLatest", "setSafe", "setFinalized", "setGroup"}) =>
            round.latest <= round.members[be].latest
       /\ written({"setSafe", "setFinalized", "setGroup"}) => tracker.latest <= round.members[be].latest
       /\ written({"setFinalized", "setGroup"}) => tracker.safe <= round.members[be].safe
       /\ written({"setGroup"}) => tracker.finalized <= round.members[be].finalized

\* What a request has read since it was accepted, as long as it is quiet.
ReadInv ==
  LET r == inflight IN
  /\ r.backends \subseteq consensusGroup
  /\ r.pc # "readLatest" => r.latest = tracker.latest
  /\ r.pc \in {"readFinalized", "forward", "sent"} => r.safe = tracker.safe
  /\ r.pc \in {"forward", "sent"} =>
       CASE r.asked = "latest"    -> r.block = tracker.latest
         [] r.asked = "safe"      -> r.block = tracker.safe
         [] r.asked = "finalized" -> r.block = tracker.finalized
         [] OTHER                 -> r.asked = "number" \/ r.block = 0
  /\ r.pc \notin {"forward", "sent"} /\ r.asked # "number" => r.block = 0
  /\ r.pc = "sent" => r.target \in r.backends /\ ~SkipsBackends(r)

ServingInv ==
  /\ ServingTypes /\ RoundInv
  /\ ~Publishing => Fits(tracker, consensusGroup, installed)
  /\ quiet /\ inflight.pc # "idle" => Fits(tracker, consensusGroup, installed) /\ ReadInv

Phases == {"resolving", "setLatest", "setSafe", "setFinalized", "setGroup"}
RequestSteps == {"idle", "readLatest", "readSafe", "readFinalized", "forward", "sent"}

\* The numbers of the view are naturals.
LEMMA ViewNumbers ==
  NumbersOf \subseteq Nat /\ Below(NumbersOf) \subseteq Nat /\ ZeroTags \in ViewTags
<1>1. \A t \in TagSet : t.latest \in Nat /\ t.safe \in Nat /\ t.finalized \in Nat
  BY NumbersAreNaturals, Zenon DEF ViewTags
<1>2. NumbersOf \subseteq Nat
  BY <1>1 DEF NumbersOf
<1>3. \A n \in NumbersOf : 0 .. n \subseteq Nat
  BY <1>2
<1> QED
  BY <1>2, <1>3, Zenon DEF Below, ZeroTags, ViewTags

\* The invariant holds before the first round and the first request.
LEMMA ServingInitially == ServingInit => ServingInv
<1> SUFFICES ASSUME ServingInit PROVE ServingInv
  BY Zenon
<1>1. ZeroTags \in ViewTags
  BY ViewNumbers, Zenon
<1>2. ServingTypes
  BY <1>1, Zenon DEF ServingTypes, ServingInit, ViewInit, NoRound, NoRequest
<1>3. consensusGroup = {} /\ round.group = {} /\ ~quiet
  BY Zenon DEF ServingInit, ViewInit, NoRound
<1> QED
  BY <1>2, <1>3, Zenon DEF ServingInv, RoundInv, Fits

\* A step of the poller.  The group is installed with the numbers of its round,
\* and a request for which nothing changed meanwhile keeps what it has read.
LEMMA PublisherKeeps ==
  ASSUME ServingInv, PublisherStep
  PROVE ServingInv'
<1>1. /\ UNCHANGED inflight
      /\ installed' = IF round.phase = "setGroup" THEN round.members ELSE installed
      /\ quiet' = (quiet /\ tracker' = tracker /\ consensusGroup' = consensusGroup)
  BY Zenon DEF PublisherStep
<1>2. quiet' \in BOOLEAN /\ (quiet' => quiet /\ tracker' = tracker /\ consensusGroup' = consensusGroup)
  BY <1>1, Zenon DEF ServingInv, ServingTypes
<1>3. /\ ServingTypes /\ tracker \in ViewTags /\ consensusGroup \in SUBSET GroupBackends
      /\ round.group \in SUBSET GroupBackends /\ round.latest \in Nat
      /\ round.members \in [GroupBackends -> ViewTags] /\ installed \in [GroupBackends -> ViewTags]
  BY Zenon DEF ServingInv, ServingTypes
<1>4. installed' \in [GroupBackends -> ViewTags]
  BY <1>1, <1>3, Zenon
<1> DEFINE Goal == /\ tracker' \in ViewTags /\ consensusGroup' \in SUBSET GroupBackends
                   /\ round' \in [phase : Phases, group : SUBSET GroupBackends, latest : Nat,
                                  members : [GroupBackends -> ViewTags]]
                   /\ RoundInv'
                   /\ ~Publishing' => Fits(tracker', consensusGroup', installed')
                   /\ tracker' = tracker /\ consensusGroup' = consensusGroup
                        /\ Fits(tracker, consensusGroup, installed) =>
                            Fits(tracker', consensusGroup', installed')
<1>5. ASSUME NEW group \in SUBSET GroupBackends, NEW members \in [GroupBackends -> TagSet],
             NEW latest \in Below(NumbersOf), Resolve(group, members, latest)
      PROVE Goal
  <2>1. latest \in Nat /\ members \in [GroupBackends -> ViewTags]
    BY ViewNumbers, NumbersAreNaturals, Zenon
  <2>2. round' = [phase |-> "setLatest", group |-> group, latest |-> latest, members |-> members]
    BY <1>5, Zenon DEF Resolve
  <2>3. round.phase = "resolving" /\ UNCHANGED <<tracker, consensusGroup, installed>>
    BY <1>1, <1>5, Zenon DEF Resolve
  <2>4. RoundInv'
    BY <1>5, <2>2 DEF RoundInv, Resolve
  <2>5. Fits(tracker, consensusGroup, installed)
    BY <2>3, Zenon DEF ServingInv, Publishing
  <2> QED
    BY <1>3, <2>1, <2>2, <2>3, <2>4, <2>5, Zenon DEF Phases
<1>6. ASSUME PublishLatest PROVE Goal
  <2>1. round.phase = "setLatest" /\ UNCHANGED <<consensusGroup, installed>>
    BY <1>1, <1>6, Zenon DEF PublishLatest
  <2>2. tracker' = [tracker EXCEPT !.latest = round.latest] /\ tracker' \in ViewTags
    BY <1>3, <1>6, Zenon DEF PublishLatest, ViewTags
  <2>3. round' = [round EXCEPT !.phase = "setSafe"]
    BY <1>6, Zenon DEF PublishLatest
  <2>4. /\ round' \in [phase : Phases, group : SUBSET GroupBackends, latest : Nat, members : [GroupBackends -> ViewTags]]
        /\ round'.phase = "setSafe" /\ round'.group = round.group /\ round'.members = round.members
        /\ round'.latest = round.latest
    BY <1>3, <2>3, Zenon DEF ServingTypes, Phases
  <2>5. tracker'.latest = round.latest
    BY <1>3, <2>2, Zenon DEF ViewTags
  <2>6. RoundInv'
    BY <2>1, <2>4, <2>5, Zenon DEF ServingInv, RoundInv
  <2>7. Publishing'
    BY <2>4, Zenon DEF Publishing
  <2> QED
    BY <1>3, <2>1, <2>2, <2>4, <2>6, <2>7, Zenon
<1>7. ASSUME NEW n \in NumbersOf, PublishSafe(n)
      PROVE Goal
  <2>1. round.phase = "setSafe" /\ UNCHANGED <<consensusGroup, installed>> /\ n \in Nat
    BY <1>1, <1>7, ViewNumbers, Zenon DEF PublishSafe
  <2>2. tracker' = [tracker EXCEPT !.safe = n] /\ tracker' \in ViewTags
    BY <1>3, <1>7, <2>1, Zenon DEF PublishSafe, ViewTags
  <2>3. round' = [round EXCEPT !.phase = "setFinalized"]
    BY <1>7, Zenon DEF PublishSafe
  <2>4. /\ round' \in [phase : Phases, group : SUBSET GroupBackends, latest : Nat, members : [GroupBackends -> ViewTags]]
        /\ round'.phase = "setFinalized" /\ round'.group = round.group /\ round'.members = round.members
        /\ round'.latest = round.latest
    BY <1>3, <2>3, Zenon DEF ServingTypes, Phases
  <2>5. tracker'.latest = tracker.latest /\ tracker'.safe = n
    BY <1>3, <2>2, Zenon DEF ViewTags
  <2>6. \A be \in round.group : n <= round.members[be].safe
    BY <1>7, Zenon DEF PublishSafe, Lowest
  <2>7. RoundInv'
    BY <2>1, <2>4, <2>5, <2>6, Zenon DEF ServingInv, RoundInv
  <2>8. Publishing'
    BY <2>4, Zenon DEF Publishing
  <2> QED
    BY <1>3, <2>1, <2>2, <2>4, <2>7, <2>8, Zenon
<1>8. ASSUME NEW n \in NumbersOf, PublishFinalized(n)
      PROVE Goal
  <2>1. round.phase = "setFinalized" /\ UNCHANGED <<consensusGroup, installed>> /\ n \in Nat
    BY <1>1, <1>8, ViewNumbers, Zenon DEF PublishFinalized
  <2>2. tracker' = [tracker EXCEPT !.finalized = n] /\ tracker' \in ViewTags
    BY <1>3, <1>8, <2>1, Zenon DEF PublishFinalized, ViewTags
  <2>3. round' = [round EXCEPT !.phase = "setGroup"]
    BY <1>8, Zenon DEF PublishFinalized
  <2>4. /\ round' \in [phase : Phases, group : SUBSET GroupBackends, latest : Nat, members : [GroupBackends -> ViewTags]]
        /\ round'.phase = "setGroup" /\ round'.group = round.group /\ round'.members = round.members
        /\ round'.latest = round.latest
    BY <1>3, <2>3, Zenon DEF ServingTypes, Phases
  <2>5. tracker'.latest = tracker.latest /\ tracker'.safe = tracker.safe /\ tracker'.finalized = n
    BY <1>3, <2>2, Zenon DEF ViewTags
  <2>6. \A be \in round.group : n <= round.members[be].finalized
    BY <1>8, Zenon DEF PublishFinalized, Lowest
  <2>7. RoundInv'
    BY <2>1, <2>4, <2>5, <2>6, Zenon DEF ServingInv, RoundInv
  <2>8. Publishing'
    BY <2>4, Zenon DEF Publishing
  <2> QED
    BY <1>3, <2>1, <2>2, <2>4, <2>7, <2>8, Zenon
<1>9. ASSUME PublishGroup PROVE Goal
  <2>1. round.phase = "setGroup" /\ tracker' = tracker /\ installed' = round.members
        /\ consensusGroup' = round.group /\ round' = NoRound
    BY <1>1, <1>9, Zenon DEF PublishGroup
  <2>2. Fits(tracker', consensusGroup', installed')
    BY <2>1, Zenon DEF Fits, ServingInv, RoundInv
  <2>3. round' \in [phase : Phases, group : SUBSET GroupBackends, latest : Nat, members : [GroupBackends -> ViewTags]]
    BY <2>1, ViewNumbers, Zenon DEF NoRound, Phases
  <2>4. RoundInv'
    BY <2>1, Zenon DEF RoundInv, NoRound
  <2> QED
    BY <1>3, <2>1, <2>2, <2>3, <2>4, Zenon
<1>10. Goal
  BY <1>5, <1>6, <1>7, <1>8, <1>9, Zenon DEF PublisherStep, ViewNext
<1>11. ServingTypes'
  BY <1>1, <1>2, <1>3, <1>4, <1>10, Zenon DEF ServingTypes, Phases
<1>12. quiet' /\ inflight'.pc # "idle" => Fits(tracker', consensusGroup', installed') /\ ReadInv'
  <2> SUFFICES ASSUME quiet', inflight'.pc # "idle"
               PROVE Fits(tracker', consensusGroup', installed') /\ ReadInv'
    BY Zenon
  <2>1. tracker' = tracker /\ consensusGroup' = consensusGroup /\ inflight' = inflight
    BY <1>1, <1>2, Zenon
  <2>2. Fits(tracker, consensusGroup, installed) /\ ReadInv
    BY <1>2, <2>1, Zenon DEF ServingInv
  <2>3. ReadInv'
    BY <2>1, <2>2, Zenon DEF ReadInv, SkipsBackends
  <2> QED
    BY <1>10, <2>1, <2>2, <2>3, Zenon
<1> QED
  BY <1>10, <1>11, <1>12, Zenon DEF ServingInv, Fits

\* A step of the request.
LEMMA RequestKeeps ==
  ASSUME ServingInv, RequestStep
  PROVE ServingInv'
<1>1. /\ UNCHANGED <<tracker, consensusGroup, round, installed>>
      /\ quiet' = IF inflight.pc = "idle" THEN ~Publishing ELSE quiet
  BY Zenon DEF RequestStep, viewVars
<1>2. /\ tracker \in ViewTags /\ consensusGroup \in SUBSET GroupBackends /\ quiet \in BOOLEAN
      /\ tracker.latest \in Nat /\ tracker.safe \in Nat /\ tracker.finalized \in Nat
      /\ inflight \in [pc : RequestSteps, asked : BlockTags \union {"latest"}, block : Nat,
                      backends : SUBSET GroupBackends, latest : Nat, safe : Nat,
                      target : GroupBackends \union {NoBackend}]
  BY Zenon DEF ServingInv, ServingTypes, ViewTags, RequestSteps
<1>3. quiet' \in BOOLEAN
  BY <1>1, <1>2, Zenon DEF Publishing
<1> DEFINE Goal == /\ inflight' \in [pc : RequestSteps, asked : BlockTags \union {"latest"}, block : Nat,
                                    backends : SUBSET GroupBackends, latest : Nat, safe : Nat,
                                    target : GroupBackends \union {NoBackend}]
                   /\ quiet' /\ inflight'.pc # "idle" => ReadInv'
                   /\ quiet' /\ inflight'.pc # "idle" => ~Publishing \/ (quiet /\ inflight.pc # "idle")
<1>4. ASSUME inflight.pc # "idle", quiet' PROVE quiet /\ ReadInv
  BY <1>1, <1>4, Zenon DEF ServingInv
<1>5. ASSUME NEW asked \in BlockTags, NEW number \in Numbers, NEW healthy \in SUBSET GroupBackends,
             OrderBackends(asked, number, healthy)
      PROVE Goal
  <2> DEFINE n == IF asked = "number" THEN number ELSE 0
             group == consensusGroup \cap healthy
  <2>1. /\ inflight.pc = "idle"
        /\ inflight' = [NoRequest EXCEPT !.pc = "readLatest", !.asked = asked, !.block = n, !.backends = group]
    BY <1>5, Zenon DEF OrderBackends
  <2>2. n \in Nat /\ (asked # "number" => n = 0) /\ group \subseteq consensusGroup
    BY NumbersAreNaturals, Zenon
  <2> HIDE DEF n, group
  <2>3. inflight' = [pc |-> "readLatest", asked |-> asked, block |-> n, backends |-> group,
                    latest |-> 0, safe |-> 0, target |-> NoBackend]
    BY <2>1, Zenon DEF NoRequest
  <2>4. ReadInv'
    BY <1>1, <2>2, <2>3, Zenon DEF ReadInv
  <2>5. quiet' => ~Publishing
    BY <1>1, <2>1, Zenon
  <2> QED
    BY <1>2, <2>2, <2>3, <2>4, <2>5, Zenon DEF RequestSteps
<1>6. ASSUME ReadLatest PROVE Goal
  <2>1. inflight.pc = "readLatest" /\ inflight' = [inflight EXCEPT !.pc = "readSafe", !.latest = tracker.latest]
    BY <1>6, Zenon DEF ReadLatest
  <2>2. quiet' => ReadInv'
    BY <1>1, <1>2, <1>4, <2>1, Zenon DEF ReadInv
  <2> QED
    BY <1>2, <1>4, <2>1, <2>2, Zenon DEF RequestSteps
<1>7. ASSUME ReadSafe PROVE Goal
  <2>1. inflight.pc = "readSafe" /\ inflight' = [inflight EXCEPT !.pc = "readFinalized", !.safe = tracker.safe]
    BY <1>7, Zenon DEF ReadSafe
  <2>2. quiet' => ReadInv'
    BY <1>1, <1>2, <1>4, <2>1, Zenon DEF ReadInv
  <2> QED
    BY <1>2, <1>4, <2>1, <2>2, Zenon DEF RequestSteps
<1>8. ASSUME ReadFinalized PROVE Goal
  <2> DEFINE n == Rewritten(inflight, tracker.finalized)
  <2>1. inflight.pc = "readFinalized" /\ inflight' = [inflight EXCEPT !.pc = "forward", !.block = n]
    BY <1>8, Zenon DEF ReadFinalized
  <2>2. /\ n \in Nat
        /\ inflight.asked = "latest" => n = inflight.latest
        /\ inflight.asked = "safe" => n = inflight.safe
        /\ inflight.asked = "finalized" => n = tracker.finalized
        /\ inflight.asked \notin {"latest", "safe", "finalized"} => n = inflight.block
    BY <1>2, Zenon DEF Rewritten
  <2> HIDE DEF n
  <2>3. ASSUME quiet' PROVE ReadInv'
    <3>1. ReadInv
      BY <1>4, <2>1, <2>3, Zenon
    <3>2. /\ inflight'.pc = "forward" /\ inflight'.block = n /\ inflight'.asked = inflight.asked
          /\ inflight'.latest = inflight.latest /\ inflight'.safe = inflight.safe
          /\ inflight'.backends = inflight.backends
      BY <1>2, <2>1, Zenon
    <3> QED
      BY <1>1, <2>1, <2>2, <3>1, <3>2, Zenon DEF ReadInv
  <2> QED
    BY <1>2, <1>4, <2>1, <2>2, <2>3, Zenon DEF RequestSteps
<1>9. ASSUME AnswerAtOnce \/ Served PROVE Goal
  <2>1. inflight' = NoRequest
    BY <1>9, Zenon DEF AnswerAtOnce, Served
  <2> QED
    BY <2>1, Zenon DEF NoRequest, RequestSteps
<1>10. ASSUME NEW be \in GroupBackends, SendTo(be) PROVE Goal
  <2>1. /\ inflight.pc = "forward" /\ inflight' = [inflight EXCEPT !.pc = "sent", !.target = be]
        /\ be \in inflight.backends /\ ~SkipsBackends(inflight)
    BY <1>10, Zenon DEF SendTo
  <2>2. ASSUME quiet' PROVE ReadInv'
    <3>1. ReadInv
      BY <1>4, <2>1, <2>2, Zenon
    <3>2. /\ inflight'.pc = "sent" /\ inflight'.block = inflight.block /\ inflight'.asked = inflight.asked
          /\ inflight'.latest = inflight.latest /\ inflight'.safe = inflight.safe
          /\ inflight'.backends = inflight.backends /\ inflight'.target = be
      BY <1>2, <2>1, Zenon
    <3> QED
      BY <1>1, <2>1, <3>1, <3>2, Zenon DEF ReadInv, SkipsBackends
  <2> QED
    BY <1>2, <1>4, <2>1, <2>2, Zenon DEF RequestSteps
<1>11. ASSUME Failed PROVE Goal
  <2>1. /\ inflight.pc = "sent"
        /\ inflight' = [inflight EXCEPT !.pc = "forward", !.target = NoBackend,
                                      !.backends = inflight.backends \ {inflight.target}]
    BY <1>11, Zenon DEF Failed
  <2>2. ASSUME quiet' PROVE ReadInv'
    <3>1. ReadInv
      BY <1>4, <2>1, <2>2, Zenon
    <3>2. /\ inflight'.pc = "forward" /\ inflight'.block = inflight.block /\ inflight'.asked = inflight.asked
          /\ inflight'.latest = inflight.latest /\ inflight'.safe = inflight.safe
          /\ inflight'.backends \subseteq inflight.backends
      BY <1>2, <2>1, Zenon
    <3> QED
      BY <1>1, <2>1, <3>1, <3>2, Zenon DEF ReadInv
  <2> QED
    BY <1>2, <1>4, <2>1, <2>2, Zenon DEF RequestSteps
<1>12. Goal
  BY <1>5, <1>6, <1>7, <1>8, <1>9, <1>10, <1>11, Zenon DEF RequestStep, RequestNext
<1>13. ServingTypes'
  BY <1>1, <1>3, <1>12, Zenon DEF ServingInv, ServingTypes, RequestSteps
<1>14. RoundInv' /\ Publishing' = Publishing /\ Fits(tracker', consensusGroup', installed') = Fits(tracker, consensusGroup, installed)
  BY <1>1, Zenon DEF ServingInv, RoundInv, Publishing, Fits
<1> QED
  BY <1>12, <1>13, <1>14, Zenon DEF ServingInv

\* A backend that is sent a request had the block when the group was installed.
LEMMA TargetFits == ServingInv => TargetHasBlock
<1> SUFFICES ASSUME ServingInv, inflight.pc = "sent", quiet
             PROVE LET s == installed[inflight.target] IN
                   inflight.block <= CASE inflight.asked = "safe"      -> s.safe
                                      [] inflight.asked = "finalized" -> s.finalized
                                      [] OTHER                       -> s.latest
  BY Zenon DEF TargetHasBlock
<1> DEFINE s == installed[inflight.target]
<1>1. ReadInv /\ Fits(tracker, consensusGroup, installed)
  BY Zenon DEF ServingInv
<1>2. inflight.target \in consensusGroup /\ inflight.target \in GroupBackends
  BY <1>1, Zenon DEF ReadInv, ServingInv, ServingTypes
<1>3. s \in ViewTags /\ tracker \in ViewTags
  BY <1>2, Zenon DEF ServingInv, ServingTypes
<1>4. /\ tracker.latest <= s.latest /\ tracker.safe <= s.safe /\ tracker.finalized <= s.finalized
      /\ s.latest \in Nat /\ tracker.latest \in Nat
  BY <1>1, <1>2, <1>3, Zenon DEF Fits, ViewTags
<1>5. inflight.latest = tracker.latest /\ inflight.block \in Nat /\ ~SkipsBackends(inflight)
  BY <1>1, Zenon DEF ReadInv, ServingInv, ServingTypes
<1> HIDE DEF s
<1>6. CASE inflight.asked = "safe"
  BY <1>1, <1>4, <1>6, Zenon DEF ReadInv, s
<1>7. CASE inflight.asked = "finalized"
  BY <1>1, <1>4, <1>7, Zenon DEF ReadInv, s
<1>8. CASE inflight.asked = "latest"
  BY <1>1, <1>4, <1>8, Zenon DEF ReadInv, s
<1>9. CASE inflight.asked = "number"
  BY <1>4, <1>5, <1>9 DEF SkipsBackends, s
<1>10. CASE inflight.asked \notin {"safe", "finalized", "latest", "number"}
  <2>1. inflight.block = 0
    BY <1>1, <1>10, Zenon DEF ReadInv
  <2> QED
    BY <1>4, <1>10, <2>1 DEF s
<1> QED
  BY <1>6, <1>7, <1>8, <1>9, <1>10, Zenon

\* Forward sends a request only to a backend that had the block it asks for when
\* the group was installed, for any group, numbers and request, whatever the
\* poller published before and whichever backends fail, if it publishes nothing
\* new while the request is prepared.
THEOREM TargetHasBlockHolds ==
  ServingSpec => []TargetHasBlock
<1>1. ServingInit => ServingInv
  BY ServingInitially, Zenon
<1>2. ServingInv /\ [ServingNext]_allVars => ServingInv'
  <2> SUFFICES ASSUME ServingInv, [ServingNext]_allVars PROVE ServingInv'
    BY Zenon
  <2>1. ASSUME UNCHANGED <<tracker, consensusGroup, round, inflight, installed, quiet>> PROVE ServingInv'
    BY <2>1 DEF ServingInv, ServingTypes, RoundInv, Publishing, Fits, ReadInv, SkipsBackends
  <2>2. CASE UNCHANGED allVars
    BY <2>1, <2>2, Zenon DEF allVars, viewVars
  <2> QED
    BY <2>2, PublisherKeeps, RequestKeeps, Zenon DEF ServingNext
<1> QED
  BY <1>1, <1>2, TargetFits, PTL DEF ServingSpec

-----------------------------------------------------------------------------
(***************************************************************************)
(* WSProxier: each side gets the messages of the other in order and once.  *)
(* The property is nearly inductive: what is added to it ties a message a  *)
(* pump holds to the messages it has read, and says that no pump runs      *)
(* before Dial has returned.                                               *)
(***************************************************************************)

\* Pumps run from Dial on; a pump that holds a message has read one.
WsInv ==
  /\ peerSent \in [Sides -> Seq(ClientMsgs \cup {"response"})]
  /\ taken \in [Sides -> Nat]
  /\ pump \in [Sides -> {"off", "read", "route", "sendClose", "fail", "ended"}]
  /\ got \in [Sides -> Seq([from : Sides, n : Nat])]
  /\ \A s \in Sides : /\ taken[s] <= Len(peerSent[s])
                      /\ pump[s] = "route" => taken[s] > 0
                      /\ handler \in {"idle", "dial"} => pump[s] = "off"
  /\ MessagesInOrder

Lost == {"fail", "sendClose", "ended"}

\* Nothing is written: what was due is, and what is due is what was, or the
\* message a pump gives up.
LEMMA NothingWritten ==
  ASSUME MessagesInOrder, got' = got,
         \A side, to \in Sides :
           /\ Routed(side, to) \subseteq Routed(side, to)'
           /\ \A n \in Routed(side, to)' :
                \/ n \in Routed(side, to) /\ (pump[side] \in Lost => pump'[side] \in Lost /\ taken'[side] = taken[side])
                \/ pump'[side] \in Lost /\ n = taken'[side]
  PROVE MessagesInOrder'
<1>1. \A to, side \in Sides : GotFrom(to, side)' = GotFrom(to, side)
  BY Zenon DEF GotFrom
<1> SUFFICES ASSUME NEW to \in Sides, NEW side \in Sides
    PROVE /\ \A i, j \in GotFrom(to, side)' : i < j => got'[to][i].n < got'[to][j].n
          /\ \A i \in GotFrom(to, side)' : got'[to][i].n \in Routed(side, to)'
          /\ \A n \in Routed(side, to)' :
               \/ \E i \in GotFrom(to, side)' : got'[to][i].n = n
               \/ pump'[side] \in {"fail", "sendClose", "ended"} /\ n = taken'[side]
  BY Zenon DEF MessagesInOrder
<1>2. /\ \A i, j \in GotFrom(to, side) : i < j => got[to][i].n < got[to][j].n
      /\ \A i \in GotFrom(to, side) : got[to][i].n \in Routed(side, to)'
      /\ \A n \in Routed(side, to)' :
           \/ \E i \in GotFrom(to, side) : got[to][i].n = n
           \/ pump'[side] \in {"fail", "sendClose", "ended"} /\ n = taken'[side]
  BY DEF MessagesInOrder, Lost
<1>3. GotFrom(to, side)' = GotFrom(to, side)
  BY <1>1, Zenon
<1> QED
  BY <1>2, <1>3, Zenon

\* Nor is anything routed when no pump moves between reading and writing.
LEMMA SameRouted ==
  ASSUME WsInv, got' = got, taken' = taken, peerSent' = peerSent,
         \A s \in Sides : pump'[s] = pump[s] \/ (pump[s] # "route" /\ pump'[s] # "route" /\ (pump[s] \in Lost => pump'[s] \in Lost))
  PROVE MessagesInOrder'
<1>1. \A side, to \in Sides : Routed(side, to)' = Routed(side, to)
  BY DEF Routed
<1> QED
  BY <1>1, NothingWritten, Zenon DEF WsInv, Lost

\* A peer sends: what its pump has read stays the same.
LEMMA SendsInOrder ==
  ASSUME WsInv, NEW side \in Sides, NEW m \in ClientMsgs \cup {"response"}, PeerSends(side, m)
  PROVE WsInv'
<1>1. /\ peerSent' = [peerSent EXCEPT ![side] = Append(peerSent[side], m)]
      /\ UNCHANGED <<handler, taken, pump, got>>
  BY Zenon DEF PeerSends
<1>2. /\ peerSent' \in [Sides -> Seq(ClientMsgs \cup {"response"})]
      /\ \A s \in Sides : taken[s] <= Len(peerSent'[s])
      /\ \A s \in Sides : \A i \in 1 .. taken[s] : peerSent'[s][i] = peerSent[s][i]
  BY <1>1 DEF WsInv
<1>3. \A s, to \in Sides : Routed(s, to)' = Routed(s, to)
  <2> SUFFICES ASSUME NEW s \in Sides, NEW to \in Sides PROVE Routed(s, to)' = Routed(s, to)
    BY Zenon
  <2> DEFINE n == IF pump[s] = "route" THEN taken[s] - 1 ELSE taken[s]
  <2>1. 1 .. n \subseteq 1 .. taken[s]
    BY DEF WsInv
  <2> HIDE DEF n
  <2>2. Routed(s, to) = {i \in 1 .. n : to = "backend" <=> s = "client" /\ peerSent[s][i] = "call"}
    BY Zenon DEF Routed, n
  <2>3. Routed(s, to)' = {i \in 1 .. n : to = "backend" <=> s = "client" /\ peerSent'[s][i] = "call"}
    BY <1>1, Zenon DEF Routed, n
  <2> QED
    BY <1>2, <2>1, <2>2, <2>3
<1>4. MessagesInOrder'
  BY <1>1, <1>3, NothingWritten, Zenon DEF WsInv
<1> QED
  BY <1>1, <1>2, <1>4, Zenon DEF WsInv

\* What is due to a pump's receivers once it is done with its message.
LEMMA Due ==
  ASSUME WsInv, NEW side \in Sides, pump[side] = "route", NEW to \in Sides
  PROVE /\ taken[side] \in Nat \ {0}
        /\ Routed(side, to) \subseteq 1 .. (taken[side] - 1)
        /\ {i \in 1 .. taken[side] : to = "backend" <=> side = "client" /\ peerSent[side][i] = "call"}
           = Routed(side, to) \cup (IF to = Receiver(side) THEN {taken[side]} ELSE {})
<1>1. taken[side] \in Nat \ {0}
  BY DEF WsInv
<1>2. Routed(side, to) = {i \in 1 .. (taken[side] - 1) : to = "backend" <=> side = "client" /\ peerSent[side][i] = "call"}
  BY Zenon DEF Routed
<1>3. 1 .. taken[side] = (1 .. (taken[side] - 1)) \cup {taken[side]}
  BY <1>1
<1>4. (to = "backend" <=> side = "client" /\ peerSent[side][taken[side]] = "call") <=> to = Receiver(side)
  BY Zenon DEF Receiver, Waiting, Sides
<1> QED
  BY <1>1, <1>2, <1>3, <1>4, Zenon

\* The pump reads: its message is not due before it is written.
LEMMA ReadInOrder ==
  ASSUME WsInv, NEW side \in Sides, Read(side)
  PROVE WsInv'
<1>1. /\ taken' = [taken EXCEPT ![side] = taken[side] + 1] /\ pump' = [pump EXCEPT ![side] = "route"]
      /\ taken[side] < Len(peerSent[side]) /\ pump[side] = "read"
      /\ UNCHANGED <<handler, peerSent, got>>
  BY Zenon DEF Read
<1>2. \A s \in Sides : Len(peerSent[s]) \in Nat
  BY DEF WsInv
<1>3. /\ taken' \in [Sides -> Nat] /\ pump' \in [Sides -> {"off", "read", "route", "sendClose", "fail", "ended"}]
      /\ taken'[side] = taken[side] + 1 /\ pump'[side] = "route"
      /\ \A s \in Sides : s # side => taken'[s] = taken[s] /\ pump'[s] = pump[s]
  BY <1>1 DEF WsInv
<1>4. \A s, to \in Sides : Routed(s, to)' = Routed(s, to)
  <2> SUFFICES ASSUME NEW s \in Sides, NEW to \in Sides PROVE Routed(s, to)' = Routed(s, to)
    BY Zenon
  <2>1. CASE s = side
    <3>1. taken'[s] - 1 = taken[s]
      BY <1>3, <2>1 DEF WsInv
    <3> QED
      BY <1>1, <1>3, <2>1, <3>1, Zenon DEF Routed
  <2>2. CASE s # side
    BY <1>1, <1>3, <2>2, Zenon DEF Routed
  <2> QED
    BY <2>1, <2>2, Zenon
<1>5. MessagesInOrder'
  BY <1>1, <1>3, <1>4, NothingWritten, Zenon DEF WsInv, Lost
<1>6. \A s \in Sides : /\ taken'[s] <= Len(peerSent[s])
                       /\ pump'[s] = "route" => taken'[s] > 0
                       /\ handler \in {"idle", "dial"} => pump'[s] = "off"
  BY <1>1, <1>2, <1>3 DEF WsInv
<1> QED
  BY <1>1, <1>3, <1>5, <1>6, Zenon DEF WsInv

\* The write fails: the message may be missing from now on.
LEMMA WriteFailsInOrder ==
  ASSUME WsInv, NEW side \in Sides, WriteFails(side)
  PROVE WsInv'
<1>1. /\ pump' = [pump EXCEPT ![side] = "fail"] /\ pump[side] = "route"
      /\ UNCHANGED <<handler, taken, peerSent, got>>
  BY Zenon DEF WriteFails
<1>2. /\ pump' \in [Sides -> {"off", "read", "route", "sendClose", "fail", "ended"}]
      /\ pump'[side] = "fail"
      /\ \A s \in Sides : s # side => pump'[s] = pump[s]
  BY <1>1, Zenon DEF WsInv
<1>3. \A to \in Sides : Routed(side, to)' = Routed(side, to) \cup (IF to = Receiver(side) THEN {taken[side]} ELSE {})
  BY <1>1, <1>2, Due DEF Routed
<1>4. \A s, to \in Sides : s # side => Routed(s, to)' = Routed(s, to)
  BY <1>1, <1>2 DEF Routed
<1>5. MessagesInOrder'
  BY <1>1, <1>2, <1>3, <1>4, NothingWritten DEF WsInv, Lost
<1> QED
  BY <1>1, <1>2, <1>5, Zenon DEF WsInv

\* The message is written, after all those of its side that the receiver got.
LEMMA WriteInOrder ==
  ASSUME WsInv, NEW side \in Sides, Write(side)
  PROVE WsInv'
<1> DEFINE r == Receiver(side)
<1> DEFINE w == [from |-> side, n |-> taken[side]]
<1>1. /\ got' = [got EXCEPT ![r] = Append(got[r], w)]
      /\ pump' = [pump EXCEPT ![side] = "read"] /\ pump[side] = "route"
      /\ UNCHANGED <<handler, taken, peerSent>>
  BY Zenon DEF Write, Written
<1>2. r \in Sides /\ w \in [from : Sides, n : Nat] /\ w.from = side /\ w.n = taken[side]
  BY Zenon DEF Receiver, Sides, WsInv
<1> HIDE DEF w
<1>3. /\ pump' \in [Sides -> {"off", "read", "route", "sendClose", "fail", "ended"}]
      /\ pump'[side] = "read"
      /\ \A s \in Sides : s # side => pump'[s] = pump[s]
  BY <1>1, Zenon DEF WsInv
<1>4. \A to \in Sides : /\ Routed(side, to)' = Routed(side, to) \cup (IF to = r THEN {taken[side]} ELSE {})
                        /\ Routed(side, to) \subseteq 1 .. (taken[side] - 1) /\ taken[side] \in Nat
  <2> SUFFICES ASSUME NEW to \in Sides
      PROVE /\ Routed(side, to)' = Routed(side, to) \cup (IF to = r THEN {taken[side]} ELSE {})
            /\ Routed(side, to) \subseteq 1 .. (taken[side] - 1) /\ taken[side] \in Nat
    BY Zenon
  <2>1. Routed(side, to)' = {i \in 1 .. taken[side] : to = "backend" <=> side = "client" /\ peerSent[side][i] = "call"}
    BY <1>1, <1>3, Zenon DEF Routed
  <2>2. pump[side] = "route"
    BY <1>1, Zenon
  <2> QED
    BY <2>1, <2>2, Due, Zenon
<1>5. \A s, to \in Sides : s # side => Routed(s, to)' = Routed(s, to)
  BY <1>1, <1>3, Zenon DEF Routed
<1> HIDE DEF r
<1>6. /\ got' \in [Sides -> Seq([from : Sides, n : Nat])]
      /\ \A to \in Sides : to # r => got'[to] = got[to]
      /\ got'[r] = Append(got[r], w) /\ got[r] \in Seq([from : Sides, n : Nat])
  BY <1>1, <1>2 DEF WsInv
<1> DEFINE last == Len(got[r]) + 1
<1>7. /\ DOMAIN got[r] = 1 .. Len(got[r]) /\ Len(got[r]) \in Nat
      /\ DOMAIN got'[r] = 1 .. last /\ got'[r][last] = w
      /\ \A i \in 1 .. Len(got[r]) : got'[r][i] = got[r][i]
  BY <1>2, <1>6
<1>8. /\ DOMAIN got'[r] = DOMAIN got[r] \cup {last} /\ last \notin DOMAIN got[r]
      /\ \A i \in DOMAIN got[r] : i \in Nat /\ i < last
  BY <1>7
<1>9. \A to, s \in Sides : GotFrom(to, s)' = GotFrom(to, s) \cup (IF to = r /\ s = side THEN {last} ELSE {})
  <2> SUFFICES ASSUME NEW to \in Sides, NEW s \in Sides
      PROVE GotFrom(to, s)' = GotFrom(to, s) \cup (IF to = r /\ s = side THEN {last} ELSE {})
    BY Zenon
  <2>1. CASE to = r
    BY <1>2, <1>7, <1>8, <2>1 DEF GotFrom
  <2>2. CASE to # r
    BY <1>6, <2>2, Zenon DEF GotFrom
  <2> QED
    BY <2>1, <2>2, Zenon
<1>10. \A to, s \in Sides : \A i \in GotFrom(to, s) : got'[to][i] = got[to][i]
  BY <1>6, <1>7, Zenon DEF GotFrom
<1> HIDE DEF last
<1>11. ASSUME NEW to \in Sides, NEW s \in Sides
       PROVE /\ \A i, j \in GotFrom(to, s)' : i < j => got'[to][i].n < got'[to][j].n
             /\ \A i \in GotFrom(to, s)' : got'[to][i].n \in Routed(s, to)'
             /\ \A n \in Routed(s, to)' :
                  \/ \E i \in GotFrom(to, s)' : got'[to][i].n = n
                  \/ pump'[s] \in {"fail", "sendClose", "ended"} /\ n = taken'[s]
  <2>1. /\ \A i, j \in GotFrom(to, s) : i < j => got[to][i].n < got[to][j].n
        /\ \A i \in GotFrom(to, s) : got[to][i].n \in Routed(s, to)
        /\ \A n \in Routed(s, to) :
             \/ \E i \in GotFrom(to, s) : got[to][i].n = n
             \/ pump[s] \in {"fail", "sendClose", "ended"} /\ n = taken[s]
    BY Zenon DEF WsInv, MessagesInOrder
  <2>2. CASE to = r /\ s = side
    <3>1. \A i \in GotFrom(to, s) : got[to][i].n \in Nat /\ got[to][i].n < taken[side] /\ i \in Nat /\ i < last
      BY <1>4, <1>8, <2>1, <2>2 DEF GotFrom
    <3>2. got'[to][last].n = taken[side] /\ GotFrom(to, s)' = GotFrom(to, s) \cup {last} /\ last \in Nat
      BY <1>2, <1>7, <1>9, <2>2 DEF last
    <3>3. \A i, j \in GotFrom(to, s)' : i < j => got'[to][i].n < got'[to][j].n
      <4> SUFFICES ASSUME NEW i \in GotFrom(to, s)', NEW j \in GotFrom(to, s)', i < j
          PROVE got'[to][i].n < got'[to][j].n
        BY Zenon
      <4>1. i # last /\ i \in GotFrom(to, s)
        BY <3>1, <3>2
      <4>2. got'[to][i].n = got[to][i].n
        BY <1>10, <4>1, Zenon
      <4>3. CASE j = last
        BY <3>1, <3>2, <4>1, <4>2, <4>3, Zenon
      <4>4. CASE j # last
        <5>1. j \in GotFrom(to, s) /\ got'[to][j].n = got[to][j].n
          BY <1>10, <3>2, <4>4, Zenon
        <5> QED
          BY <2>1, <4>1, <4>2, <5>1, Zenon
      <4> QED
        BY <4>3, <4>4, Zenon
    <3>4. \A i \in GotFrom(to, s)' : got'[to][i].n \in Routed(s, to)'
      <4>1. Routed(s, to)' = Routed(s, to) \cup {taken[side]}
        BY <1>4, <2>2, Zenon
      <4>2. \A i \in GotFrom(to, s) : got'[to][i].n = got[to][i].n
        BY <1>10, Zenon
      <4> QED
        BY <2>1, <3>2, <4>1, <4>2, Zenon
    <3>5. \A n \in Routed(s, to)' : \E i \in GotFrom(to, s)' : got'[to][i].n = n
      <4>1. Routed(s, to)' = Routed(s, to) \cup {taken[side]}
        BY <1>4, <2>2, Zenon
      <4>2. \A n \in Routed(s, to) : \E i \in GotFrom(to, s) : got[to][i].n = n
        BY <1>1, <2>1, <2>2, Zenon
      <4> QED
        BY <1>10, <3>2, <4>1, <4>2
    <3> QED
      BY <3>3, <3>4, <3>5, Zenon
  <2>3. CASE ~(to = r /\ s = side)
    <3>1. GotFrom(to, s)' = GotFrom(to, s) /\ Routed(s, to)' = Routed(s, to)
      <4>1. GotFrom(to, s)' = GotFrom(to, s)
        BY <1>9, <2>3
      <4>2. CASE s = side
        BY <1>4, <2>3, <4>1, <4>2, Zenon
      <4>3. CASE s # side
        BY <1>5, <4>1, <4>3, Zenon
      <4> QED
        BY <4>2, <4>3, Zenon
    <3>2. pump[s] \in {"fail", "sendClose", "ended"} => pump'[s] = pump[s]
      BY <1>1, <1>3, Zenon
    <3> QED
      <4>1. \A i \in GotFrom(to, s) : got'[to][i].n = got[to][i].n
        BY <1>10, Zenon
      <4>2. taken' = taken
        BY <1>1, Zenon
      <4> QED
        BY <2>1, <3>1, <3>2, <4>1, <4>2
  <2> QED
    BY <2>2, <2>3, Zenon
<1>12. MessagesInOrder'
  BY <1>11, Zenon DEF MessagesInOrder
<1>13. \A s \in Sides : /\ taken'[s] <= Len(peerSent'[s])
                        /\ pump'[s] = "route" => taken'[s] > 0
                        /\ handler' \in {"idle", "dial"} => pump'[s] = "off"
  BY <1>1, <1>3, Zenon DEF WsInv
<1> QED
  BY <1>1, <1>3, <1>6, <1>12, <1>13, Zenon DEF WsInv

\* MessagesInOrder: the two pumps of a WebSocket lose, double and overtake
\* nothing, however they are interleaved and wherever either of them ends.
THEOREM MessagesInOrderHolds == WsSpec => []MessagesInOrder
<1>1. WsInit => WsInv
  <2> SUFFICES ASSUME WsInit PROVE WsInv
    BY Zenon
  <2>1. DOMAIN <<>> = {}
    OBVIOUS
  <2>2. /\ \A s \in Sides : got[s] = <<>> /\ taken[s] = 0 /\ pump[s] = "off" /\ peerSent[s] = <<>>
        /\ handler = "idle"
    BY Zenon DEF WsInit
  <2>3. \A to, side \in Sides : GotFrom(to, side) = {} /\ Routed(side, to) = {}
    BY <2>1, <2>2 DEF GotFrom, Routed
  <2>4. MessagesInOrder
    BY <2>3, Zenon DEF MessagesInOrder
  <2> QED
    BY <2>2, <2>4 DEF WsInit, WsInv
<1>2. WsInv /\ [WsNext]_wsVars => WsInv'
  <2> SUFFICES ASSUME WsInv, [WsNext]_wsVars PROVE WsInv'
    BY Zenon
  <2>1. CASE UNCHANGED <<pump, got, taken, peerSent>> /\ (handler' \in {"idle", "dial"} => handler \in {"idle", "dial"})
    BY <2>1, SameRouted, Zenon DEF WsInv
  <2>2. CASE HandleWS \/ RefuseWS \/ DialFails \/ NoneDialed \/ close \/ ProxyReturns \/ UNCHANGED wsVars
    BY <2>1, <2>2, Zenon DEF HandleWS, RefuseWS, DialFails, NoneDialed, close, ProxyReturns, wsVars, wsConns
  <2>3. CASE Dial
    <3>1. /\ pump' = [s \in Sides |-> "read"] /\ handler = "dial" /\ handler' = "proxy"
          /\ UNCHANGED <<got, taken, peerSent>>
      BY <2>3, Zenon DEF Dial, wsConns
    <3>2. \A s \in Sides : pump[s] = "off" /\ pump'[s] = "read"
      BY <3>1, Zenon DEF WsInv
    <3>3. MessagesInOrder'
      BY <3>1, <3>2, SameRouted, Zenon DEF Lost
    <3> QED
      BY <3>1, <3>2, <3>3, Zenon DEF WsInv
  <2>4. CASE (\E m \in ClientMsgs : PeerSends("client", m)) \/ PeerSends("backend", "response")
    BY <2>4, SendsInOrder, Zenon DEF Sides
  <2>5. ASSUME NEW side \in Sides, PeerGoes(side) PROVE WsInv'
    BY <2>1, <2>5, Zenon DEF PeerGoes
  <2>6. ASSUME NEW side \in Sides, PeerReadFails(side) \/ SendClose(side) \/ Fail(side) PROVE WsInv'
    <3>1. /\ UNCHANGED <<handler, got, taken, peerSent>>
          /\ \/ pump[side] = "read" /\ pump' = [pump EXCEPT ![side] = "sendClose"]
             \/ pump[side] = "sendClose" /\ pump' = [pump EXCEPT ![side] = "fail"]
             \/ pump[side] = "fail" /\ pump' = [pump EXCEPT ![side] = "ended"]
      BY <2>6, Zenon DEF PeerReadFails, SendClose, Fail
    <3>2. /\ pump' \in [Sides -> {"off", "read", "route", "sendClose", "fail", "ended"}]
          /\ pump'[side] \in Lost /\ pump[side] # "route" /\ pump[side] # "off"
          /\ \A s \in Sides : s # side => pump'[s] = pump[s]
      BY <3>1, Zenon DEF WsInv, Lost
    <3>3. MessagesInOrder'
      BY <3>1, <3>2, SameRouted, Zenon DEF Lost
    <3> QED
      BY <3>1, <3>2, <3>3, Zenon DEF WsInv, Lost
  <2> QED
    BY <2>2, <2>3, <2>4, <2>5, <2>6, ReadInOrder, WriteInOrder, WriteFailsInOrder, Zenon DEF WsNext, WsStep
<1>3. WsInv => MessagesInOrder
  BY Zenon DEF WsInv
<1> QED
  BY <1>1, <1>2, <1>3, PTL DEF WsSpec
=============================================================================
