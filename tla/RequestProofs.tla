--------------------------- MODULE RequestProofs ----------------------------
(***************************************************************************)
(* What proxyd does with a request before a backend sees it, for any       *)
(* limits and requests: the rate limiters in memory and in Redis, the tags *)
(* and ranges it rewrites, and the places of the responses given without a *)
(* backend.                                                                *)
(***************************************************************************)
EXTENDS RateLimiter, Rewriter, NumberProofs, TLAPS

-----------------------------------------------------------------------------
(***************************************************************************)
(* Rewriter, RewriteTags: the tags and the ranges of the requests that are *)
(* forwarded.                                                              *)
(***************************************************************************)

IsContext(c) ==
  /\ c \in [latest : Nat, safe : Nat, finalized : Nat, maxBlockRange : Nat]
  /\ \A n \in {c.latest + 1, c.safe, c.finalized} : n + c.maxBlockRange < Word

\* A block that every backend of the group understands alike.
Resolved(c, b) ==
  /\ b.tag \notin {"latest", "safe", "finalized"}
  /\ b.tag = "number" => b.n <= c.latest \/ b.n \in {c.safe, c.finalized}

\* The block d is agreed on, or is b, which is left to the backend.
Settled(c, b, d) == Agreed(c, d) \/ (d = b /\ b.tag \in {"pending", "null", "empty"})

\* A length without a sign that is within the maximum is a length: modulo Word,
\* bounds the wrong way round are further apart than any maximum.
LEMMA RangeWithinWord ==
  ASSUME NEW a \in Nat, NEW b \in Nat, NEW m \in Nat, a + m < Word, b + m < Word,
         ~RangeTooLarge(a, b, m)
  PROVE b \in a .. a + m
<1>1. Word \in Nat \ {0} /\ (b - a) % Word <= m
  <2>1. Word \in Nat \ {0}
    BY RewriterAssumption, Zenon
  <2>2. (b - a) % Word \in Int
    BY <2>1
  <2> QED
    BY <2>1, <2>2 DEF RangeTooLarge
<1> DEFINE d == b - a
<1>2. d \in Int /\ d < Word /\ d + Word > m
  BY <1>1
<1>3. CASE d >= 0
  <2>1. d % Word = d
    BY <1>1, <1>2, <1>3
  <2> QED
    BY <1>1, <1>3, <2>1
<1>4. CASE d < 0
  <2>1. d % Word = d + Word
    BY <1>1, <1>2, <1>4
  <2> QED
    BY <1>1, <1>2, <2>1
<1> QED
  BY <1>2, <1>3, <1>4

\* What rewriteTag returns without an error is resolved, and is the block it
\* was given unless it says that it rewrote it.
LEMMA TagResolved ==
  ASSUME NEW c, IsContext(c), NEW b \in Blocks, rewriteTag(c, b).err = "none"
  PROVE /\ Resolved(c, rewriteTag(c, b).block) /\ rewriteTag(c, b).block \in Blocks
        /\ Settled(c, b, rewriteTag(c, b).block)
        /\ ~rewriteTag(c, b).rw => rewriteTag(c, b).block = b
        /\ b.tag = "latest" => rewriteTag(c, b).rw
<1>1. b.tag \in Tags /\ b.n \in Nat /\ b.object \in BOOLEAN
  BY Zenon DEF Blocks
<1>2. c.latest \in Nat /\ c.safe \in Nat /\ c.finalized \in Nat
  BY Zenon DEF IsContext
<1>3. CASE b.tag \in {"empty", "bad"}
  BY <1>3, Zenon DEF rewriteTag, Bad
<1>4. CASE b.tag \in {"null", "hash", "pending", "earliest"}
  <2>1. rewriteTag(c, b) = Unrewritten(b)
    BY <1>4, Zenon DEF rewriteTag
  <2> QED
    BY <1>4, <2>1 DEF Unrewritten, Resolved, Settled, Agreed
<1>5. CASE b.tag \in {"latest", "safe", "finalized"}
  <2>1. \E n \in {c.latest, c.safe, c.finalized} : rewriteTag(c, b) = To(n)
    BY <1>5, Zenon DEF rewriteTag
  <2>2. PICK n \in {c.latest, c.safe, c.finalized} : rewriteTag(c, b) = To(n)
    BY <2>1, Zenon
  <2>3. Number(n) \in Blocks /\ Number(n).tag = "number" /\ Number(n).n = n
    BY <1>2, <2>2, Zenon DEF Number, Blocks, Tags
  <2>4. To(n).block = Number(n) /\ To(n).rw
    BY Zenon DEF To
  <2> QED
    BY <1>2, <2>2, <2>3, <2>4 DEF Resolved, Settled, Agreed
<1>6. CASE b.tag = "number"
  <2>1. b.n <= c.latest /\ rewriteTag(c, b) = Unrewritten(b)
    BY <1>1, <1>2, <1>6 DEF rewriteTag, Bad
  <2> QED
    BY <1>6, <2>1 DEF Unrewritten, Resolved, Settled, Agreed
<1> QED
  BY <1>1, <1>3, <1>4, <1>5, <1>6, Zenon DEF Tags

\* The same of a bound of a filter, which may also be null or empty.
LEMMA BoundResolved ==
  ASSUME NEW c, IsContext(c), NEW b \in Blocks, rewriteTagMap(c, b).err = "none"
  PROVE /\ Resolved(c, rewriteTagMap(c, b).block) /\ rewriteTagMap(c, b).block \in Blocks
        /\ Settled(c, b, rewriteTagMap(c, b).block)
        /\ ~rewriteTagMap(c, b).rw => rewriteTagMap(c, b).block = b
        /\ b.tag = "latest" => rewriteTagMap(c, b).rw
<1>1. CASE b.tag \in {"null", "empty"} /\ ~b.object
  <2>1. rewriteTagMap(c, b) = Unrewritten(b)
    BY <1>1, Zenon DEF rewriteTagMap
  <2> QED
    BY <1>1, <2>1 DEF Unrewritten, Resolved, Settled
<1>2. CASE ~(b.tag \in {"null", "empty"} /\ ~b.object) /\ b.object
  BY <1>2, Zenon DEF rewriteTagMap, Bad
<1>3. CASE ~(b.tag \in {"null", "empty"} /\ ~b.object) /\ ~b.object
  <2>1. rewriteTagMap(c, b) = rewriteTag(c, b)
    BY <1>3, Zenon DEF rewriteTagMap
  <2> QED
    BY <2>1, TagResolved, Zenon
<1> QED
  BY <1>1, <1>2, <1>3, Zenon

-----------------------------------------------------------------------------
(* One request. *)

\* A request with its block at a position: what is forwarded asks for no block,
\* or for one that is settled, also when it was left out by the client.
LEMMA ParamResolved ==
  ASSUME NEW c, IsContext(c), NEW q, IsCall(q), q.method \in DOMAIN ParamOf,
         rewriteParam(c, q).result \in Forwarded
  PROVE \A b \in AskedOf(rewriteParam(c, q).req) : Agreed(c, b) \/ Open(q, b)
<1> DEFINE at == ParamOf[q.method]
           p == IF Len(q.params) = at.pos - 1 /\ ~at.required
                  THEN Append(q.params, Named("latest")) ELSE q.params
           b == p[at.pos]
           new == rewriteTag(c, b)
           isString == ~b.object /\ b.tag # "null"
           out == rewriteParam(c, q)
           req == [q EXCEPT !.params = [p EXCEPT ![at.pos] = new.block]]
<1>1. /\ q.params \in Seq(Blocks) /\ DOMAIN q = {"method", "isList", "params"}
      /\ at.pos \in 1 .. 3 /\ q.method # "eth_getLogs"
  BY DEF IsCall, ParamOf
<1>2. \A r : r.method = q.method =>
         AskedOf(r) = IF at.pos \in DOMAIN r.params THEN {r.params[at.pos]}
                      ELSE IF Len(r.params) = at.pos - 1 /\ ~at.required THEN {Named("latest")} ELSE {}
  BY <1>1, Zenon DEF AskedOf
<1>3. Named("latest") \in Blocks /\ Named("latest").tag = "latest"
  BY Zenon DEF Named, Blocks, Tags
<1>4. p \in Seq(Blocks) /\ Len(p) \in Nat /\ Len(q.params) \in Nat /\ Len(q.params) <= Len(p)
  BY <1>1, <1>3
<1>5. out = CASE Len(p) < at.pos -> None(q)
              [] Len(p) >= at.pos /\ ~at.blockNrOrHash /\ ~isString -> Error(q, "parse")
              [] OTHER -> IF new.err # "none" THEN Error(q, new.err)
                          ELSE IF new.rw THEN Request(req) ELSE None(q)
  BY Zenon DEF rewriteParam
<1> HIDE DEF at, p, b, new, isString, out, req
<1>6. CASE Len(p) < at.pos
  <2>1. out.req = q
    BY <1>1, <1>4, <1>5, <1>6 DEF None
  <2>2. at.pos \notin DOMAIN q.params /\ ~(Len(q.params) = at.pos - 1 /\ ~at.required)
    BY <1>1, <1>3, <1>4, <1>6 DEF p
  <2>3. AskedOf(q) = {}
    BY <1>2, <2>2, Zenon
  <2> QED
    BY <2>1, <2>3, Zenon DEF out
<1>7. CASE Len(p) >= at.pos
  <2>1. \A e : Error(q, e).result \notin Forwarded
    BY Zenon DEF Error, Forwarded
  <2>2. out.result \in Forwarded /\ ~(Len(p) < at.pos)
    BY <1>1, <1>4, <1>7 DEF out
  <2>3. ~(~at.blockNrOrHash /\ ~isString)
    <3>1. ASSUME ~at.blockNrOrHash /\ ~isString PROVE out = Error(q, "parse")
      BY <1>5, <1>7, <2>2, <3>1, Zenon
    <3> QED
      BY <2>1, <2>2, <3>1, Zenon
  <2>4. out = IF new.err # "none" THEN Error(q, new.err)
              ELSE IF new.rw THEN Request(req) ELSE None(q)
    BY <1>5, <2>2, <2>3, Zenon
  <2>5. new.err = "none"
    BY <2>1, <2>2, <2>4, Zenon
  <2>6. b \in Blocks /\ at.pos \in 1 .. Len(p)
    BY <1>1, <1>4, <1>7 DEF b
  <2>7. /\ Settled(c, b, new.block) /\ (~new.rw => new.block = b)
        /\ b.tag = "latest" => new.rw
    BY <2>5, <2>6, TagResolved, Zenon DEF new
  <2>8. CASE new.rw
    <3>1. out.req = req
      <4>1. out = Request(req)
        BY <2>4, <2>5, <2>8, Zenon
      <4> QED
        BY <4>1, Zenon DEF Request
    <3>2. req.method = q.method /\ req.params = [p EXCEPT ![at.pos] = new.block]
      BY <1>1, Zenon DEF req
    <3>3. req.params[at.pos] = new.block
      BY <1>4, <2>6, <3>2
    <3>4. at.pos \in DOMAIN req.params
      BY <1>4, <2>6, <3>2
    <3>5. \A x \in AskedOf(req) : x = new.block
      BY <1>2, <3>2, <3>3, <3>4, Zenon
    <3>6. b.tag \in {"pending", "null", "empty"} => b \in AskedOf(q)
      <4>1. b.tag # "latest" => p = q.params
        BY <1>1, <1>3, <1>4 DEF p, b
      <4>2. at.pos \in DOMAIN p
        BY <1>4, <2>6
      <4> QED
        BY <1>2, <4>1, <4>2, Zenon DEF b
    <3> QED
      BY <2>7, <3>1, <3>5, <3>6, Zenon DEF out, Settled, Open
  <2>9. CASE ~new.rw
    <3>1. out.req = q
      <4>1. out = None(q)
        BY <2>4, <2>5, <2>9, Zenon
      <4> QED
        BY <4>1, Zenon DEF None
    <3>2. p = q.params
      BY <1>1, <1>3, <1>4, <2>6, <2>7, <2>9 DEF p, b
    <3>3. at.pos \in DOMAIN q.params
      BY <1>4, <2>6, <3>2
    <3>4. AskedOf(q) = {b}
      BY <1>2, <3>2, <3>3, Zenon DEF b
    <3> QED
      BY <2>7, <2>9, <3>1, <3>4, Zenon DEF out, Settled, Open
  <2> QED
    BY <2>8, <2>9, Zenon
<1> QED
  BY <1>1, <1>4, <1>6, <1>7

\* A resolved bound that the check of the range can read is far from Word.
LEMMA BoundNumber ==
  ASSUME NEW c, IsContext(c), NEW b \in Blocks, Resolved(c, b), blockNumber(c, b) # -1
  PROVE blockNumber(c, b) \in Nat /\ blockNumber(c, b) + c.maxBlockRange < Word
<1>1. /\ b.n \in Nat /\ c.latest \in Nat /\ c.safe \in Nat /\ c.finalized \in Nat
      /\ c.maxBlockRange \in Nat /\ Word \in Nat
      /\ c.latest + 1 + c.maxBlockRange < Word /\ c.safe + c.maxBlockRange < Word
      /\ c.finalized + c.maxBlockRange < Word
  BY RewriterAssumption, Zenon DEF Blocks, IsContext
<1>2. \/ blockNumber(c, b) \in {0, c.latest + 1}
      \/ blockNumber(c, b) = b.n /\ b.tag = "number"
  BY Zenon DEF blockNumber
<1> QED
  BY <1>1, <1>2 DEF Resolved

\* A filter that is forwarded has settled bounds, or none, and if it has some and
\* there is a maximum, its range is within the maximum.
LEMMA FilterForwarded ==
  ASSUME NEW c, IsContext(c), NEW q, IsCall(q), q.method = "eth_getLogs",
         rewriteRange(c, q).result \in Forwarded,
         NEW g, g = rewriteRange(c, q).req.params[1]
  PROVE /\ rewriteRange(c, q).req.method = "eth_getLogs"
        /\ DOMAIN q.params[1] # {} => \A k \in {"fromBlock", "toBlock"} :
             /\ k \in DOMAIN g
             /\ Agreed(c, g[k])
                \/ (k \in DOMAIN q.params[1] /\ g[k] = q.params[1][k] /\ g[k].tag \in {"pending", "null", "empty"})
        /\ c.maxBlockRange > 0 /\ DOMAIN g # {} =>
             LET from == blockNumber(c, g["fromBlock"])
                 to == blockNumber(c, g["toBlock"])
             IN from \in Nat /\ to \in from .. from + c.maxBlockRange
<1> DEFINE f == q.params[1]
           has == DOMAIN f # {}
           bound(k) == IF k \in DOMAIN f THEN f[k] ELSE Named(IF has THEN "latest" ELSE "null")
           from == rewriteTagMap(c, bound("fromBlock"))
           to == rewriteTagMap(c, bound("toBlock"))
           first == blockNumber(c, from.block)
           last == blockNumber(c, to.block)
           new == [fromBlock |-> from.block, toBlock |-> to.block]
           req == [q EXCEPT !.params[1] = new]
           out == rewriteRange(c, q)
           rest == IF has /\ c.maxBlockRange > 0 /\ (first = -1 \/ last = -1) THEN Error(q, "parse")
                   ELSE IF has /\ c.maxBlockRange > 0 /\ RangeTooLarge(first, last, c.maxBlockRange)
                          THEN Error(q, "rangeTooLarge")
                   ELSE IF from.rw \/ to.rw THEN Request(req)
                   ELSE None(q)
<1>1. out = CASE q.params = <<>> -> [result |-> "panic", req |-> q, err |-> "index"]
              [] q.params # <<>> /\ from.err # "none" -> Error(q, from.err)
              [] q.params # <<>> /\ from.err = "none" /\ to.err # "none" -> Error(q, to.err)
              [] OTHER -> rest
  BY Zenon DEF rewriteRange
<1>2. (q.params # <<>> => 1 \in DOMAIN q.params /\ IsFilter(f)) /\ DOMAIN q = {"method", "isList", "params"}
  BY Zenon DEF IsCall
<1>3. ASSUME q.params # <<>>
      PROVE DOMAIN f \subseteq {"fromBlock", "toBlock"} /\ \A k \in DOMAIN f : f[k] \in Blocks
  <2>1. PICK ks \in SUBSET {"fromBlock", "toBlock"} : f \in [ks -> Blocks]
    BY <1>2, <1>3, Zenon DEF IsFilter
  <2> QED
    BY <2>1, Zenon
<1>4. \A t \in {"latest", "null"} : Named(t) \in Blocks /\ Named(t).tag = t /\ ~Named(t).object
  BY Zenon DEF Named, Blocks, Tags
<1>5. ASSUME q.params # <<>> PROVE bound("fromBlock") \in Blocks /\ bound("toBlock") \in Blocks
  BY <1>3, <1>4, <1>5, Zenon
<1>6. ~has => /\ bound("fromBlock") = Named("null") /\ bound("toBlock") = Named("null")
  BY Zenon
<1>7. has => \A k \in {"fromBlock", "toBlock"} : k \in DOMAIN f \/ bound(k).tag = "latest"
  BY <1>4, Zenon
<1>8. \A k \in DOMAIN f : bound(k) = f[k]
  BY Zenon
<1>a. ASSUME NEW k, has, NEW d, Settled(c, bound(k), d)
      PROVE Agreed(c, d) \/ (k \in DOMAIN f /\ d = f[k] /\ d.tag \in {"pending", "null", "empty"})
  <2>1. CASE k \in DOMAIN f
    BY <1>a, <2>1, Zenon DEF Settled
  <2>2. CASE k \notin DOMAIN f
    <3>1. bound(k).tag = "latest"
      BY <1>4, <1>a, <2>2, Zenon
    <3> QED
      BY <1>a, <3>1 DEF Settled
  <2> QED
    BY <2>1, <2>2, Zenon
<1> HIDE DEF f, bound, from, to, first, last, new, req, out, rest
<1>9. out.result \in Forwarded /\ \A e : Error(q, e).result \notin Forwarded
  BY Zenon DEF out, Error, Forwarded
<1>10. q.params # <<>> /\ from.err = "none" /\ to.err = "none" /\ out = rest
  <2>1. q.params # <<>>
    <3>1. ASSUME q.params = <<>> PROVE out.result = "panic"
      BY <1>1, <3>1, Zenon
    <3> QED
      BY <1>9, <3>1, Zenon DEF Forwarded
  <2>2. from.err = "none"
    <3>1. ASSUME from.err # "none" PROVE out = Error(q, from.err)
      BY <1>1, <2>1, <3>1, Zenon
    <3> QED
      BY <1>9, <3>1, Zenon
  <2>3. to.err = "none"
    <3>1. ASSUME to.err # "none" PROVE out = Error(q, to.err)
      BY <1>1, <2>1, <2>2, <3>1, Zenon
    <3> QED
      BY <1>9, <3>1, Zenon
  <2> QED
    BY <1>1, <2>1, <2>2, <2>3, Zenon
<1>11. /\ Resolved(c, from.block) /\ from.block \in Blocks /\ Settled(c, bound("fromBlock"), from.block)
       /\ ~from.rw => from.block = bound("fromBlock")
       /\ bound("fromBlock").tag = "latest" => from.rw
  BY <1>5, <1>10, BoundResolved, Zenon DEF from
<1>12. /\ Resolved(c, to.block) /\ to.block \in Blocks /\ Settled(c, bound("toBlock"), to.block)
       /\ ~to.rw => to.block = bound("toBlock")
       /\ bound("toBlock").tag = "latest" => to.rw
  BY <1>5, <1>10, BoundResolved, Zenon DEF to
<1>13. has /\ c.maxBlockRange > 0 =>
         first # -1 /\ last # -1 /\ ~RangeTooLarge(first, last, c.maxBlockRange)
  BY <1>9, <1>10, Zenon DEF rest
<1>14. out = IF from.rw \/ to.rw THEN Request(req) ELSE None(q)
  BY <1>9, <1>10, Zenon DEF rest
<1>15. has /\ c.maxBlockRange > 0 => first \in Nat /\ last \in first .. first + c.maxBlockRange
  <2> SUFFICES ASSUME has, c.maxBlockRange > 0
               PROVE first \in Nat /\ last \in first .. first + c.maxBlockRange
    BY Zenon
  <2>1. first # -1 /\ last # -1 /\ ~RangeTooLarge(first, last, c.maxBlockRange)
    BY <1>13, Zenon
  <2>2. first \in Nat /\ last \in Nat /\ first + c.maxBlockRange < Word /\ last + c.maxBlockRange < Word
    BY <1>11, <1>12, <2>1, BoundNumber, Zenon DEF first, last
  <2>3. c.maxBlockRange \in Nat
    BY Zenon DEF IsContext
  <2> QED
    BY <2>1, <2>2, <2>3, RangeWithinWord, Zenon
<1>16. CASE from.rw \/ to.rw
  <2>1. out.req = req
    <3>1. out = Request(req)
      BY <1>14, <1>16, Zenon
    <3> QED
      BY <3>1, Zenon DEF Request
  <2>2. req.method = q.method /\ req.params[1] = new
    BY <1>2, <1>10, Zenon DEF req
  <2>3. g = new
    BY <2>1, <2>2, Zenon DEF out
  <2>4. DOMAIN g = {"fromBlock", "toBlock"} /\ g["fromBlock"] = from.block /\ g["toBlock"] = to.block
    BY <2>3 DEF new
  <2>5. has
    <3> SUFFICES ASSUME ~has PROVE FALSE
      BY Zenon
    <3>1. from = Unrewritten(Named("null")) /\ to = Unrewritten(Named("null"))
      BY <1>4, <1>6, Zenon DEF from, to, rewriteTagMap
    <3> QED
      BY <1>16, <3>1, Zenon DEF Unrewritten
  <2> QED
    <3>1. Agreed(c, from.block) \/ ("fromBlock" \in DOMAIN f /\ from.block = f["fromBlock"] /\ from.block.tag \in {"pending", "null", "empty"})
      BY <1>11, <1>a, <2>5, Zenon
    <3>2. Agreed(c, to.block) \/ ("toBlock" \in DOMAIN f /\ to.block = f["toBlock"] /\ to.block.tag \in {"pending", "null", "empty"})
      BY <1>12, <1>a, <2>5, Zenon
    <3>3. \A k \in {"fromBlock", "toBlock"} :
            /\ k \in DOMAIN g
            /\ Agreed(c, g[k]) \/ (k \in DOMAIN f /\ g[k] = f[k] /\ g[k].tag \in {"pending", "null", "empty"})
      BY <2>4, <3>1, <3>2, Zenon
    <3>4. c.maxBlockRange > 0 =>
            LET from_ == blockNumber(c, g["fromBlock"])
                to_ == blockNumber(c, g["toBlock"])
            IN from_ \in Nat /\ to_ \in from_ .. from_ + c.maxBlockRange
      BY <1>15, <2>4, <2>5, Zenon DEF first, last
    <3> QED
      BY <2>1, <2>2, <3>3, <3>4, Zenon DEF out, f
<1>17. CASE ~(from.rw \/ to.rw)
  <2>1. out.req = q
    <3>1. out = None(q)
      BY <1>14, <1>17, Zenon
    <3> QED
      BY <3>1, Zenon DEF None
  <2>2. g = f
    BY <2>1, Zenon DEF out, f
  <2>3. has => DOMAIN f = {"fromBlock", "toBlock"}
    BY <1>3, <1>7, <1>10, <1>11, <1>12, <1>17, Zenon
  <2>4. has => f["fromBlock"] = from.block /\ f["toBlock"] = to.block
    BY <1>8, <1>11, <1>12, <1>17, <2>3, Zenon
  <2> QED
    <3>1. has => \A k \in {"fromBlock", "toBlock"} :
            Agreed(c, f[k]) \/ (k \in DOMAIN f /\ f[k] = f[k] /\ f[k].tag \in {"pending", "null", "empty"})
      BY <1>11, <1>12, <1>a, <2>4, Zenon
    <3>2. c.maxBlockRange > 0 /\ has =>
            LET from_ == blockNumber(c, f["fromBlock"])
                to_ == blockNumber(c, f["toBlock"])
            IN from_ \in Nat /\ to_ \in from_ .. from_ + c.maxBlockRange
      BY <1>15, <2>4, Zenon DEF first, last
    <3> QED
      BY <2>1, <2>2, <2>3, <3>1, <3>2, Zenon DEF out, f
<1> QED
  BY <1>16, <1>17, Zenon

-----------------------------------------------------------------------------
(* Lists of requests. *)

\* The methods that RewriteTags tells apart.
LEMMA ParamMethods ==
  "eth_blockNumber" \notin DOMAIN ParamOf /\ "eth_getLogs" \notin DOMAIN ParamOf
BY Zenon DEF ParamOf

\* A forwarded request, whatever its method, asks for blocks that are agreed on
\* or that it left open.
LEMMA CallResolved ==
  ASSUME NEW c, IsContext(c), NEW q, IsCall(q), RewriteTags(c, q).result \in Forwarded
  PROVE \A b \in AskedOf(RewriteTags(c, q).req) : Agreed(c, b) \/ Open(q, b)
<1>1. \A e : Error(q, e).result \notin Forwarded
  BY Zenon DEF Error, Forwarded
<1>2. CASE q.method = "eth_blockNumber"
  BY <1>2, ParamMethods, Zenon DEF RewriteTags, Forwarded
<1>3. CASE q.method = "eth_getLogs"
  <2>1. RewriteTags(c, q) = rewriteRange(c, q)
    BY <1>1, <1>3, ParamMethods, Zenon DEF RewriteTags
  <2>2. CASE DOMAIN q.params[1] = {}
    BY <1>3, <2>2, Zenon DEF Open
  <2>3. CASE DOMAIN q.params[1] # {}
    <3>1. PICK g : g = rewriteRange(c, q).req.params[1]
      BY Zenon
    <3>2. /\ rewriteRange(c, q).req.method = "eth_getLogs"
          /\ \A k \in {"fromBlock", "toBlock"} :
               /\ k \in DOMAIN g
               /\ Agreed(c, g[k])
                  \/ (k \in DOMAIN q.params[1] /\ g[k] = q.params[1][k] /\ g[k].tag \in {"pending", "null", "empty"})
      <4>1. rewriteRange(c, q).result \in Forwarded
        BY <2>1, Zenon
      <4> QED
        BY <1>3, <2>3, <3>1, <4>1, FilterForwarded
    <3>3. AskedOf(rewriteRange(c, q).req) = {g[k] : k \in {"fromBlock", "toBlock"}}
      <4>1. PICK r : r = rewriteRange(c, q).req
        BY Zenon
      <4>2. r.method = "eth_getLogs" /\ r.params[1] = g
        BY <3>1, <3>2, <4>1, Zenon
      <4>3. AskedOf(r) = {IF k \in DOMAIN r.params[1] THEN r.params[1][k] ELSE Named("latest") : k \in {"fromBlock", "toBlock"}}
        BY <4>2, ParamMethods, Zenon DEF AskedOf
      <4>4. AskedOf(r) = {IF k \in DOMAIN g THEN g[k] ELSE Named("latest") : k \in {"fromBlock", "toBlock"}}
        BY <4>2, <4>3, Zenon
      <4> HIDE DEF AskedOf
      <4>5. AskedOf(r) = {g[k] : k \in {"fromBlock", "toBlock"}}
        BY <3>2, <4>4
      <4> QED
        BY <4>1, <4>5, Zenon
    <3>4. AskedOf(q) = {IF k \in DOMAIN q.params[1] THEN q.params[1][k] ELSE Named("latest") : k \in {"fromBlock", "toBlock"}}
      BY <1>3, ParamMethods, Zenon DEF AskedOf
    <3>5. ASSUME NEW k \in {"fromBlock", "toBlock"}, k \in DOMAIN q.params[1] PROVE q.params[1][k] \in AskedOf(q)
      BY <3>4, <3>5, Zenon
    <3> QED
      BY <2>1, <3>2, <3>3, <3>5, Zenon DEF Open
  <2> QED
    BY <2>2, <2>3, Zenon
<1>4. CASE q.method \in DOMAIN ParamOf
  <2>1. q.method # "eth_blockNumber" /\ q.method # "eth_getLogs"
    BY <1>4, ParamMethods, Zenon
  <2>2. RewriteTags(c, q) = rewriteParam(c, q)
    BY <1>1, <1>4, <2>1, Zenon DEF RewriteTags
  <2> QED
    BY <1>4, <2>2, ParamResolved, Zenon
<1>5. CASE q.method \notin {"eth_blockNumber", "eth_getLogs"} \union DOMAIN ParamOf
  <2>1. RewriteTags(c, q).req = q
    BY <1>5, Zenon DEF RewriteTags, None
  <2> QED
    BY <1>5, <2>1, Zenon DEF AskedOf
<1> QED
  BY <1>2, <1>3, <1>4, <1>5, Zenon

\* No rewriting changes the method of a request.
LEMMA MethodKept ==
  ASSUME NEW c, NEW q, IsCall(q), RewriteTags(c, q).req.method = "eth_getLogs"
  PROVE q.method = "eth_getLogs"
<1>1. \A e : Error(q, e).req = q
  BY Zenon DEF Error
<1>2. None(q).req = q
  BY Zenon DEF None
<1>3. CASE q.method = "eth_blockNumber"
  BY <1>3, ParamMethods, Zenon DEF RewriteTags
<1>4. CASE q.method \in DOMAIN ParamOf
  <2>1. q.method # "eth_blockNumber" /\ q.method # "eth_getLogs"
    BY <1>4, ParamMethods, Zenon
  <2>2. RewriteTags(c, q) = IF q.isList THEN rewriteParam(c, q) ELSE Error(q, "parse")
    BY <1>4, <2>1, Zenon DEF RewriteTags
  <2>3. ASSUME NEW ps PROVE Request([q EXCEPT !.params = ps]).req.method = q.method
    BY Zenon DEF Request, IsCall
  <2>4. rewriteParam(c, q).req.method = q.method
    BY <1>1, <1>2, <2>3, Zenon DEF rewriteParam
  <2> QED
    BY <1>1, <2>2, <2>4, Zenon
<1>5. CASE q.method \notin {"eth_blockNumber", "eth_getLogs"} \union DOMAIN ParamOf
  BY <1>2, <1>5, Zenon DEF RewriteTags
<1> QED
  BY <1>3, <1>4, <1>5, Zenon

\* The step fills outs with what RewriteTags returns for each request.
LEMMA ListRewritten ==
  ASSUME RwNext
  PROVE /\ IsContext(rctx')
        /\ \A i \in DOMAIN outs' : IsCall(reqs'[i]) /\ outs'[i] = RewriteTags(rctx', reqs'[i])
<1>1. PICK c \in Contexts, l \in Lists : ForwardList(c, l)
  BY Zenon DEF RwNext
<1>2. rctx' = c /\ reqs' = l /\ outs' = [i \in DOMAIN l |-> RewriteTags(c, l[i])]
  BY <1>1, Zenon DEF ForwardList
<1> QED
  BY <1>2, RewriterAssumption, Zenon DEF IsContext

\* Whatever the client asks and whatever has been agreed, a request that is
\* forwarded asks for blocks that are agreed on, but for those that the client
\* left open: pending, null or empty, or a filter of logs without bounds
\* (RewriteTags and the functions it calls).
THEOREM ForwardedTagsResolved == RwSpec => []TagsResolved
<1>1. RwInit => TagsResolved
  BY DEF RwInit, TagsResolved
<1>2. TagsResolved /\ [RwNext]_rwVars => TagsResolved'
  <2> SUFFICES ASSUME TagsResolved, [RwNext]_rwVars PROVE TagsResolved'
    BY Zenon
  <2>1. CASE RwNext
    <3> SUFFICES ASSUME NEW i \in DOMAIN outs', outs'[i].result \in Forwarded,
                        NEW b \in AskedOf(outs'[i].req)
                 PROVE Agreed(rctx', b) \/ Open(reqs'[i], b)
      BY Zenon DEF TagsResolved
    <3>1. IsCall(reqs'[i]) /\ outs'[i] = RewriteTags(rctx', reqs'[i])
      BY <2>1, ListRewritten, Zenon
    <3>2. IsContext(rctx')
      BY <2>1, ListRewritten, Zenon
    <3> QED
      BY <3>1, <3>2, CallResolved, Zenon
  <2>2. CASE UNCHANGED rwVars
    <3>1. outs' = outs /\ reqs' = reqs /\ rctx' = rctx
      BY <2>2, Zenon DEF rwVars
    <3> SUFFICES ASSUME NEW i \in DOMAIN outs, outs[i].result \in Forwarded, NEW b \in AskedOf(outs[i].req)
                 PROVE Agreed(rctx, b) \/ Open(reqs[i], b)
      BY <3>1, Zenon DEF TagsResolved
    <3> QED
      BY Zenon DEF TagsResolved
  <2> QED
    BY <2>1, <2>2, Zenon
<1> QED
  BY <1>1, <1>2, PTL DEF RwSpec

\* Whatever the bounds of a filter, the range that is forwarded is no longer
\* than the maximum and not the wrong way round, although to - from is unsigned.
THEOREM ForwardedRangeBounded == RwSpec => []RangeBounded
<1>1. RwInit => RangeBounded
  BY DEF RwInit, RangeBounded
<1>2. RangeBounded /\ [RwNext]_rwVars => RangeBounded'
  <2> SUFFICES ASSUME RangeBounded, [RwNext]_rwVars PROVE RangeBounded'
    BY Zenon
  <2>1. CASE RwNext
    <3> SUFFICES ASSUME NEW i \in DOMAIN outs', outs'[i].result \in Forwarded,
                        outs'[i].req.method = "eth_getLogs", rctx'.maxBlockRange > 0,
                        DOMAIN outs'[i].req.params[1] # {}
                 PROVE LET f == outs'[i].req.params[1]
                           from == blockNumber(rctx', f["fromBlock"])
                           to == blockNumber(rctx', f["toBlock"])
                       IN from \in Nat /\ to \in from .. from + rctx'.maxBlockRange
      BY Zenon DEF RangeBounded
    <3>1. PICK q : IsCall(q) /\ outs'[i] = RewriteTags(rctx', q)
      BY <2>1, ListRewritten, Zenon
    <3>2. IsContext(rctx')
      BY <2>1, ListRewritten, Zenon
    <3>3. q.method = "eth_getLogs" /\ outs'[i] = rewriteRange(rctx', q)
      <4>1. q.method = "eth_getLogs"
        BY <3>1, MethodKept, Zenon
      <4>2. \A e : Error(q, e).result \notin Forwarded
        BY Zenon DEF Error, Forwarded
      <4> QED
        BY <3>1, <4>1, <4>2, ParamMethods, Zenon DEF RewriteTags
    <3> QED
      BY <3>1, <3>2, <3>3, FilterForwarded, Zenon
  <2>2. CASE UNCHANGED rwVars
    BY <2>2, Zenon DEF RangeBounded, rwVars
  <2> QED
    BY <2>1, <2>2, Zenon
<1> QED
  BY <1>1, <1>2, PTL DEF RwSpec

-----------------------------------------------------------------------------
(***************************************************************************)
(* Rewriter, OverrideResponses: the positions of the overridden requests   *)
(* ascend, and inserting the responses in that order restores the list.    *)
(***************************************************************************)

(* OverrideResponses. *)

\* s lists the numbers of S in order.
Ascends(s, S) ==
  /\ s \in Seq(Nat) /\ S \subseteq Nat
  /\ \A i, j \in 1 .. Len(s) : i < j => s[i] < s[j]
  /\ \A i \in 1 .. Len(s) : s[i] \in S
  /\ \A x \in S : \E i \in 1 .. Len(s) : s[i] = x

\* The list of a set that has all numbers up to p begins with them.
LEMMA BeginsWith ==
  ASSUME NEW s, NEW S, NEW p \in Nat, Ascends(s, S), 0 \notin S, 1 .. p \subseteq S
  PROVE p <= Len(s) /\ \A i \in 1 .. p : s[i] = i
<1> DEFINE T == {m \in Nat : m <= p => m <= Len(s) /\ \A i \in 1 .. m : s[i] = i}
<1>0. /\ Len(s) \in Nat /\ \A i \in 1 .. Len(s) : s[i] \in Nat /\ s[i] \in S
      /\ \A i, j \in 1 .. Len(s) : i < j => s[i] < s[j]
  BY DEF Ascends
<1>1. 0 \in T
  BY <1>0
<1>2. ASSUME NEW m \in Nat, m \in T PROVE m + 1 \in T
  <2> SUFFICES ASSUME m + 1 <= p PROVE m + 1 <= Len(s) /\ s[m + 1] = m + 1
    BY <1>2
  <2>1. m <= Len(s) /\ \A i \in 1 .. m : s[i] = i
    BY <1>2
  <2>2. PICK k \in 1 .. Len(s) : s[k] = m + 1
    <3>1. m + 1 \in S
      OBVIOUS
    <3> QED
      BY <3>1, Zenon DEF Ascends
  <2>3. k > m
    BY <2>1, <2>2
  <2>4. m + 1 \in 1 .. Len(s)
    BY <1>0, <2>2, <2>3
  <2>5. s[m + 1] > m
    <3>1. s[m + 1] \in Nat /\ s[m + 1] # 0
      BY <1>0, <2>4, Zenon
    <3>2. CASE m = 0
      BY <3>1, <3>2
    <3>3. CASE m # 0
      <4>1. m \in 1 .. Len(s) /\ m \in 1 .. m /\ m < m + 1
        BY <2>4, <3>3
      <4>2. s[m] = m /\ s[m] < s[m + 1]
        BY <1>0, <2>1, <2>4, <4>1, Zenon
      <4> QED
        BY <3>1, <4>2, Zenon
    <3> QED
      BY <3>2, <3>3, Zenon
  <2>6. CASE k = m + 1
    BY <1>0, <2>2, <2>4, <2>6
  <2>7. CASE k > m + 1
    <3>1. s[m + 1] < s[k] /\ s[m + 1] \in Nat
      BY <1>0, <2>2, <2>4, <2>7, Zenon
    <3> QED
      BY <2>2, <2>5, <3>1
  <2> QED
    BY <2>2, <2>3, <2>6, <2>7
<1>3. Nat \subseteq T
  <2> HIDE DEF T
  <2> QED
    BY <1>1, <1>2, Induct, Zenon
<1> QED
  BY <1>3

\* The list of the numbers up to n.
LEMMA ListOfAll ==
  ASSUME NEW s, NEW n \in Nat, Ascends(s, 1 .. n)
  PROVE s = [i \in 1 .. n |-> i]
<1> DEFINE S == 1 .. n
<1>0. Ascends(s, S) /\ 0 \notin S /\ 1 .. n \subseteq S
  OBVIOUS
<1>1. n <= Len(s) /\ \A i \in 1 .. n : s[i] = i
  <2> HIDE DEF S
  <2> QED
    BY <1>0, BeginsWith, Zenon
<1>2. s \in Seq(Nat) /\ Len(s) \in Nat /\ \A i \in 1 .. Len(s) : s[i] \in 1 .. n
  BY DEF Ascends
<1>3. Len(s) = n
  <2> SUFFICES ASSUME Len(s) > n PROVE FALSE
    BY <1>1, <1>2
  <2>1. n + 1 \in 1 .. Len(s) /\ s[n + 1] \in 1 .. n
    BY <1>2
  <2>2. s[s[n + 1]] = s[n + 1] /\ s[n + 1] \in 1 .. Len(s) /\ s[n + 1] < n + 1
    BY <1>1, <1>2, <2>1
  <2> QED
    BY <1>2, <2>1, <2>2 DEF Ascends
<1> QED
  BY <1>1, <1>2, <1>3

\* A number after all of a list is appended.
LEMMA ListAppend ==
  ASSUME NEW s, NEW S, NEW n \in Nat, Ascends(s, S), \A x \in S : x < n
  PROVE Ascends(Append(s, n), S \union {n})
<1> DEFINE t == Append(s, n)
<1>1. s \in Seq(Nat) /\ Len(s) \in Nat /\ t \in Seq(Nat) /\ Len(t) = Len(s) + 1
  BY DEF Ascends
<1>2. (\A i \in 1 .. Len(s) : t[i] = s[i]) /\ t[Len(s) + 1] = n
  BY <1>1
<1> HIDE DEF t
<1>3. ASSUME NEW i \in 1 .. Len(t), NEW j \in 1 .. Len(t), i < j PROVE t[i] < t[j]
  <2>1. i \in 1 .. Len(s) /\ t[i] = s[i] /\ s[i] \in S
    BY <1>1, <1>2, <1>3 DEF Ascends
  <2>2. CASE j = Len(s) + 1
    BY <1>2, <2>1, <2>2, Zenon
  <2>3. CASE j # Len(s) + 1
    <3>1. j \in 1 .. Len(s) /\ t[j] = s[j]
      BY <1>1, <1>2, <2>3
    <3> QED
      BY <1>3, <2>1, <3>1, Zenon DEF Ascends
  <2> QED
    BY <2>2, <2>3, Zenon
<1>4. \A i \in 1 .. Len(t) : t[i] \in S \union {n}
  BY <1>1, <1>2 DEF Ascends
<1>5. ASSUME NEW x \in S \union {n} PROVE \E i \in 1 .. Len(t) : t[i] = x
  BY <1>1, <1>2 DEF Ascends
<1> QED
  BY <1>1, <1>3, <1>4, <1>5, Zenon DEF Ascends, t

\* A number that is missing after all below it goes to its own place.
LEMMA ListInsert ==
  ASSUME NEW s, NEW S, NEW p \in Nat \ {0}, Ascends(s, S), 0 \notin S, 1 .. p - 1 \subseteq S, p \notin S
  PROVE Ascends(InsertedAt(s, p, p), S \union {p})
<1> DEFINE t == InsertedAt(s, p, p)
<1>0. /\ s \in Seq(Nat) /\ Len(s) \in Nat /\ \A i \in 1 .. Len(s) : s[i] \in Nat /\ s[i] \in S
      /\ \A i, j \in 1 .. Len(s) : i < j => s[i] < s[j]
  BY DEF Ascends
<1>1. p - 1 \in Nat /\ p - 1 <= Len(s) /\ \A i \in 1 .. p - 1 : s[i] = i
  <2>1. p - 1 \in Nat
    OBVIOUS
  <2> QED
    BY <2>1, BeginsWith, Zenon
<1>2. /\ t \in Seq(Nat) /\ Len(t) = Len(s) + 1
      /\ \A i \in 1 .. Len(t) : t[i] = IF i < p THEN s[i] ELSE IF i = p THEN p ELSE s[i - 1]
  <2> DEFINE a == SubSeq(s, 1, p - 1)
             b == SubSeq(s, p, Len(s))
  <2>0. PICK m : m = p - 1
    BY Zenon
  <2>1. a \in Seq(Nat) /\ Len(a) = p - 1 /\ \A i \in 1 .. p - 1 : a[i] = s[i]
    <3>1. m \in Nat /\ m <= Len(s) /\ a = SubSeq(s, 1, m)
      BY <1>1, <2>0, Zenon
    <3>2. a \in Seq(Nat) /\ Len(a) = m /\ \A i \in 1 .. m : a[i] = s[i]
      BY <1>0, <3>1
    <3> QED
      BY <2>0, <3>2, Zenon
  <2>2. b \in Seq(Nat) /\ Len(b) = Len(s) - p + 1 /\ \A i \in 1 .. Len(s) - p + 1 : b[i] = s[p + i - 1]
    BY <1>0, <1>1
  <2>3. t = a \o <<p>> \o b
    BY Zenon DEF InsertedAt
  <2> HIDE DEF a, b, t
  <2>4. /\ a \o <<p>> \in Seq(Nat) /\ Len(a \o <<p>>) = p
        /\ \A i \in 1 .. p : (a \o <<p>>)[i] = IF i < p THEN s[i] ELSE p
    BY <1>0, <1>1, <2>1
  <2>5. PICK c : c = a \o <<p>>
    BY Zenon
  <2>6. c \in Seq(Nat) /\ Len(c) = p /\ (\A i \in 1 .. p : c[i] = IF i < p THEN s[i] ELSE p) /\ t = c \o b
    BY <2>3, <2>4, <2>5, Zenon
  <2>7. t \in Seq(Nat) /\ Len(t) = p + (Len(s) - p + 1)
        /\ \A i \in 1 .. p + (Len(s) - p + 1) : t[i] = IF i <= p THEN c[i] ELSE b[i - p]
    <3>1. c \in Seq(Nat) /\ b \in Seq(Nat)
      BY <2>2, <2>6, Zenon
    <3>2. /\ c \o b \in Seq(Nat) /\ Len(c \o b) = Len(c) + Len(b)
          /\ \A i \in 1 .. Len(c) + Len(b) : (c \o b)[i] = IF i <= Len(c) THEN c[i] ELSE b[i - Len(c)]
      BY <3>1
    <3> QED
      BY <2>2, <2>6, <3>2, Zenon
  <2>8. Len(t) = Len(s) + 1
    BY <1>0, <2>7
  <2>9. ASSUME NEW i \in 1 .. Len(t) PROVE t[i] = IF i < p THEN s[i] ELSE IF i = p THEN p ELSE s[i - 1]
    <3>1. CASE i <= p
      BY <2>6, <2>7, <2>8, <3>1
    <3>2. CASE i > p
      <4>1. i - p \in 1 .. Len(s) - p + 1 /\ p + (i - p) - 1 = i - 1
        BY <1>0, <2>8, <3>2
      <4>2. t[i] = b[i - p] /\ b[i - p] = s[i - 1]
        BY <1>0, <2>2, <2>7, <2>8, <3>2, <4>1
      <4> QED
        BY <3>2, <4>2
    <3> QED
      BY <3>1, <3>2
  <2> QED
    BY <2>7, <2>8, <2>9, Zenon
<1> HIDE DEF t
<1>3. \A i \in 1 .. Len(s) : i >= p => s[i] > p
  <2> SUFFICES ASSUME NEW i \in 1 .. Len(s), i >= p PROVE s[i] > p
    BY Zenon
  <2>1. s[i] \in Nat /\ s[i] # p /\ s[i] # 0
    BY <1>0, Zenon
  <2>2. ASSUME s[i] < p PROVE FALSE
    <3>1. s[i] \in 1 .. p - 1 /\ s[i] \in 1 .. Len(s) /\ s[i] < i
      BY <1>0, <1>1, <2>1, <2>2
    <3>2. s[s[i]] = s[i] /\ s[s[i]] < s[i]
      BY <1>0, <1>1, <3>1, Zenon
    <3> QED
      BY <2>1, <3>2
  <2> QED
    BY <2>1, <2>2
<1>4. ASSUME NEW i \in 1 .. Len(t), NEW j \in 1 .. Len(t), i < j PROVE t[i] < t[j]
  <2>1. CASE j < p
    <3>1. t[i] = i /\ t[j] = j
      BY <1>1, <1>2, <1>4, <2>1
    <3> QED
      BY <1>4, <3>1, Zenon
  <2>2. CASE j = p
    <3>1. t[i] = i /\ t[j] = p
      <4>1. i \in 1 .. p - 1 /\ i < p
        BY <1>4, <2>2
      <4>2. t[i] = i
        BY <1>1, <1>2, <4>1, Zenon
      <4>3. t[j] = p
        BY <1>2, <2>2
      <4> QED
        BY <4>2, <4>3, Zenon
    <3> QED
      BY <1>4, <2>2, <3>1, Zenon
  <2>3. CASE j > p
    <3>1. t[j] = s[j - 1] /\ j - 1 \in 1 .. Len(s) /\ j - 1 >= p /\ s[j - 1] > p /\ s[j - 1] \in Nat
      <4>1. j - 1 \in 1 .. Len(s) /\ j - 1 >= p
        BY <1>0, <1>2, <2>3
      <4>2. t[j] = s[j - 1]
        BY <1>2, <2>3
      <4> QED
        BY <1>0, <1>3, <4>1, <4>2, Zenon
    <3>2. CASE i < p
      <4>1. t[i] = i
        <5>1. i \in 1 .. p - 1
          BY <3>2
        <5> QED
          BY <1>1, <1>2, <3>2, <5>1, Zenon
      <4> QED
        BY <3>1, <3>2, <4>1
    <3>3. CASE i = p
      BY <1>2, <3>1, <3>3
    <3>4. CASE i > p
      <4>1. t[i] = s[i - 1] /\ i - 1 \in 1 .. Len(s) /\ i - 1 < j - 1
        BY <1>0, <1>2, <1>4, <3>4
      <4> QED
        BY <1>0, <3>1, <4>1, Zenon
    <3> QED
      BY <3>2, <3>3, <3>4
  <2> QED
    BY <2>1, <2>2, <2>3
<1>5. \A i \in 1 .. Len(t) : t[i] \in S \union {p}
  <2> TAKE i \in 1 .. Len(t)
  <2>1. CASE i < p
    <3>1. i \in 1 .. Len(s) /\ t[i] = s[i]
      BY <1>1, <1>0, <1>2, <2>1
    <3> QED
      BY <1>0, <3>1, Zenon
  <2>2. CASE i = p
    BY <1>2, <2>2
  <2>3. CASE i > p
    <3>1. i - 1 \in 1 .. Len(s) /\ t[i] = s[i - 1]
      BY <1>0, <1>2, <2>3
    <3> QED
      BY <1>0, <3>1, Zenon
  <2> QED
    BY <2>1, <2>2, <2>3
<1>6. ASSUME NEW x \in S \union {p} PROVE \E i \in 1 .. Len(t) : t[i] = x
  <2>1. CASE x = p
    <3>1. p \in 1 .. Len(t) /\ t[p] = p
      BY <1>0, <1>1, <1>2
    <3> QED
      BY <2>1, <3>1, Zenon
  <2>2. CASE x \in S
    <3>1. PICK i \in 1 .. Len(s) : s[i] = x
      BY <2>2, Zenon DEF Ascends
    <3>2. CASE i < p
      <4>1. i \in 1 .. Len(t) /\ t[i] = x
        BY <1>0, <1>2, <3>1, <3>2
      <4> QED
        BY <4>1, Zenon
    <3>3. CASE i >= p
      <4>1. i + 1 \in 1 .. Len(t) /\ i + 1 > p /\ (i + 1) - 1 = i
        BY <1>0, <1>2, <3>3
      <4>2. t[i + 1] = x
        BY <1>2, <3>1, <4>1
      <4> QED
        BY <4>1, <4>2, Zenon
    <3> QED
      BY <3>2, <3>3
  <2> QED
    BY <2>1, <2>2, Zenon
<1>7. S \union {p} \subseteq Nat
  BY Zenon DEF Ascends
<1> QED
  BY <1>2, <1>4, <1>5, <1>6, <1>7, Zenon DEF Ascends, t

\* f holds the positions of the requests up to each one.
Collects(f, os, results, n) ==
  f = [k \in 0 .. n |->
         IF k = 0 THEN <<>> ELSE IF os[k].result \in results THEN Append(f[k - 1], k) ELSE f[k - 1]]

\* The positions can be collected.
LEMMA CollectsExists ==
  ASSUME NEW os, NEW results, NEW n \in Nat
  PROVE \E f : Collects(f, os, results, n)
<1> DEFINE T == {m \in Nat : \E f : Collects(f, os, results, m)}
<1>1. 0 \in T
  <2>1. Collects([k \in 0 .. 0 |-> <<>>], os, results, 0)
    BY DEF Collects
  <2> QED
    BY <2>1, Zenon
<1>2. ASSUME NEW m \in Nat, m \in T PROVE m + 1 \in T
  <2>1. PICK f : Collects(f, os, results, m)
    BY <1>2, Zenon
  <2> DEFINE g == [k \in 0 .. m + 1 |->
                     IF k = m + 1 THEN (IF os[m + 1].result \in results THEN Append(f[m], m + 1) ELSE f[m])
                     ELSE f[k]]
  <2>2. \A k \in 0 .. m : f[k] = IF k = 0 THEN <<>>
                                 ELSE IF os[k].result \in results THEN Append(f[k - 1], k) ELSE f[k - 1]
    BY <2>1, Zenon DEF Collects
  <2>3. \A k \in 0 .. m + 1 : g[k] = IF k = 0 THEN <<>>
                                     ELSE IF os[k].result \in results THEN Append(g[k - 1], k) ELSE g[k - 1]
    <3> TAKE k \in 0 .. m + 1
    <3>1. CASE k = m + 1
      <4>1. k - 1 = m /\ m \in 0 .. m + 1 /\ m # m + 1 /\ k # 0
        BY <3>1
      <4>2. g[m] = f[m]
        BY <4>1, Zenon
      <4>3. g[k] = IF os[k].result \in results THEN Append(f[m], k) ELSE f[m]
        BY <3>1, Zenon
      <4> HIDE DEF g
      <4> QED
        BY <4>1, <4>2, <4>3, Zenon
    <3>2. CASE k # m + 1 /\ k # 0
      <4>1. k \in 0 .. m /\ k - 1 \in 0 .. m /\ k - 1 # m + 1
        BY <3>2
      <4>2. g[k] = f[k] /\ g[k - 1] = f[k - 1]
        BY <3>2, <4>1
      <4> HIDE DEF g
      <4> QED
        BY <2>2, <3>2, <4>1, <4>2, Zenon
    <3>3. CASE k = 0
      BY <2>2, <3>3
    <3> QED
      BY <3>1, <3>2, <3>3, Zenon
  <2>4. g = [k \in 0 .. m + 1 |-> g[k]]
    BY Zenon
  <2> HIDE DEF g
  <2>5. Collects(g, os, results, m + 1)
    BY <2>3, <2>4, Zenon DEF Collects
  <2> QED
    BY <2>5
<1>3. Nat \subseteq T
  <2> HIDE DEF T
  <2> QED
    BY <1>1, <1>2, Induct, Zenon
<1> QED
  BY <1>3, Zenon

\* The positions are those of the requests with one of the results, in order.
LEMMA PositionsAscend ==
  ASSUME NEW os, Len(os) \in Nat, NEW results
  PROVE Ascends(Positions(os, results), {i \in 1 .. Len(os) : os[i].result \in results})
<1> DEFINE n == Len(os)
           f == CHOOSE f : Collects(f, os, results, n)
           S(m) == {i \in 1 .. m : os[i].result \in results}
           T == {m \in Nat : m <= n => Ascends(f[m], S(m))}
<1>1. Collects(f, os, results, n)
  BY CollectsExists, Zenon
<1>2. Positions(os, results) = f[n]
  BY Zenon DEF Positions, Collects
<1> HIDE DEF f
<1>3. \A k \in 0 .. n : f[k] = IF k = 0 THEN <<>>
                               ELSE IF os[k].result \in results THEN Append(f[k - 1], k) ELSE f[k - 1]
  BY <1>1, Zenon DEF Collects
<1>4. 0 \in T
  <2>1. f[0] = <<>> /\ S(0) = {}
    BY <1>3
  <2>2. Ascends(<<>>, {})
    BY DEF Ascends
  <2> QED
    BY <2>1, <2>2, Zenon
<1>5. ASSUME NEW m \in Nat, m \in T PROVE m + 1 \in T
  <2> SUFFICES ASSUME m + 1 <= n PROVE Ascends(f[m + 1], S(m + 1))
    OBVIOUS
  <2>1. Ascends(f[m], S(m)) /\ \A x \in S(m) : x < m + 1
    BY <1>5
  <2>2. f[m + 1] = IF os[m + 1].result \in results THEN Append(f[m], m + 1) ELSE f[m]
    <3>1. m + 1 \in 0 .. n /\ m + 1 # 0 /\ (m + 1) - 1 = m
      OBVIOUS
    <3> QED
      BY <1>3, <3>1, Zenon
  <2>3. CASE os[m + 1].result \in results
    <3>1. S(m + 1) = S(m) \union {m + 1}
      BY <2>3
    <3>2. f[m + 1] = Append(f[m], m + 1)
      BY <2>2, <2>3, Zenon
    <3>3. PICK U : U = S(m)
      BY Zenon
    <3>4. Ascends(Append(f[m], m + 1), U \union {m + 1})
      <4>1. Ascends(f[m], U) /\ m + 1 \in Nat /\ \A x \in U : x < m + 1
        BY <2>1, <3>3
      <4> HIDE DEF S
      <4> QED
        BY <4>1, ListAppend, Zenon
    <3> QED
      BY <3>1, <3>2, <3>3, <3>4, Zenon
  <2>4. CASE os[m + 1].result \notin results
    <3>1. S(m + 1) = S(m)
      BY <2>4
    <3>2. f[m + 1] = f[m]
      BY <2>2, <2>4, Zenon
    <3> QED
      BY <2>1, <3>1, <3>2, Zenon
  <2> QED
    BY <2>3, <2>4, Zenon
<1>6. Nat \subseteq T
  <2> HIDE DEF T
  <2> QED
    BY <1>4, <1>5, Induct, Zenon
<1> QED
  BY <1>2, <1>6

\* f holds the responses after each insertion.
Splices(f, res, ov, n) ==
  f = [k \in 0 .. n |->
         IF k = 0 THEN res
         ELSE IF f[k - 1] = <<>> THEN <<ov[k]>> ELSE InsertedAt(f[k - 1], ov[k], ov[k])]

\* The responses can be inserted.
LEMMA SplicesExists ==
  ASSUME NEW res, NEW ov, NEW n \in Nat
  PROVE \E f : Splices(f, res, ov, n)
<1> USE DEF InsertedAt
<1> DEFINE T == {m \in Nat : \E f : Splices(f, res, ov, m)}
<1>1. 0 \in T
  <2>1. Splices([k \in 0 .. 0 |-> res], res, ov, 0)
    BY DEF Splices
  <2> QED
    BY <2>1, Zenon
<1>2. ASSUME NEW m \in Nat, m \in T PROVE m + 1 \in T
  <2>1. PICK f : Splices(f, res, ov, m)
    BY <1>2, Zenon
  <2> DEFINE g == [k \in 0 .. m + 1 |->
                     IF k = m + 1
                       THEN (IF f[m] = <<>> THEN <<ov[m + 1]>> ELSE InsertedAt(f[m], ov[m + 1], ov[m + 1]))
                     ELSE f[k]]
  <2>2. \A k \in 0 .. m : f[k] = IF k = 0 THEN res
                                 ELSE IF f[k - 1] = <<>> THEN <<ov[k]>>
                                 ELSE InsertedAt(f[k - 1], ov[k], ov[k])
    BY <2>1, Zenon DEF Splices
  <2>3. \A k \in 0 .. m + 1 : g[k] = IF k = 0 THEN res
                                     ELSE IF g[k - 1] = <<>> THEN <<ov[k]>>
                                     ELSE InsertedAt(g[k - 1], ov[k], ov[k])
    <3> TAKE k \in 0 .. m + 1
    <3>1. CASE k = m + 1
      <4>1. k - 1 = m /\ m \in 0 .. m + 1 /\ m # m + 1 /\ k # 0
        BY <3>1
      <4>2. g[m] = f[m]
        BY <4>1, Zenon
      <4>3. g[k] = IF f[m] = <<>> THEN <<ov[k]>> ELSE InsertedAt(f[m], ov[k], ov[k])
        BY <3>1, Zenon
      <4> HIDE DEF g
      <4> QED
        BY <4>1, <4>2, <4>3, Zenon
    <3>2. CASE k # m + 1 /\ k # 0
      <4>1. k \in 0 .. m /\ k - 1 \in 0 .. m /\ k - 1 # m + 1
        BY <3>2
      <4>2. g[k] = f[k] /\ g[k - 1] = f[k - 1]
        BY <3>2, <4>1
      <4> HIDE DEF g
      <4> QED
        BY <2>2, <3>2, <4>1, <4>2, Zenon
    <3>3. CASE k = 0
      <4>1. g[0] = f[0]
        OBVIOUS
      <4>2. 0 \in 0 .. m
        OBVIOUS
      <4>3. f[0] = res
        BY <2>2, <4>2, Zenon
      <4> HIDE DEF g
      <4> QED
        BY <3>3, <4>1, <4>3, Zenon
    <3> QED
      BY <3>1, <3>2, <3>3, Zenon
  <2>4. g = [k \in 0 .. m + 1 |-> g[k]]
    BY Zenon
  <2> HIDE DEF g
  <2>5. Splices(g, res, ov, m + 1)
    BY <2>3, <2>4, Zenon DEF Splices
  <2> QED
    BY <2>5
<1>3. Nat \subseteq T
  <2> HIDE DEF T
  <2> QED
    BY <1>1, <1>2, Induct, Zenon
<1> QED
  BY <1>3, Zenon

\* Two lists that have all positions up to n between them.
Apportioned(n, A, B, res, ov) ==
  /\ n \in Nat /\ A \union B = 1 .. n /\ A \intersect B = {}
  /\ Ascends(res, A) /\ Ascends(ov, B)

\* Inserted one by one, in order, at their positions, the other positions of a
\* list come between those that are there.
LEMMA SpliceRestores ==
  ASSUME NEW n, NEW A, NEW B, NEW res, NEW ov, Apportioned(n, A, B, res, ov)
  PROVE Splice(res, ov) = [i \in 1 .. n |-> i]
<1> USE DEF Apportioned
<1> DEFINE l == Len(ov)
           f == CHOOSE f : Splices(f, res, ov, l)
           S(m) == A \union {ov[j] : j \in 1 .. m}
           T == {m \in Nat : m <= l => Ascends(f[m], S(m))}
<1>0. /\ l \in Nat /\ \A i \in 1 .. l : ov[i] \in Nat /\ ov[i] \in B
      /\ \A i, j \in 1 .. l : i < j => ov[i] < ov[j]
      /\ \A x \in B : \E i \in 1 .. l : ov[i] = x
  BY DEF Ascends
<1>1. Splices(f, res, ov, l)
  BY <1>0, SplicesExists, Zenon
<1>2. Splice(res, ov) = f[l]
  BY Zenon DEF Splice, Splices
<1> HIDE DEF f, l
<1>3. \A k \in 0 .. l : f[k] = IF k = 0 THEN res
                               ELSE IF f[k - 1] = <<>> THEN <<ov[k]>>
                               ELSE InsertedAt(f[k - 1], ov[k], ov[k])
  BY <1>1, Zenon DEF Splices
<1>4. 0 \in T
  <2>1. S(0) = A
    OBVIOUS
  <2>2. f[0] = res
    BY <1>0, <1>1 DEF Splices
  <2> QED
    BY <2>1, <2>2, Zenon
<1>5. ASSUME NEW m \in Nat, m \in T PROVE m + 1 \in T
  <2> SUFFICES ASSUME m + 1 <= l PROVE Ascends(f[m + 1], S(m + 1))
    OBVIOUS
  <2>1. PICK s, U, p : s = f[m] /\ U = S(m) /\ p = ov[m + 1]
    BY Zenon
  <2>2. Ascends(s, U)
    <3>1. m <= l
      BY <1>0
    <3>2. m <= l => Ascends(f[m], S(m))
      BY <1>5, Zenon
    <3> QED
      BY <2>1, <3>1, <3>2, Zenon
  <2>3. m + 1 \in 1 .. l /\ \A j \in 1 .. m : j \in 1 .. l
    BY <1>0
  <2>4. p \in B /\ p \in 1 .. n /\ p \in Nat \ {0}
    BY <1>0, <2>1, <2>3
  <2>5. S(m + 1) = U \union {p}
    <3>1. {ov[j] : j \in 1 .. m + 1} = {ov[j] : j \in 1 .. m} \union {ov[m + 1]}
      OBVIOUS
    <3> QED
      BY <2>1, <3>1, Zenon
  <2>6. 0 \notin U /\ p \notin U
    <3>1. A \subseteq 1 .. n /\ B \subseteq 1 .. n
      BY Zenon
    <3>2. \A j \in 1 .. m : ov[j] # 0 /\ ov[j] # p
      BY <1>0, <2>1, <2>3, <3>1
    <3> QED
      BY <2>1, <2>4, <3>1, <3>2
  <2>7. 1 .. p - 1 \subseteq U
    <3> SUFFICES ASSUME NEW x \in 1 .. p - 1, x \notin A PROVE \E j \in 1 .. m : ov[j] = x
      BY <2>1, Zenon
    <3>1. x \in B
      BY <2>4
    <3>2. PICK j \in 1 .. l : ov[j] = x
      BY <1>0, <3>1, Zenon
    <3>3. ~ (m + 1 < j) /\ j # m + 1
      BY <1>0, <2>1, <2>3, <2>4, <3>2
    <3> QED
      BY <1>0, <3>2, <3>3
  <2>8. CASE s = <<>>
    <3>1. U = {}
      BY <2>2, <2>8 DEF Ascends
    <3>2. f[m + 1] = <<p>>
      <4>1. m + 1 \in 0 .. l /\ m + 1 # 0 /\ (m + 1) - 1 = m
        BY <1>0
      <4> QED
        BY <1>3, <2>1, <2>8, <4>1, Zenon
    <3>3. Ascends(<<p>>, {p})
      BY <2>4 DEF Ascends
    <3>4. S(m + 1) = {p}
      BY <2>5, <3>1, Zenon
    <3> QED
      BY <3>2, <3>3, <3>4, Zenon
  <2>9. CASE s # <<>>
    <3>1. f[m + 1] = InsertedAt(s, p, p)
      <4>1. m + 1 \in 0 .. l /\ m + 1 # 0 /\ (m + 1) - 1 = m
        BY <1>0
      <4> QED
        BY <1>3, <2>1, <2>9, <4>1, Zenon
    <3>2. Ascends(InsertedAt(s, p, p), U \union {p})
      BY <2>2, <2>4, <2>6, <2>7, ListInsert, Zenon
    <3> QED
      BY <2>5, <3>1, <3>2, Zenon
  <2> QED
    BY <2>8, <2>9, Zenon
<1>6. Nat \subseteq T
  <2> HIDE DEF T
  <2> QED
    BY <1>4, <1>5, Induct, Zenon
<1>7. S(l) = 1 .. n
  <2>1. {ov[j] : j \in 1 .. l} = B
    BY <1>0, Zenon
  <2> QED
    BY <2>1, Zenon
<1>8. Ascends(f[l], 1 .. n)
  <2>1. Ascends(f[l], S(l))
    <3>1. l <= l
      BY <1>0
    <3>2. l <= l => Ascends(f[l], S(l))
      BY <1>0, <1>6, Zenon
    <3> QED
      BY <3>1, <3>2, Zenon
  <2> QED
    BY <1>7, <2>1, Zenon
<1> QED
  BY <1>2, <1>8, ListOfAll, Zenon

\* Every request is forwarded or overridden, unless it panics.
LEMMA ResultKinds ==
  ASSUME NEW c, NEW q, RewriteTags(c, q).result # "panic"
  PROVE RewriteTags(c, q).result \in Forwarded \union Overridden
<1>1. \A e : Error(q, e).result \in Forwarded \union Overridden
  BY Zenon DEF Error, Overridden
<1>2. None(q).result \in Forwarded \union Overridden
  BY Zenon DEF None, Forwarded
<1>3. \A p : Request(p).result \in Forwarded \union Overridden
  BY Zenon DEF Request, Forwarded
<1>4. CASE q.method = "eth_blockNumber"
  BY <1>4, ParamMethods, Zenon DEF RewriteTags, Overridden
<1>5. CASE q.method = "eth_getLogs"
  <2>1. RewriteTags(c, q) = IF q.isList THEN rewriteRange(c, q) ELSE Error(q, "parse")
    BY <1>5, ParamMethods, Zenon DEF RewriteTags
  <2>2. CASE q.isList
    <3>1. RewriteTags(c, q) = rewriteRange(c, q)
      BY <2>1, <2>2, Zenon
    <3>2. \/ rewriteRange(c, q).result = "panic"
          \/ rewriteRange(c, q).result \in Forwarded \union Overridden
      BY <1>1, <1>2, <1>3, Zenon DEF rewriteRange
    <3> QED
      BY <3>1, <3>2, Zenon
  <2>3. CASE ~q.isList
    BY <1>1, <2>1, <2>3, Zenon
  <2> QED
    BY <2>2, <2>3, Zenon
<1>6. CASE q.method \in DOMAIN ParamOf
  <2>1. RewriteTags(c, q) = IF q.isList THEN rewriteParam(c, q) ELSE Error(q, "parse")
    BY <1>6, ParamMethods, Zenon DEF RewriteTags
  <2>2. CASE q.isList
    <3>1. RewriteTags(c, q) = rewriteParam(c, q)
      BY <2>1, <2>2, Zenon
    <3>2. rewriteParam(c, q).result \in Forwarded \union Overridden
      BY <1>1, <1>2, <1>3, Zenon DEF rewriteParam
    <3> QED
      BY <3>1, <3>2, Zenon
  <2>3. CASE ~q.isList
    BY <1>1, <2>1, <2>3, Zenon
  <2> QED
    BY <2>2, <2>3, Zenon
<1>7. CASE q.method \notin DOMAIN ParamOf \union {"eth_blockNumber", "eth_getLogs"}
  BY <1>2, <1>7, Zenon DEF RewriteTags
<1> QED
  BY <1>4, <1>5, <1>6, <1>7, Zenon

\* The answers given without a backend are put back among the others in their
\* places, whatever the requests and however many of them are overridden.
THEOREM SplicedInPlaceHolds == RwSpec => []SplicedInPlace
<1>1. RwInit => SplicedInPlace
  <2> SUFFICES ASSUME RwInit PROVE answered = [i \in DOMAIN reqs |-> i]
    BY Zenon DEF SplicedInPlace
  <2>1. reqs = <<>> /\ answered = <<>>
    BY Zenon DEF RwInit
  <2> QED
    BY <2>1
<1>2. SplicedInPlace /\ [RwNext]_rwVars => SplicedInPlace'
  <2> SUFFICES ASSUME SplicedInPlace, [RwNext]_rwVars PROVE SplicedInPlace'
    BY Zenon
  <2>1. CASE RwNext
    <3>1. PICK c \in Contexts, l \in Lists : ForwardList(c, l)
      BY <2>1, Zenon DEF RwNext
    <3>2. PICK os : os = outs'
      BY Zenon
    <3>3. /\ reqs' = l /\ os = [i \in DOMAIN l |-> RewriteTags(c, l[i])]
          /\ answered' = IF \E i \in DOMAIN l : os[i].result = "panic" THEN <<>>
                         ELSE Splice(Positions(os, Forwarded), Positions(os, Overridden))
      BY <3>1, <3>2, Zenon DEF ForwardList
    <3> SUFFICES ASSUME \A i \in DOMAIN os : os[i].result # "panic"
                 PROVE answered' = [i \in DOMAIN l |-> i]
      BY <3>2, <3>3, Zenon DEF SplicedInPlace
    <3>4. l \in Seq({l[i] : i \in DOMAIN l})
      BY RewriterAssumption, Zenon
    <3>5. PICK n : n = Len(l)
      BY Zenon
    <3>6. n \in Nat /\ DOMAIN l = 1 .. n
      BY <3>4, <3>5
    <3>7. DOMAIN os = 1 .. n /\ \A i \in 1 .. n : os[i] = RewriteTags(c, l[i])
      BY <3>3, <3>6, Zenon
    <3>9. Len(os) = n
      <4>1. PICK f : f = os
        BY Zenon
      <4>2. n \in Nat /\ DOMAIN f = 1 .. n
        BY <3>6, <3>7, <4>1, Zenon
      <4>3. Len(f) = n
        BY <4>2
      <4> QED
        BY <4>1, <4>3, Zenon
    <3> DEFINE A == {i \in 1 .. n : os[i].result \in Forwarded}
               B == {i \in 1 .. n : os[i].result \in Overridden}
    <3>10. A \union B = 1 .. n
      <4>1. \A i \in 1 .. n : os[i].result \in Forwarded \union Overridden
        BY <3>7, ResultKinds, Zenon
      <4> QED
        BY <4>1, Zenon
    <3>11. A \intersect B = {}
      BY Zenon DEF Forwarded, Overridden
    <3>12. PICK res, ov : res = Positions(os, Forwarded) /\ ov = Positions(os, Overridden)
      BY Zenon
    <3>13. Ascends(res, A) /\ Ascends(ov, B)
      BY <3>6, <3>9, <3>12, PositionsAscend, Zenon
    <3>14. answered' = Splice(res, ov)
      BY <3>3, <3>6, <3>7, <3>12, Zenon
    <3> HIDE DEF A, B
    <3>15. Apportioned(n, A, B, res, ov)
      BY <3>6, <3>10, <3>11, <3>13, Zenon DEF Apportioned
    <3>16. Splice(res, ov) = [i \in 1 .. n |-> i]
      BY <3>15, SpliceRestores
    <3> QED
      BY <3>6, <3>14, <3>16, Zenon
  <2>2. CASE UNCHANGED rwVars
    BY <2>2, Zenon DEF SplicedInPlace, rwVars
  <2> QED
    BY <2>1, <2>2, Zenon
<1> QED
  BY <1>1, <1>2, PTL DEF RwSpec

-----------------------------------------------------------------------------
(***************************************************************************)
(* That memory grants no more than the limit, for every limit, window and  *)
(* number of callers.  MemoryWithinLimit speaks of windows, the code       *)
(* counts in generations: the inductive invariant says that generations    *)
(* come in the order of their windows, none of them ahead of the clock, so *)
(* that a window has one generation, and that what was granted in a window *)
(* was counted in its generation.                                          *)
(***************************************************************************)

Generations == [ts : Stamps, used : [LimitKeys -> Nat]]
Taking == [pc : {"idle", "redis", "memory", "count"}, key : LimitKeys, ts : Stamps, at : Stamps, gen : Nat]

\* A window has one generation.
OneGeneration ==
  /\ \A i, j \in 1 .. Len(gens) : i < j => gens[i].ts < gens[j].ts
  /\ \A i \in 1 .. Len(gens) : gens[i].ts <= truncateNow(rlNow)

\* What memory granted was counted.
GrantsCounted ==
  /\ \A i \in 1 .. Len(gens), k \in LimitKeys : byMemory[gens[i].ts][k] <= gens[i].used[k]
  /\ \A ts \in Stamps, k \in LimitKeys :
       byMemory[ts][k] > 0 => \E i \in 1 .. Len(gens) : gens[i].ts = ts

RlInv == RlTypeOK /\ OneGeneration /\ GrantsCounted /\ MemoryWithinLimit

-----------------------------------------------------------------------------
(* Arithmetic. *)

\* truncateNow gives a time, no later than now.
LEMMA WindowBegins ==
  ASSUME NEW n \in Stamps
  PROVE truncateNow(n) \in Stamps
<1> DEFINE w == n \div LimitDur
<1>1. n \in Nat /\ LimitDur \in Nat \ {0} /\ Second \in Nat \ {0} /\ LimiterTime \in Nat
  BY LimiterAssumption DEF Stamps
<1>2. w \in Nat /\ LimitDur * w <= n
  BY <1>1, DivBounds, Zenon
<1> HIDE DEF w
<1>3. w * LimitDur \in Nat /\ w * LimitDur <= n
  BY <1>1, <1>2
<1> DEFINE s == w * LimitDur
           v == s \div Second
<1>4. s \in Nat /\ s <= n
  BY <1>3, Zenon
<1> HIDE DEF s
<1>5. v \in Nat /\ Second * v <= s
  BY <1>1, <1>4, DivBounds, Zenon
<1> HIDE DEF v
<1>6. v <= Second * v
  <2>1. v * 1 <= v * Second
    BY <1>1, <1>5, TimesMonotone
  <2> QED
    BY <1>1, <1>5, <2>1
<1>7. v \in Stamps
  BY <1>1, <1>4, <1>5, <1>6 DEF Stamps
<1> QED
  BY <1>7, Zenon DEF truncateNow, v, s, w

\* The window of a later time starts no earlier.
LEMMA WindowsInOrder ==
  ASSUME NEW n \in Nat, NEW m \in Nat, n <= m
  PROVE truncateNow(n) <= truncateNow(m)
<1> DEFINE p == n \div LimitDur
           q == m \div LimitDur
<1>1. LimitDur \in Nat \ {0} /\ Second \in Nat \ {0}
  BY LimiterAssumption
<1>2. p \in Nat /\ q \in Nat /\ p <= q
  BY <1>1, DivBounds, DivMonotone, Zenon
<1> HIDE DEF p, q
<1>3. LimitDur * p <= LimitDur * q
  BY <1>1, <1>2, TimesMonotone
<1>4. p * LimitDur \in Nat /\ q * LimitDur \in Nat /\ p * LimitDur <= q * LimitDur
  BY <1>1, <1>2, <1>3
<1>5. (p * LimitDur) \div Second <= (q * LimitDur) \div Second
  BY <1>1, <1>4, DivMonotone, Zenon
<1> QED
  BY <1>5, Zenon DEF truncateNow, p, q

-----------------------------------------------------------------------------
(* The steps. *)

\* The limiter starts with no generation and no grant.
LEMMA RlInitially == RlInit => RlInv
<1> SUFFICES ASSUME RlInit PROVE RlInv
  BY Zenon
<1>1. 0 \in Stamps /\ NoTake \in Taking
  BY LimiterAssumption DEF Stamps, NoTake, Taking
<1>2. RlTypeOK
  <2>1. gens \in Seq(Generations) /\ rlNow \in Stamps /\ takes \in 0 .. MaxTakes
    BY <1>1, LimiterAssumption DEF RlInit
  <2>2. taker \in [Takers -> Taking] /\ \A t \in Takers : taker[t].pc # "count"
    BY <1>1, Zenon DEF RlInit, NoTake
  <2>3. /\ rdb \in [Stamps -> [LimitKeys -> [val : Nat, expires : Nat]]]
        /\ byRedis \in [Stamps -> [LimitKeys -> Nat]] /\ byMemory \in [Stamps -> [LimitKeys -> Nat]]
    BY Zenon DEF RlInit, NoGrants
  <2> QED
    BY <2>1, <2>2, <2>3, Zenon DEF RlTypeOK, Generations, Taking
<1>3. OneGeneration
  BY DEF RlInit, OneGeneration
<1>4. GrantsCounted /\ MemoryWithinLimit
  BY LimiterAssumption DEF RlInit, GrantsCounted, MemoryWithinLimit, NoGrants
<1> QED
  BY <1>2, <1>3, <1>4, Zenon DEF RlInv

\* What the steps use of the type invariant.
LEMMA RlTypes ==
  ASSUME RlTypeOK
  PROVE /\ rlNow \in Nat /\ gens \in Seq(Generations) /\ Len(gens) \in Nat
        /\ \A i \in 1 .. Len(gens) : /\ gens[i].ts \in Stamps /\ gens[i].ts \in Nat
                                     /\ gens[i].used \in [LimitKeys -> Nat]
        /\ truncateNow(rlNow) \in Stamps /\ truncateNow(rlNow) \in Nat
<1>1. gens \in Seq(Generations) /\ rlNow \in Stamps
  BY Zenon DEF RlTypeOK, Generations
<1>2. \A n \in Stamps : n \in Nat
  BY LimiterAssumption DEF Stamps
<1>3. Len(gens) \in Nat /\ \A i \in 1 .. Len(gens) : gens[i] \in Generations
  BY <1>1
<1>4. \A i \in 1 .. Len(gens) : gens[i].ts \in Stamps /\ gens[i].used \in [LimitKeys -> Nat]
  BY <1>3, Zenon DEF Generations
<1>5. truncateNow(rlNow) \in Stamps
  BY <1>1, WindowBegins, Zenon
<1> QED
  BY <1>1, <1>2, <1>3, <1>4, <1>5, Zenon

\* The steps that neither count in memory nor reset a generation.
LEMMA RlMemoryUnchanged ==
  ASSUME RlInv, RlTypeOK', UNCHANGED <<gens, byMemory>>, rlNow' = rlNow \/ rlNow' = rlNow + 1
  PROVE RlInv'
<1>1. /\ rlNow \in Nat /\ truncateNow(rlNow) \in Nat
      /\ \A i \in 1 .. Len(gens) : gens[i].ts \in Nat
  BY RlTypes, Zenon DEF RlInv
<1>2. rlNow' \in Nat /\ rlNow <= rlNow'
  BY <1>1
<1>3. truncateNow(rlNow') \in Nat
  BY WindowBegins, LimiterAssumption DEF RlTypeOK, Stamps
<1>4. truncateNow(rlNow) <= truncateNow(rlNow')
  BY <1>1, <1>2, WindowsInOrder, Zenon
<1>5. OneGeneration'
  <2>1. ASSUME NEW i \in 1 .. Len(gens) PROVE gens[i].ts <= truncateNow(rlNow')
    <3>1. gens[i].ts <= truncateNow(rlNow)
      BY Zenon DEF RlInv, OneGeneration
    <3> QED
      BY <1>1, <1>3, <1>4, <3>1
  <2> QED
    BY <2>1, Zenon DEF RlInv, OneGeneration
<1>6. GrantsCounted' /\ MemoryWithinLimit'
  BY Zenon DEF RlInv, GrantsCounted, MemoryWithinLimit
<1> QED
  BY <1>5, <1>6, Zenon DEF RlInv

\* INCR and PEXPIRE keep the type of Redis.
LEMMA IncrType ==
  ASSUME RlTypeOK, NEW t \in Takers, Incr(t)
  PROVE rdb' \in [Stamps -> [LimitKeys -> [val : Nat, expires : Nat]]]
<1> DEFINE v == [val |-> Value(taker[t].ts, taker[t].key) + 1, expires |-> rlNow + Lifetime]
<1>1. taker[t].ts \in Stamps /\ taker[t].key \in LimitKeys
  BY Zenon DEF RlTypeOK
<1>2. v \in [val : Nat, expires : Nat]
  <2>1. rdb[taker[t].ts][taker[t].key].val \in Nat
    BY <1>1 DEF RlTypeOK
  <2>2. rlNow + Lifetime \in Nat
    BY LimiterAssumption DEF RlTypeOK, Stamps, Lifetime
  <2> QED
    BY <2>1, <2>2 DEF Value
<1> HIDE DEF v
<1>3. rdb' = [rdb EXCEPT ![taker[t].ts][taker[t].key] = v]
  BY Zenon DEF Incr, v
<1> QED
  BY <1>1, <1>2, <1>3, Zenon DEF RlTypeOK

\* A Take begins.
LEMMA RlTakeStep ==
  ASSUME RlInv, NEW t \in Takers, NEW k \in LimitKeys, Take(t, k)
  PROVE RlInv'
<1>1. truncateNow(rlNow) \in Stamps
  BY WindowBegins, Zenon DEF RlInv, RlTypeOK
<1>2. taker' \in [Takers -> Taking] /\ \A u \in Takers : taker'[u].pc = "count" => taker'[u] = taker[u]
  BY <1>1, Zenon DEF RlInv, RlTypeOK, Take, Taking
<1>3. takes' \in 0 .. MaxTakes
  BY LimiterAssumption DEF RlInv, RlTypeOK, Take
<1>4. RlTypeOK'
  BY <1>2, <1>3, Zenon DEF RlInv, RlTypeOK, Take, Taking
<1> QED
  BY <1>4, RlMemoryUnchanged, Zenon DEF Take

\* Redis answers.
LEMMA RlRedisStep ==
  ASSUME RlInv, NEW t \in Takers, RedisTake(t)
  PROVE RlInv'
<1>1. 0 \in Stamps /\ NoTake \in Taking
  BY LimiterAssumption DEF Stamps, NoTake, Taking
<1>2. taker' \in [Takers -> Taking] /\ \A u \in Takers : taker'[u].pc = "count" => taker[u].pc = "count" /\ taker'[u] = taker[u]
  BY <1>1, Zenon DEF RlInv, RlTypeOK, RedisTake, Taking, NoTake
<1>3. byRedis' \in [Stamps -> [LimitKeys -> Nat]]
  <2>1. /\ byRedis \in [Stamps -> [LimitKeys -> Nat]]
        /\ taker[t].ts \in Stamps /\ taker[t].key \in LimitKeys
    BY Zenon DEF RlInv, RlTypeOK
  <2>2. \/ byRedis' = byRedis
        \/ byRedis' = [byRedis EXCEPT ![taker[t].ts][taker[t].key] = @ + 1]
    BY Zenon DEF RedisTake
  <2> QED
    BY <2>1, <2>2
<1>4. rdb' \in [Stamps -> [LimitKeys -> [val : Nat, expires : Nat]]]
  BY IncrType, Zenon DEF RlInv, RedisTake
<1>5. RlTypeOK'
  BY <1>2, <1>3, <1>4, Zenon DEF RlInv, RlTypeOK, RedisTake, Taking
<1> QED
  BY <1>5, RlMemoryUnchanged, Zenon DEF RedisTake

\* Redis fails.
LEMMA RlRedisFails ==
  ASSUME RlInv, NEW t \in Takers, RedisFails(t)
  PROVE RlInv'
<1>1. rdb' \in [Stamps -> [LimitKeys -> [val : Nat, expires : Nat]]]
  BY IncrType, Zenon DEF RlInv, RlTypeOK, RedisFails
<1>2. RlTypeOK'
  BY <1>1, Zenon DEF RlInv, RlTypeOK, RedisFails
<1> QED
  BY <1>2, RlMemoryUnchanged, Zenon DEF RedisFails

\* A generation is pulled out, a new one if the last is another window's: as
\* that window is over, it has none yet, and nothing was granted in it.
LEMMA RlMemoryTake ==
  ASSUME RlInv, NEW t \in Takers, MemoryTake(t)
  PROVE RlInv'
<1> DEFINE now == truncateNow(rlNow)
           fresh == [ts |-> now, used |-> [k \in LimitKeys |-> 0]]
<1>1. /\ RlTypeOK /\ rlNow \in Nat /\ gens \in Seq(Generations) /\ Len(gens) \in Nat
      /\ \A i \in 1 .. Len(gens) : gens[i].ts \in Stamps /\ gens[i].ts \in Nat
      /\ now \in Stamps /\ now \in Nat
  BY RlTypes, Zenon DEF RlInv
<1>2. /\ UNCHANGED <<rlNow, rdb, takes, byRedis, byMemory>>
      /\ gens' = Current(now)
      /\ taker' = [taker EXCEPT ![t].pc = "count", ![t].gen = Len(gens')]
  BY Zenon DEF MemoryTake
<1>3. CASE gens' = gens /\ gens # <<>>
  <2>1. RlTypeOK'
    <3>1. Len(gens') \in 1 .. Len(gens')
      BY <1>1, <1>3
    <3>2. /\ taker' \in [Takers -> Taking]
          /\ \A u \in Takers : taker'[u].pc = "count" => taker'[u].gen \in 1 .. Len(gens')
      BY <1>1, <1>2, <1>3, <3>1, Zenon DEF RlTypeOK, Taking
    <3> QED
      BY <1>1, <1>2, <1>3, <3>2, Zenon DEF RlTypeOK, Taking
  <2> QED
    BY <1>2, <1>3, <2>1, RlMemoryUnchanged, Zenon
<1>4. CASE gens' = Append(gens, fresh) /\ (gens # <<>> => gens[Len(gens)].ts # now)
  <2>1. fresh \in Generations
    BY <1>1, Zenon DEF Generations
  <2> HIDE DEF fresh, now
  <2>2. /\ Len(gens') = Len(gens) + 1 /\ gens'[Len(gens) + 1] = fresh
        /\ gens' \in Seq(Generations)
        /\ \A i \in 1 .. Len(gens) : gens'[i] = gens[i]
    BY <1>1, <1>4, <2>1
  <2>3. fresh.ts = now /\ \A k \in LimitKeys : fresh.used[k] = 0
    BY Zenon DEF fresh
  <2>4. \A i \in 1 .. Len(gens) : gens[i].ts < now
    <3> SUFFICES ASSUME NEW i \in 1 .. Len(gens) PROVE gens[i].ts < now
      BY Zenon
    <3>1. gens # <<>> /\ Len(gens) \in 1 .. Len(gens)
      BY <1>1
    <3>2. gens[Len(gens)].ts < now
      BY <1>1, <1>4, <3>1 DEF RlInv, OneGeneration, now
    <3>3. i = Len(gens) \/ i < Len(gens)
      BY <1>1
    <3>4. i < Len(gens) => gens[i].ts < gens[Len(gens)].ts
      BY <3>1, Zenon DEF RlInv, OneGeneration
    <3> QED
      BY <1>1, <3>1, <3>2, <3>3, <3>4
  <2>5. \A k \in LimitKeys : byMemory[now][k] = 0
    <3> SUFFICES ASSUME NEW k \in LimitKeys PROVE byMemory[now][k] = 0
      BY Zenon
    <3>1. byMemory[now][k] \in Nat
      BY <1>1, Zenon DEF RlTypeOK
    <3>2. ~(byMemory[now][k] > 0)
      BY <1>1, <2>4 DEF RlInv, GrantsCounted
    <3> QED
      BY <3>1, <3>2
  <2>6. RlTypeOK'
    <3>1. \A n \in 1 .. Len(gens) : n \in 1 .. Len(gens')
      BY <1>1, <2>2
    <3>2. Len(gens') \in Nat /\ Len(gens') \in 1 .. Len(gens')
      BY <1>1, <2>2
    <3>3. /\ taker' \in [Takers -> Taking]
          /\ \A u \in Takers : taker'[u].pc = "count" => taker'[u].gen \in 1 .. Len(gens')
      <4>1. taker \in [Takers -> Taking]
        BY <1>1, Zenon DEF RlTypeOK, Taking
      <4>2. taker' = [taker EXCEPT ![t] = [taker[t] EXCEPT !.pc = "count", !.gen = Len(gens')]]
        BY <1>2, Zenon
      <4>3. [taker[t] EXCEPT !.pc = "count", !.gen = Len(gens')] \in Taking
        BY <3>2, <4>1, Zenon DEF Taking
      <4>4. taker' \in [Takers -> Taking]
        BY <4>1, <4>2, <4>3, Zenon
      <4>5. taker'[t].gen = Len(gens')
        BY <4>1, <4>2, Zenon DEF Taking
      <4>6. \A u \in Takers : u # t => taker'[u] = taker[u]
        BY <4>1, <4>2, Zenon
      <4>7. \A u \in Takers : taker[u].pc = "count" => taker[u].gen \in 1 .. Len(gens)
        BY <1>1, Zenon DEF RlTypeOK
      <4> QED
        BY <3>1, <3>2, <4>4, <4>5, <4>6, <4>7, Zenon
    <3> QED
      BY <1>1, <1>2, <2>2, <3>3, Zenon DEF RlTypeOK, Taking, Generations
  <2>7. \A i \in 1 .. Len(gens') : i = Len(gens) + 1 \/ i \in 1 .. Len(gens)
    BY <1>1, <2>2
  <2>8. OneGeneration'
    <3>1. ASSUME NEW i \in 1 .. Len(gens'), NEW j \in 1 .. Len(gens'), i < j
          PROVE gens'[i].ts < gens'[j].ts
      <4>1. i \in 1 .. Len(gens)
        BY <1>1, <2>2, <3>1
      <4>2. CASE j \in 1 .. Len(gens)
        BY <2>2, <3>1, <4>1, <4>2, Zenon DEF RlInv, OneGeneration
      <4>3. CASE j = Len(gens) + 1
        BY <2>2, <2>3, <2>4, <4>1, <4>3, Zenon
      <4> QED
        BY <2>7, <4>2, <4>3, Zenon
    <3>2. ASSUME NEW i \in 1 .. Len(gens') PROVE gens'[i].ts <= now
      BY <1>1, <2>2, <2>3, <2>4, <2>7
    <3>3. now = truncateNow(rlNow')
      BY <1>2, Zenon DEF now
    <3> QED
      BY <3>1, <3>2, <3>3, Zenon DEF OneGeneration
  <2>9. GrantsCounted'
    <3>1. ASSUME NEW i \in 1 .. Len(gens'), NEW k \in LimitKeys
          PROVE byMemory'[gens'[i].ts][k] <= gens'[i].used[k]
      <4>1. CASE i \in 1 .. Len(gens)
        BY <1>2, <2>2, <4>1, Zenon DEF RlInv, GrantsCounted
      <4>2. CASE i = Len(gens) + 1
        BY <1>2, <2>2, <2>3, <2>5, <4>2
      <4> QED
        BY <2>7, <4>1, <4>2, Zenon
    <3>2. ASSUME NEW ts \in Stamps, NEW k \in LimitKeys, byMemory'[ts][k] > 0
          PROVE \E i \in 1 .. Len(gens') : gens'[i].ts = ts
      <4>1. PICK i \in 1 .. Len(gens) : gens[i].ts = ts
        BY <1>2, <3>2, Zenon DEF RlInv, GrantsCounted
      <4>2. i \in 1 .. Len(gens') /\ gens'[i].ts = ts
        BY <1>1, <2>2, <4>1
      <4> QED
        BY <4>2, Zenon
    <3> QED
      BY <3>1, <3>2, Zenon DEF GrantsCounted
  <2>10. MemoryWithinLimit'
    BY <1>2, Zenon DEF RlInv, MemoryWithinLimit
  <2> QED
    BY <2>6, <2>8, <2>9, <2>10, Zenon DEF RlInv
<1> QED
  BY <1>2, <1>3, <1>4, Zenon DEF Current

\* A Take counts, in the generation it pulled out: granted there, the window
\* has one more Take counted than granted before.
LEMMA RlCount ==
  ASSUME RlInv, NEW t \in Takers, Count(t)
  PROVE RlInv'
<1> DEFINE g == taker[t].gen
           k == taker[t].key
           w == gens[g].ts
<1>1. /\ RlTypeOK /\ gens \in Seq(Generations) /\ Len(gens) \in Nat
      /\ \A i \in 1 .. Len(gens) : /\ gens[i].ts \in Stamps /\ gens[i].ts \in Nat
                                   /\ gens[i].used \in [LimitKeys -> Nat]
  BY RlTypes, Zenon DEF RlInv
<1>2. /\ g \in 1 .. Len(gens) /\ k \in LimitKeys /\ w \in Stamps
      /\ gens[g].used[k] \in Nat /\ byMemory \in [Stamps -> [LimitKeys -> Nat]]
  BY <1>1, Zenon DEF RlTypeOK, Count
<1>3. /\ UNCHANGED <<rlNow, rdb, takes, byRedis>>
      /\ gens' = [gens EXCEPT ![g].used[k] = @ + 1]
      /\ byMemory' = IF gens[g].used[k] < LimitMax THEN [byMemory EXCEPT ![w][k] = @ + 1] ELSE byMemory
      /\ taker' = [taker EXCEPT ![t] = NoTake]
  BY Zenon DEF Count
<1> HIDE DEF g, k, w
<1>4. /\ gens' \in Seq(Generations) /\ Len(gens') = Len(gens)
      /\ \A i \in 1 .. Len(gens) : gens'[i].ts = gens[i].ts
      /\ \A i \in 1 .. Len(gens), x \in LimitKeys :
           gens'[i].used[x] = IF i = g /\ x = k THEN gens[i].used[x] + 1 ELSE gens[i].used[x]
  <2> DEFINE new == [gens[g] EXCEPT !.used[k] = @ + 1]
  <2>1. gens[g] \in Generations
    BY <1>1, <1>2
  <2>2. /\ new \in Generations /\ new.ts = gens[g].ts
        /\ \A x \in LimitKeys : new.used[x] = IF x = k THEN gens[g].used[x] + 1 ELSE gens[g].used[x]
    <3> DEFINE used == [gens[g].used EXCEPT ![k] = @ + 1]
    <3>1. gens[g].used \in [LimitKeys -> Nat]
      BY <2>1, Zenon DEF Generations
    <3>2. /\ used \in [LimitKeys -> Nat]
          /\ \A x \in LimitKeys : used[x] = IF x = k THEN gens[g].used[x] + 1 ELSE gens[g].used[x]
      BY <1>2, <3>1
    <3>3. new = [gens[g] EXCEPT !.used = used]
      BY Zenon
    <3> HIDE DEF used, new
    <3>4. new \in Generations /\ new.ts = gens[g].ts /\ new.used = used
      BY <2>1, <3>2, <3>3, Zenon DEF Generations
    <3> QED
      BY <3>2, <3>4, Zenon
  <2>3. gens' = [gens EXCEPT ![g] = new]
    BY <1>3, Zenon
  <2> HIDE DEF new
  <2>4. /\ gens' \in Seq(Generations) /\ Len(gens') = Len(gens)
        /\ \A i \in 1 .. Len(gens) : gens'[i] = IF i = g THEN new ELSE gens[i]
    BY <1>1, <1>2, <2>2, <2>3
  <2> QED
    BY <2>2, <2>4, Zenon
<1>5. \A ts \in Stamps, x \in LimitKeys :
        /\ byMemory[ts][x] \in Nat
        /\ byMemory'[ts][x] = IF ts = w /\ x = k /\ gens[g].used[k] < LimitMax
                                THEN byMemory[ts][x] + 1 ELSE byMemory[ts][x]
  BY <1>2, <1>3, Zenon
<1>6. RlTypeOK'
  <2>1. 0 \in Stamps /\ NoTake \in Taking
    BY LimiterAssumption DEF Stamps, NoTake, Taking
  <2>2. /\ taker' \in [Takers -> Taking]
        /\ \A u \in Takers : taker'[u].pc = "count" => taker'[u].gen \in 1 .. Len(gens')
    BY <1>1, <1>3, <1>4, <2>1, Zenon DEF RlTypeOK, Taking, NoTake
  <2>3. byMemory' \in [Stamps -> [LimitKeys -> Nat]]
    BY <1>2, <1>3
  <2> QED
    BY <1>1, <1>3, <1>4, <2>2, <2>3, Zenon DEF RlTypeOK, Taking, Generations
<1>7. OneGeneration'
  BY <1>3, <1>4 DEF RlInv, OneGeneration
<1>8. byMemory[w][k] <= gens[g].used[k]
  BY <1>2, Zenon DEF RlInv, GrantsCounted, w
<1>9. MemoryWithinLimit'
  <2> SUFFICES ASSUME NEW ts \in Stamps, NEW x \in LimitKeys PROVE byMemory'[ts][x] <= LimitMax
    BY Zenon DEF MemoryWithinLimit
  <2>1. byMemory[ts][x] <= LimitMax
    BY Zenon DEF RlInv, MemoryWithinLimit
  <2> QED
    BY <1>2, <1>5, <1>8, <2>1, LimiterAssumption
<1>10. GrantsCounted'
  <2>1. ASSUME NEW i \in 1 .. Len(gens), NEW x \in LimitKeys
        PROVE byMemory'[gens[i].ts][x] <= gens'[i].used[x]
    <3>1. /\ byMemory[gens[i].ts][x] <= gens[i].used[x] /\ gens[i].ts \in Stamps
          /\ gens[i].used[x] \in Nat
      BY <1>1, Zenon DEF RlInv, GrantsCounted
    <3>2. gens[i].ts = w => i = g
      <4>1. \A a, b \in 1 .. Len(gens) : a < b => gens[a].ts < gens[b].ts
        BY Zenon DEF RlInv, OneGeneration
      <4>2. i < g \/ i = g \/ g < i
        BY <1>1, <1>2
      <4> QED
        BY <1>1, <1>2, <4>1, <4>2 DEF w
    <3> QED
      BY <1>4, <1>5, <3>1, <3>2
  <2>2. ASSUME NEW ts \in Stamps, NEW x \in LimitKeys, byMemory'[ts][x] > 0
        PROVE \E i \in 1 .. Len(gens) : gens[i].ts = ts
    <3>1. CASE ts = w
      BY <1>2, <3>1, Zenon DEF w
    <3>2. CASE ts # w
      BY <1>5, <2>2, <3>2, Zenon DEF RlInv, GrantsCounted
    <3> QED
      BY <3>1, <3>2, Zenon
  <2> QED
    BY <1>4, <2>1, <2>2 DEF GrantsCounted
<1> QED
  BY <1>6, <1>7, <1>9, <1>10, Zenon DEF RlInv

-----------------------------------------------------------------------------

\* The inductive invariant.
THEOREM RlInvariant == RlSpec => []RlInv
<1>1. RlInv /\ [RlNext]_rlVars => RlInv'
  <2> SUFFICES ASSUME RlInv, [RlNext]_rlVars PROVE RlInv'
    BY Zenon
  <2>1. CASE \E t \in Takers, k \in LimitKeys : Take(t, k)
    BY <2>1, RlTakeStep, Zenon
  <2>2. CASE \E t \in Takers : RedisTake(t) \/ RedisFails(t)
    BY <2>2, RlRedisStep, RlRedisFails, Zenon
  <2>3. CASE \E t \in Takers : MemoryTake(t) \/ Count(t)
    BY <2>3, RlMemoryTake, RlCount, Zenon
  <2>4. CASE LimiterTick
    <3>1. rlNow' \in Stamps
      BY <2>4, LimiterAssumption DEF LimiterTick, RlInv, RlTypeOK, Stamps
    <3>2. RlTypeOK'
      BY <2>4, <3>1, Zenon DEF LimiterTick, RlInv, RlTypeOK
    <3> QED
      BY <2>4, <3>2, RlMemoryUnchanged, Zenon DEF LimiterTick
  <2>5. CASE UNCHANGED rlVars
    <3>1. RlTypeOK'
      BY <2>5, Zenon DEF RlInv, RlTypeOK, rlVars
    <3> QED
      BY <2>5, <3>1, RlMemoryUnchanged, Zenon DEF rlVars
  <2> QED
    BY <2>1, <2>2, <2>3, <2>4, <2>5, Zenon DEF RlNext
<1> QED
  BY <1>1, RlInitially, PTL DEF RlSpec

\* MemoryFrontendRateLimiter grants a key no more than its maximum in a window,
\* for every maximum, window and number of callers, however late one counts.
THEOREM MemoryLimit == RlSpec => []MemoryWithinLimit
<1>1. RlInv => MemoryWithinLimit
  BY Zenon DEF RlInv
<1> QED
  BY <1>1, RlInvariant, PTL

\* The limiter's state is well typed, and a Take counts in a generation there is.
THEOREM LimiterTypes == RlSpec => []RlTypeOK
<1>1. RlInv => RlTypeOK
  BY Zenon DEF RlInv
<1> QED
  BY <1>1, RlInvariant, PTL

-----------------------------------------------------------------------------
(***************************************************************************)
(* RateLimiter, in Redis: at most twice the limit.  A counter is lost when *)
(* its expiry comes before the window ends; the invariant says how late in *)
(* its window a counter was last incremented, so that one that replaced a  *)
(* lost one cannot be lost as well while commands of its window are under  *)
(* way.                                                                    *)
(***************************************************************************)

\* The first millisecond of the window of a time.
Begins(time) == (time \div LimitDur) * LimitDur

\* The counter of a window and a key was last incremented n milliseconds or more
\* after the window began.
Incremented(ts, k, n) ==
  \A time \in Stamps : truncateNow(time) = ts => Begins(time) + n + Lifetime <= rdb[ts][k].expires

\* What Redis granted was counted in the counter there is or, once the counter
\* has been lost, in the one before it, and the one there is began late.
RedisCounted(ts, k) ==
  LET n == rdb[ts][k].val  granted == byRedis[ts][k]
  IN \/ n = 0 /\ granted = 0
     \/ Incremented(ts, k, 0) /\ granted <= n /\ granted <= LimitMax
     \/ Incremented(ts, k, Lifetime) /\ granted <= LimitMax + n /\ granted <= 2 * LimitMax

\* A command that Redis has yet to run is of the window it names, and not late.
RedisPending(t) ==
  taker[t].pc = "redis" =>
    /\ taker[t].ts = truncateNow(taker[t].at)
    /\ taker[t].at <= rlNow /\ rlNow <= taker[t].at + LimiterLag

RedisInv ==
  /\ \A ts \in Stamps, k \in LimitKeys : RedisCounted(ts, k) /\ rdb[ts][k].expires <= rlNow + Lifetime
  /\ \A t \in Takers : RedisPending(t)

\* A time is in its window, which lasts for LimitDur milliseconds.
LEMMA InItsWindow ==
  ASSUME NEW n \in Nat
  PROVE Begins(n) \in Nat /\ Begins(n) <= n /\ n <= Begins(n) + Lifetime
<1> DEFINE w == n \div LimitDur
<1>1. LimitDur \in Nat \ {0}
  BY LimiterAssumption, Zenon
<1>2. w \in Nat /\ LimitDur * w <= n /\ n < LimitDur * w + LimitDur
  BY <1>1, DivBounds, Zenon
<1> HIDE DEF w
<1>3. w * LimitDur \in Nat /\ w * LimitDur <= n /\ n < w * LimitDur + LimitDur
  BY <1>1, <1>2
<1>4. Begins(n) = w * LimitDur
  BY Zenon DEF Begins, w
<1> QED
  BY <1>1, <1>3, <1>4 DEF Lifetime

\* A window is told from another by its second: no window is shorter.
LEMMA WindowsApart ==
  ASSUME NEW n \in Nat, NEW m \in Nat, n \div LimitDur < m \div LimitDur
  PROVE truncateNow(n) # truncateNow(m)
<1> DEFINE p == n \div LimitDur
           q == m \div LimitDur
<1>1. LimitDur \in Nat \ {0} /\ Second \in Nat \ {0} /\ Second <= LimitDur
  BY LimiterAssumption
<1>2. p \in Nat /\ q \in Nat /\ p + 1 <= q
  BY <1>1, DivBounds
<1> HIDE DEF p, q
<1>3. LimitDur * (p + 1) <= LimitDur * q
  BY <1>1, <1>2, TimesMonotone
<1>4. LimitDur * (p + 1) = p * LimitDur + LimitDur /\ LimitDur * q = q * LimitDur
  BY <1>1, <1>2
<1> DEFINE a == p * LimitDur
           b == q * LimitDur
<1>5. a \in Nat /\ b \in Nat /\ a + Second <= b
  BY <1>1, <1>2, <1>3, <1>4
<1> HIDE DEF a, b
<1> DEFINE x == a \div Second
           y == b \div Second
<1>6. x \in Nat /\ y \in Nat /\ Second * x <= a /\ b < Second * y + Second
  BY <1>1, <1>5, DivBounds, Zenon
<1> HIDE DEF x, y
<1>7. x # y
  BY <1>1, <1>5, <1>6
<1> QED
  BY <1>7, Zenon DEF truncateNow, p, q, a, b, x, y

\* Times with one truncation are of one window.
LEMMA SameWindow ==
  ASSUME NEW n \in Nat, NEW m \in Nat, truncateNow(n) = truncateNow(m)
  PROVE Begins(n) = Begins(m)
<1>1. n \div LimitDur \in Nat /\ m \div LimitDur \in Nat
  BY LimiterAssumption, DivBounds, Zenon
<1>2. ~(n \div LimitDur < m \div LimitDur) /\ ~(m \div LimitDur < n \div LimitDur)
  BY WindowsApart, Zenon
<1>3. n \div LimitDur = m \div LimitDur
  BY <1>1, <1>2
<1> QED
  BY <1>3, Zenon DEF Begins

\* Redis runs a command.  A counter that is gone was not incremented for as long
\* as it lives; the third one in a window would be so late that no command of
\* the window is under way any more.
LEMMA IncrCounted ==
  ASSUME LimiterLag < Lifetime, RlTypeOK, RedisInv, NEW t \in Takers, taker[t].pc = "redis", Incr(t), rlNow' = rlNow,
         NEW s, NEW x, taker[t].ts = s, taker[t].key = x,
         \/ byRedis' = byRedis
         \/ Value(s, x) < LimitMax /\ byRedis' = [byRedis EXCEPT ![s][x] = @ + 1]
  PROVE \A ts \in Stamps, k \in LimitKeys : RedisCounted(ts, k)' /\ rdb'[ts][k].expires <= rlNow' + Lifetime
<1> DEFINE at == taker[t].at
           v == Value(s, x)
           new == [val |-> v + 1, expires |-> rlNow + Lifetime]
           old == rdb[s][x]
           g == byRedis[s][x]
           b == Begins(at)
<1>1. /\ s \in Stamps /\ x \in LimitKeys /\ at \in Nat /\ rlNow \in Nat
      /\ rdb \in [Stamps -> [LimitKeys -> [val : Nat, expires : Nat]]]
      /\ byRedis \in [Stamps -> [LimitKeys -> Nat]]
  <2>1. taker[t] \in Taking
    BY Zenon DEF RlTypeOK, Taking
  <2>2. \A n \in Stamps : n \in Nat
    BY LimiterAssumption DEF Stamps
  <2> QED
    BY <2>1, <2>2, Zenon DEF RlTypeOK, Taking
<1>2. /\ old \in [val : Nat, expires : Nat] /\ g \in Nat /\ LimitMax \in Nat
      /\ Lifetime \in Nat /\ LimiterLag \in Nat
  BY <1>1, LimiterAssumption DEF Lifetime
<1>3. /\ s = truncateNow(at) /\ at <= rlNow /\ rlNow <= at + LimiterLag
      /\ RedisCounted(s, x) /\ old.expires <= rlNow + Lifetime
  BY <1>1, Zenon DEF RedisInv, RedisPending
<1>4. b \in Nat /\ b <= at /\ at <= b + Lifetime
  BY <1>1, InItsWindow, Zenon
<1>5. old.val \in Nat /\ old.expires \in Nat /\ v = IF rlNow < old.expires THEN old.val ELSE 0
  BY <1>2, Zenon DEF Value
<1>6. rdb' = [rdb EXCEPT ![s][x] = new]
  BY Zenon DEF Incr
<1> HIDE DEF v, new
<1>7. rdb'[s][x] = new /\ \A ts \in Stamps, k \in LimitKeys : ts # s \/ k # x => rdb'[ts][k] = rdb[ts][k]
  BY <1>1, <1>6
<1>8. \A ts \in Stamps, k \in LimitKeys : ts # s \/ k # x => byRedis'[ts][k] = byRedis[ts][k]
  BY <1>1
<1>9. byRedis'[s][x] = g \/ (v < LimitMax /\ byRedis'[s][x] = g + 1)
  BY <1>1 DEF v
<1>10. new.val = v + 1 /\ new.expires = rlNow + Lifetime
  BY Zenon DEF new
<1>11. ASSUME NEW n \in Nat
       PROVE /\ Incremented(s, x, n) => b + n + Lifetime <= old.expires
             /\ b + n <= rlNow => Incremented(s, x, n)'
  <2>1. at \in Stamps
    BY Zenon DEF RlTypeOK
  <2>2. Incremented(s, x, n) => b + n + Lifetime <= old.expires
    BY <1>3, <2>1, Zenon DEF Incremented
  <2>3. ASSUME b + n <= rlNow, NEW time \in Stamps, truncateNow(time) = s
        PROVE Begins(time) + n + Lifetime <= rdb'[s][x].expires
    <3>1. Begins(time) = b
      BY <1>1, <1>3, <2>3, SameWindow, LimiterAssumption DEF Stamps
    <3> QED
      BY <1>1, <1>2, <1>4, <1>7, <1>10, <2>3, <3>1
  <2> QED
    BY <2>2, <2>3, Zenon DEF Incremented
<1> DEFINE g1 == byRedis'[s][x]
           One == Incremented(s, x, 0)' /\ g1 <= v + 1 /\ g1 <= LimitMax
           Two == Incremented(s, x, Lifetime)' /\ g1 <= LimitMax + (v + 1) /\ g1 <= 2 * LimitMax
<1>12. v \in Nat /\ g1 \in Nat
  BY <1>2, <1>5, <1>9
<1> HIDE DEF at, g, b, old, g1
<1>13. Incremented(s, x, 0)'
  BY <1>1, <1>3, <1>4, <1>11
<1>14. One \/ Two
  <2>1. CASE old.val = 0 /\ g = 0
    BY <1>2, <1>5, <1>9, <1>12, <1>13, <2>1 DEF g1
  <2>2. CASE Incremented(s, x, 0) /\ g <= old.val /\ g <= LimitMax
    <3>1. b + 0 + Lifetime <= old.expires
      BY <1>11, <2>2, Zenon
    <3>2. CASE rlNow < old.expires
      BY <1>2, <1>5, <1>9, <1>12, <1>13, <2>2, <3>2 DEF g1
    <3>3. CASE ~(rlNow < old.expires)
      <4>1. Incremented(s, x, Lifetime)'
        BY <1>1, <1>2, <1>4, <1>5, <1>11, <3>1, <3>3
      <4> QED
        BY <1>2, <1>5, <1>9, <1>12, <2>2, <3>3, <4>1 DEF g1
    <3> QED
      BY <3>2, <3>3, Zenon
  <2>3. CASE Incremented(s, x, Lifetime) /\ g <= LimitMax + old.val /\ g <= 2 * LimitMax
    <3>1. b + Lifetime + Lifetime <= old.expires
      BY <1>2, <1>11, <2>3, Zenon
    <3>2. rlNow < old.expires
      BY <1>1, <1>2, <1>3, <1>4, <1>5, <3>1
    <3>3. Incremented(s, x, Lifetime)'
      BY <1>1, <1>2, <1>3, <1>4, <1>5, <1>11, <3>1
    <3> QED
      BY <1>2, <1>5, <1>9, <1>12, <2>3, <3>2, <3>3 DEF g1
  <2> QED
    BY <1>3, <2>1, <2>2, <2>3, Zenon DEF RedisCounted, old, g
<1>15. RedisCounted(s, x)' /\ rdb'[s][x].expires <= rlNow' + Lifetime
  BY <1>1, <1>2, <1>7, <1>10, <1>12, <1>14 DEF RedisCounted, g1
<1> SUFFICES ASSUME NEW ts \in Stamps, NEW k \in LimitKeys
             PROVE RedisCounted(ts, k)' /\ rdb'[ts][k].expires <= rlNow' + Lifetime
  BY Zenon
<1>16. CASE ts = s /\ k = x
  BY <1>15, <1>16, Zenon
<1>17. CASE ts # s \/ k # x
  BY <1>7, <1>8, <1>17 DEF RedisInv, RedisCounted, Incremented
<1> QED
  BY <1>16, <1>17, Zenon

\* A step that changes neither Redis nor its grants, and lets no command pend
\* but those that did.
LEMMA RedisUnchanged ==
  ASSUME RlTypeOK, RedisInv, UNCHANGED <<rdb, byRedis>>, rlNow' \in Nat, rlNow <= rlNow', \A t \in Takers : RedisPending(t)'
  PROVE RedisInv'
<1>1. \A ts \in Stamps, k \in LimitKeys : RedisCounted(ts, k)'
  BY DEF RedisInv, RedisCounted, Incremented
<1>2. \A ts \in Stamps, k \in LimitKeys : rdb'[ts][k].expires <= rlNow' + Lifetime
  <2> SUFFICES ASSUME NEW ts \in Stamps, NEW k \in LimitKeys
               PROVE rdb'[ts][k].expires <= rlNow' + Lifetime
    BY Zenon
  <2>1. rdb[ts][k] \in [val : Nat, expires : Nat] /\ rlNow \in Nat /\ Lifetime \in Nat
    BY LimiterAssumption DEF RlTypeOK, Stamps, Lifetime
  <2>2. rdb[ts][k].expires \in Nat /\ rdb[ts][k].expires <= rlNow + Lifetime
    BY <2>1, Zenon DEF RedisInv
  <2> QED
    BY <2>1, <2>2
<1> QED
  BY <1>1, <1>2, Zenon DEF RedisInv

\* Redis grants a key at most twice the limit in a window, for every limit,
\* window and number of callers, if no command is delayed for as long as the
\* counter lives: the counter is lost at most once while commands of its window
\* are under way.
THEOREM RedisLimit ==
  ASSUME LimiterLag < Lifetime
  PROVE RlSpec => []RedisWithinTwice
<1>1. RlInit => RedisInv
  <2> SUFFICES ASSUME RlInit PROVE RedisInv
    BY Zenon
  <2>1. \A ts \in Stamps, k \in LimitKeys : rdb[ts][k] = [val |-> 0, expires |-> 0] /\ byRedis[ts][k] = 0
    BY Zenon DEF RlInit, NoGrants
  <2>2. rlNow = 0 /\ Lifetime \in Nat /\ \A t \in Takers : taker[t].pc # "redis"
    BY LimiterAssumption DEF RlInit, NoTake, Lifetime
  <2> QED
    BY <2>1, <2>2 DEF RedisInv, RedisCounted, RedisPending
<1>2. RlTypeOK /\ RedisInv /\ [RlNext]_rlVars => RedisInv'
  <2> SUFFICES ASSUME RlTypeOK, RedisInv, [RlNext]_rlVars PROVE RedisInv'
    BY Zenon
  <2>1. /\ rlNow \in Nat /\ LimiterLag \in Nat /\ \A t \in Takers : taker[t].at \in Nat
        /\ taker \in [Takers -> Taking]
    BY LimiterAssumption DEF RlTypeOK, Stamps, Taking
  <2>2. \A t \in Takers : RedisPending(t)
    BY Zenon DEF RedisInv
  <2>3. ASSUME NEW t \in Takers, NEW k \in LimitKeys, Take(t, k) PROVE RedisInv'
    <3>1. UNCHANGED <<rlNow, rdb, byRedis>>
      BY <2>3, Zenon DEF Take
    <3>2. taker' = [taker EXCEPT ![t] = [pc |-> "redis", key |-> k, ts |-> truncateNow(rlNow),
                                         at |-> rlNow, gen |-> 0]]
      BY <2>3, Zenon DEF Take
    <3>3. \A u \in Takers : taker'[u] = IF u = t THEN [pc |-> "redis", key |-> k, ts |-> truncateNow(rlNow),
                                                       at |-> rlNow, gen |-> 0] ELSE taker[u]
      BY <2>1, <3>2, Zenon
    <3>4. \A u \in Takers : RedisPending(u)'
      BY <2>1, <2>2, <3>1, <3>3 DEF RedisPending
    <3> QED
      BY <2>1, <3>1, <3>4, RedisUnchanged
  <2>4. ASSUME NEW t \in Takers, RedisTake(t) \/ RedisFails(t) PROVE RedisInv'
    <3>1. /\ taker[t].pc = "redis" /\ rlNow' = rlNow
          /\ \A u \in Takers : taker'[u] = taker[u] \/ taker'[u].pc # "redis"
      <4>1. CASE RedisTake(t)
        BY <2>1, <4>1, Zenon DEF RedisTake, NoTake
      <4>2. CASE RedisFails(t)
        BY <2>1, <4>2, Zenon DEF RedisFails, Taking
      <4> QED
        BY <2>4, <4>1, <4>2, Zenon
    <3>2. \A u \in Takers : RedisPending(u)'
      BY <2>2, <3>1, Zenon DEF RedisPending
    <3>3. CASE Incr(t)
      <4> DEFINE s == taker[t].ts
                 x == taker[t].key
      <4>1. \/ byRedis' = byRedis
            \/ Value(s, x) < LimitMax /\ byRedis' = [byRedis EXCEPT ![s][x] = @ + 1]
        BY <2>4, Zenon DEF RedisTake, RedisFails
      <4>2. PICK ts, k : ts = s /\ k = x
        BY Zenon
      <4>3. \/ byRedis' = byRedis
            \/ Value(ts, k) < LimitMax /\ byRedis' = [byRedis EXCEPT ![ts][k] = @ + 1]
        BY <4>1, <4>2, Zenon
      <4> QED
        BY <3>1, <3>2, <3>3, <4>2, <4>3, IncrCounted DEF RedisInv
    <3>4. CASE UNCHANGED <<rdb, byRedis>>
      BY <2>1, <3>1, <3>2, <3>4, RedisUnchanged
    <3> QED
      BY <2>4, <3>3, <3>4, Zenon DEF RedisTake, RedisFails
  <2>5. ASSUME NEW t \in Takers, MemoryTake(t) \/ Count(t) PROVE RedisInv'
    <3>1. /\ UNCHANGED <<rlNow, rdb, byRedis>>
          /\ \A u \in Takers : taker'[u] = taker[u] \/ taker'[u].pc # "redis"
      BY <2>1, <2>5 DEF MemoryTake, Count, NoTake, Taking
    <3>2. \A u \in Takers : RedisPending(u)'
      BY <2>2, <3>1, Zenon DEF RedisPending
    <3> QED
      BY <2>1, <3>1, <3>2, RedisUnchanged
  <2>6. CASE LimiterTick
    <3>1. UNCHANGED <<rdb, byRedis, taker>> /\ rlNow' = rlNow + 1
      BY <2>6, Zenon DEF LimiterTick
    <3>2. \A u \in Takers : RedisPending(u)'
      BY <2>1, <2>2, <2>6, <3>1 DEF RedisPending, LimiterTick
    <3> QED
      BY <2>1, <3>1, <3>2, RedisUnchanged
  <2>7. CASE UNCHANGED rlVars
    BY <2>1, <2>2, <2>7, RedisUnchanged DEF rlVars, RedisPending
  <2> QED
    BY <2>3, <2>4, <2>5, <2>6, <2>7, Zenon DEF RlNext
<1>3. RlTypeOK /\ RedisInv => RedisWithinTwice
  <2> SUFFICES ASSUME RlTypeOK, RedisInv, NEW ts \in Stamps, NEW k \in LimitKeys
               PROVE byRedis[ts][k] <= 2 * LimitMax
    BY Zenon DEF RedisWithinTwice
  <2>1. byRedis[ts][k] \in Nat /\ LimitMax \in Nat
    BY LimiterAssumption, Zenon DEF RlTypeOK
  <2> QED
    BY <2>1 DEF RedisInv, RedisCounted
<1> QED
  BY <1>1, <1>2, <1>3, LimiterTypes, PTL DEF RlSpec
=============================================================================
