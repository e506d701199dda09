------------------------------ MODULE Rewriter ------------------------------
(***************************************************************************)
(* proxyd/rewriter.go: how the block parameters of a request are rewritten *)
(* to what the consensus group has agreed on, and, from backend.go, which  *)
(* requests of a list are then forwarded and how the answers given without *)
(* a backend are put back among the others.                                *)
(***************************************************************************)
EXTENDS Integers, Sequences

CONSTANTS
  Word,           \* 2^64: unsigned subtraction is modulo Word
  Contexts,       \* the RewriteContexts: latest, safe, finalized, maxBlockRange
  Lists           \* lists of requests: a method and its params each

\* A block parameter.  What is no string is an object (of EIP-1898) or is bad.
Tags == {"latest", "safe", "finalized", "pending", "earliest", "hash", "number",
         "null", "empty", "bad"}
Blocks == [tag : Tags, n : Nat, object : BOOLEAN]
Named(t) == [tag |-> t, n |-> 0, object |-> FALSE]
Number(n) == [tag |-> "number", n |-> n, object |-> FALSE]

\* Where RewriteRequest finds the block of a method, counted from one.
ParamOf ==
  [debug_getRawReceipts |-> [pos |-> 1, required |-> TRUE, blockNrOrHash |-> FALSE],
   eth_getBlockByNumber |-> [pos |-> 1, required |-> FALSE, blockNrOrHash |-> FALSE],
   eth_getBalance |-> [pos |-> 2, required |-> FALSE, blockNrOrHash |-> TRUE],
   eth_getStorageAt |-> [pos |-> 3, required |-> FALSE, blockNrOrHash |-> TRUE]]

IsFilter(f) == \E bounds \in SUBSET {"fromBlock", "toBlock"} : f \in [bounds -> Blocks]

IsCall(q) ==
  /\ DOMAIN q = {"method", "isList", "params"} /\ q.isList \in BOOLEAN
  /\ q.method \in DOMAIN ParamOf => q.params \in Seq(Blocks)
  /\ q.method = "eth_getLogs" => q.params = <<>> \/ (1 \in DOMAIN q.params /\ IsFilter(q.params[1]))

ASSUME RewriterAssumption ==
  /\ Word \in Nat \ {0}
  /\ \A c \in Contexts : /\ c \in [latest : Nat, safe : Nat, finalized : Nat, maxBlockRange : Nat]
                         /\ \A n \in {c.latest + 1, c.safe, c.finalized} : n + c.maxBlockRange < Word
  /\ \A l \in Lists : l \in Seq({l[i] : i \in DOMAIN l}) /\ \A i \in DOMAIN l : IsCall(l[i])

-----------------------------------------------------------------------------
(* rewriteTag and rewriteTagBlockNumberOrHash: the new block, whether it was *)
(* rewritten, and an error.                                                  *)

Unrewritten(b) == [block |-> b, rw |-> FALSE, err |-> "none"]
To(n) == [block |-> Number(n), rw |-> TRUE, err |-> "none"]
Bad(b, e) == [block |-> b, rw |-> FALSE, err |-> e]

\* Mutant of rewriteTag: the finalized block is left to the backend.
rewriteTagUnfinalized(rctx, b) ==
  CASE b.tag \in {"empty", "bad"} -> Bad(b, "parse")
    [] b.tag \in {"null", "hash", "pending", "earliest"} -> Unrewritten(b)
    [] b.tag = "latest" -> To(rctx.latest)
    [] b.tag = "safe" -> To(rctx.safe)
    [] b.tag = "finalized" -> Unrewritten(b)
    [] b.tag = "number" -> IF b.n > rctx.latest THEN Bad(b, "outOfRange") ELSE Unrewritten(b)

rewriteTag(rctx, b) ==
  CASE b.tag \in {"empty", "bad"} -> Bad(b, "parse")
    [] b.tag \in {"null", "hash", "pending", "earliest"} -> Unrewritten(b)
    [] b.tag = "latest" -> To(rctx.latest)
    [] b.tag = "safe" -> To(rctx.safe)
    [] b.tag = "finalized" -> To(rctx.finalized)
    [] b.tag = "number" -> IF b.n > rctx.latest THEN Bad(b, "outOfRange") ELSE Unrewritten(b)

-----------------------------------------------------------------------------
(* A rewritten request: the RewriteResult, the params and the error. *)

None(q) == [result |-> "none", req |-> q, err |-> "none"]
Error(q, e) == [result |-> "overrideError", req |-> q, err |-> e]
Request(q) == [result |-> "overrideRequest", req |-> q, err |-> "none"]

rewriteParam(rctx, q) ==
  LET at == ParamOf[q.method]
      p == IF Len(q.params) = at.pos - 1 /\ ~at.required
             THEN Append(q.params, Named("latest")) ELSE q.params
      b == p[at.pos]
      new == rewriteTag(rctx, b)
      isString == ~b.object /\ b.tag # "null"
  IN CASE Len(p) < at.pos -> None(q)
       [] Len(p) >= at.pos /\ ~at.blockNrOrHash /\ ~isString -> Error(q, "parse")
       [] OTHER -> IF new.err # "none" THEN Error(q, new.err)
                   ELSE IF new.rw THEN Request([q EXCEPT !.params = [p EXCEPT ![at.pos] = new.block]])
                   ELSE None(q)

\* blockNumber: what the check of the range takes a bound for; -1 is an error.
blockNumber(rctx, b) ==
  CASE b.tag = "earliest" /\ ~b.object -> 0
    [] b.tag = "pending" /\ ~b.object -> rctx.latest + 1
    [] b.tag = "number" /\ ~b.object -> b.n
    [] OTHER -> -1

\* Mutant of RangeTooLarge: signed subtraction.
RangeTooLargeSigned(from, to, max) == to - from > max

\* to-from > rctx.maxBlockRange, on uint64.
RangeTooLarge(from, to, max) == (to - from) % Word > max

\* rewriteTagMap: nothing to do for a bound that is missing, null or empty.
rewriteTagMap(rctx, b) ==
  IF b.tag \in {"null", "empty"} /\ ~b.object THEN Unrewritten(b)
  ELSE IF b.object THEN Bad(b, "parse") ELSE rewriteTag(rctx, b)

\* The bounds of the filter, the one that is missing beside the other being
\* the latest block.
rewriteRange(rctx, q) ==
  LET f == q.params[1]
      has == DOMAIN f # {}
      bound(k) == IF k \in DOMAIN f THEN f[k] ELSE Named(IF has THEN "latest" ELSE "null")
      from == rewriteTagMap(rctx, bound("fromBlock"))
      to == rewriteTagMap(rctx, bound("toBlock"))
      first == blockNumber(rctx, from.block)
      last == blockNumber(rctx, to.block)
  IN CASE q.params = <<>> -> [result |-> "panic", req |-> q, err |-> "index"]
       [] q.params # <<>> /\ from.err # "none" -> Error(q, from.err)
       [] q.params # <<>> /\ from.err = "none" /\ to.err # "none" -> Error(q, to.err)
       [] OTHER ->
            IF has /\ rctx.maxBlockRange > 0 /\ (first = -1 \/ last = -1) THEN Error(q, "parse")
            ELSE IF has /\ rctx.maxBlockRange > 0 /\ RangeTooLarge(first, last, rctx.maxBlockRange)
                   THEN Error(q, "rangeTooLarge")
            ELSE IF from.rw \/ to.rw
                   THEN Request([q EXCEPT !.params[1] = [fromBlock |-> from.block, toBlock |-> to.block]])
            ELSE None(q)

\* RewriteTags: RewriteResponse, then RewriteRequest.
RewriteTags(rctx, q) ==
  CASE q.method = "eth_blockNumber" -> [result |-> "overrideResponse", req |-> q, err |-> "none"]
    [] q.method = "eth_getLogs" -> IF q.isList THEN rewriteRange(rctx, q) ELSE Error(q, "parse")
    [] q.method \in DOMAIN ParamOf -> IF q.isList THEN rewriteParam(rctx, q) ELSE Error(q, "parse")
    [] OTHER -> None(q)

-----------------------------------------------------------------------------
(* backend.go: OverwriteConsensusResponses and OverrideResponses. *)

Forwarded == {"none", "overrideRequest"}
Overridden == {"overrideResponse", "overrideError"}

\* The positions, in order, of the requests with one of the results.
Positions(os, results) ==
  LET upTo[n \in 0 .. Len(os)] ==
        IF n = 0 THEN <<>>
        ELSE IF os[n].result \in results THEN Append(upTo[n - 1], n) ELSE upTo[n - 1]
  IN upTo[Len(os)]

InsertedAt(res, i, r) == SubSeq(res, 1, i - 1) \o <<r>> \o SubSeq(res, i, Len(res))

\* Mutant of Splice: an overridden response goes to the end.
SpliceLast(res, ov) == res \o ov

\* OverrideResponses: each response is inserted at its position, in order; at
\* the end of an empty list, whatever its position.
Splice(res, ov) ==
  LET after[n \in 0 .. Len(ov)] ==
        IF n = 0 THEN res
        ELSE IF after[n - 1] = <<>> THEN <<ov[n]>> ELSE InsertedAt(after[n - 1], ov[n], ov[n])
  IN after[Len(ov)]

VARIABLES
  rctx,       \* the RewriteContext: what the poller has published
  reqs,       \* a list of requests
  outs,       \* what became of each request
  answered    \* the responses: the position of the request each one answers

rwVars == <<rctx, reqs, outs, answered>>

NoContext == [latest |-> 0, safe |-> 0, finalized |-> 0, maxBlockRange |-> 0]

RwInit == rctx = NoContext /\ reqs = <<>> /\ outs = <<>> /\ answered = <<>>

\* All but the overridden requests go to the backend, whose responses come in
\* their order.  A panic ends the request.
ForwardList(c, l) ==
  /\ reqs = <<>>
  /\ rctx' = c /\ reqs' = l
  /\ outs' = [i \in DOMAIN l |-> RewriteTags(c, l[i])]
  /\ answered' = IF \E i \in DOMAIN l : outs'[i].result = "panic" THEN <<>>
                  ELSE Splice(Positions(outs', Forwarded), Positions(outs', Overridden))

RwNext == \E c \in Contexts, l \in Lists : ForwardList(c, l)

RwSpec == RwInit /\ [][RwNext]_rwVars

-----------------------------------------------------------------------------
(* Properties. *)

\* The blocks that a backend reads a request as asking for, those that are left
\* out included.  A request without its other parameters asks for none.
AskedOf(q) ==
  CASE q.method = "eth_getLogs" ->
         {IF k \in DOMAIN q.params[1] THEN q.params[1][k] ELSE Named("latest") : k \in {"fromBlock", "toBlock"}}
    [] q.method \in DOMAIN ParamOf ->
         LET at == ParamOf[q.method]
         IN IF at.pos \in DOMAIN q.params THEN {q.params[at.pos]}
            ELSE IF Len(q.params) = at.pos - 1 /\ ~at.required THEN {Named("latest")} ELSE {}
    [] OTHER -> {}

\* Blocks that are the same for all of the consensus group.
Agreed(c, b) ==
  \/ b.tag \in {"hash", "earliest"}
  \/ b.tag = "number" /\ (b.n <= c.latest \/ b.n \in {c.safe, c.finalized})

\* What the rewriter leaves to the backend's own view.
Open(q, b) ==
  \/ b \in AskedOf(q) /\ b.tag \in {"pending", "null", "empty"}
  \/ q.method = "eth_getLogs" /\ DOMAIN q.params[1] = {}

\* Each block that a request which reaches a backend asks for, written by the
\* client or left out, is one the group agrees on, a hash, a number up to the
\* agreed blocks or the first one, with three exceptions that the rewriter passes
\* as they are: pending, a null or empty block, and a filter of logs with neither
\* bound.  No latest, safe or finalized block is left but in that filter.
TagsResolved ==
  \A i \in DOMAIN outs : outs[i].result \in Forwarded =>
    \A b \in AskedOf(outs[i].req) : Agreed(rctx, b) \/ Open(reqs[i], b)

\* A range of logs that reaches a backend is no longer than the maximum, and
\* not the wrong way round, although its length is computed without a sign.
RangeBounded ==
  \A i \in DOMAIN outs :
    /\ outs[i].result \in Forwarded /\ outs[i].req.method = "eth_getLogs"
    /\ rctx.maxBlockRange > 0 /\ DOMAIN outs[i].req.params[1] # {}
    => LET f == outs[i].req.params[1]
           from == blockNumber(rctx, f["fromBlock"])
           to == blockNumber(rctx, f["toBlock"])
       IN from \in Nat /\ to \in from .. from + rctx.maxBlockRange

\* The responses given without a backend are put back in their places: the
\* client finds the answer to each request at its position, unless a panic
\* took the whole list.
SplicedInPlace ==
  (\A i \in DOMAIN outs : outs[i].result # "panic") => answered = [i \in DOMAIN reqs |-> i]
=============================================================================
