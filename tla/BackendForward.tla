--------------------------- MODULE BackendForward ---------------------------
(***************************************************************************)
(* proxyd/backend.go: how requests are sent to the backends of a group.    *)
(* ForwardRequestToBackendGroup tries one backend after the other,         *)
(* Backend.Forward repeats a failed attempt, and doForward makes one: it   *)
(* translates consensus_getReceipts in place, waits for the semaphore that *)
(* all backends share, sends, and reads the answer.                        *)
(*                                                                         *)
(* The requests run concurrently and meet at the semaphore only.  A        *)
(* backend answers or fails at will.  The sliding windows are counted per  *)
(* request that adds to them; what they evict is not modelled here.        *)
(***************************************************************************)
EXTENDS Integers, FiniteSets

CONSTANTS
  Requests,      \* calls of BackendGroup.Forward
  Backends,      \* the backends of the group
  Target,        \* Target[b]: b.receiptsTarget
  MaxRetries,    \* b.maxRetries
  MaxConcurrent, \* the size of rpcRequestSemaphore
  Nowhere        \* no backend

\* A call, a batch, consensus_getReceipts with parameters that parse and with
\* some that do not, a batch with a consensus_getReceipts in it, and a batch
\* of which nothing is left because every call of it is answered already.
Kinds == {"call", "batch", "receipts", "badReceipts", "receiptsBatch", "empty"}
Supported == {"debug_getRawReceipts", "alchemy_getTransactionReceipts",
              "parity_getBlockReceipts", "eth_getBlockReceipts"}
Unsupported == "unsupported"
Methods == Supported \cup {Unsupported, "other", "consensus_getReceipts"}

ASSUME ForwardAssumption ==
  /\ IsFiniteSet(Requests)
  /\ Target \in [Backends -> Supported \cup {Unsupported}]
  /\ MaxRetries \in Nat /\ MaxConcurrent \in Nat \ {0}
  /\ Nowhere \notin Backends

VARIABLES
  kind,       \* what each request forwards
  pc,         \* control point of each request
  method,     \* rpcReqs[0].Method, which doForward overwrites
  left,       \* the backends not tried yet
  at,         \* the backend being tried
  attempt,    \* the i of Backend.Forward
  translated, \* whether translatedReqs of this attempt has the request
  expired,    \* the context of the request is done
  sem,        \* how much of the semaphore is held
  requests,   \* networkRequestsSlidingWindow.Incr() by request and backend
  errors,     \* intermittentErrorsSlidingWindow.Incr() by request and backend
  skipped,    \* history: backends left after an unexpected JSON-RPC answer
  result      \* what ForwardRequestToBackendGroup returns

vars == <<kind, pc, method, left, at, attempt, translated, expired, sem, requests,
          errors, skipped, result>>

NoResult == [kind |-> "none", by |-> Nowhere, method |-> "other", wrapped |-> FALSE]

Init ==
  /\ kind \in [Requests -> Kinds]
  /\ pc = [r \in Requests |-> "next"]
  /\ method = [r \in Requests |->
        IF kind[r] \in {"receipts", "badReceipts"} THEN "consensus_getReceipts" ELSE "other"]
  /\ left = [r \in Requests |-> Backends]
  /\ at = [r \in Requests |-> Nowhere]
  /\ attempt = [r \in Requests |-> 0]
  /\ translated = [r \in Requests |-> FALSE]
  /\ expired = [r \in Requests |-> FALSE]
  /\ sem = 0
  /\ requests = [r \in Requests |-> [b \in Backends |-> 0]]
  /\ errors = [r \in Requests |-> [b \in Backends |-> 0]]
  /\ skipped = [r \in Requests |-> {}]
  /\ result = [r \in Requests |-> NoResult]

-----------------------------------------------------------------------------
(* ForwardRequestToBackendGroup and Backend.Forward. *)

TryBackend(r, b) ==
  /\ pc[r] = "next" /\ b \in left[r] /\ kind[r] # "empty"
  /\ pc' = [pc EXCEPT ![r] = "attempt"]
  /\ left' = [left EXCEPT ![r] = @ \ {b}]
  /\ at' = [at EXCEPT ![r] = b]
  /\ attempt' = [attempt EXCEPT ![r] = 0]
  /\ UNCHANGED <<kind, method, translated, expired, sem, requests, errors, skipped,
                 result>>

\* Nothing is left to send: the first backend is named, and not called.
ServeEmpty(r, b) ==
  /\ pc[r] = "next" /\ b \in left[r] /\ kind[r] = "empty"
  /\ pc' = [pc EXCEPT ![r] = "done"]
  /\ result' = [result EXCEPT ![r].kind = "served", ![r].by = b]
  /\ UNCHANGED <<kind, method, left, at, attempt, translated, expired, sem, requests,
                 errors, skipped>>

\* Every backend failed.
NoBackends(r) ==
  /\ pc[r] = "next" /\ left[r] = {}
  /\ pc' = [pc EXCEPT ![r] = "done"]
  /\ result' = [result EXCEPT ![r].kind = "noBackends"]
  /\ UNCHANGED <<kind, method, left, at, attempt, translated, expired, sem, requests,
                 errors, skipped>>

\* The default branch of Backend.Forward: try again, or give this backend up.
Again(r) ==
  IF attempt[r] < MaxRetries
    THEN /\ attempt' = [attempt EXCEPT ![r] = @ + 1]
         /\ pc' = [pc EXCEPT ![r] = "attempt"]
    ELSE /\ pc' = [pc EXCEPT ![r] = "next"]
         /\ UNCHANGED attempt

\* An error that ends the request at once.
Refuse(r) ==
  /\ pc' = [pc EXCEPT ![r] = "done"]
  /\ result' = [result EXCEPT ![r].kind = "error"]
  /\ UNCHANGED attempt

CountRequest(r) == requests' = [requests EXCEPT ![r][at[r]] = @ + 1]

CountError(r) == errors' = [errors EXCEPT ![r][at[r]] = @ + 1]

-----------------------------------------------------------------------------
(* doForward. *)

\* consensus_getReceipts in a batch is refused.
RefuseBatch(r) ==
  /\ pc[r] = "attempt" /\ kind[r] = "receiptsBatch"
  /\ CountRequest(r)
  /\ Refuse(r)
  /\ UNCHANGED <<kind, method, left, at, translated, expired, sem, errors, skipped>>

\* consensus_getReceipts becomes the target of the backend.  The method is
\* overwritten before the parameters are parsed and the target looked at.
Translate(r) ==
  /\ pc[r] = "attempt" /\ method[r] = "consensus_getReceipts"
  /\ CountRequest(r)
  /\ method' = [method EXCEPT ![r] = Target[at[r]]]
  /\ \/ /\ kind[r] = "badReceipts"
        /\ Again(r)
        /\ UNCHANGED <<translated, result>>
     \/ /\ kind[r] = "receipts" /\ Target[at[r]] = Unsupported
        /\ Refuse(r)
        /\ UNCHANGED translated
     \/ /\ kind[r] = "receipts" /\ Target[at[r]] # Unsupported
        /\ translated' = [translated EXCEPT ![r] = TRUE]
        /\ pc' = [pc EXCEPT ![r] = "acquire"]
        /\ UNCHANGED <<attempt, result>>
  /\ UNCHANGED <<kind, left, at, expired, sem, errors, skipped>>

\* Mutant of Prepare: translatedReqs is kept from one attempt to the next.
PrepareKeeping(r) ==
  /\ pc[r] = "attempt" /\ kind[r] # "receiptsBatch"
  /\ method[r] # "consensus_getReceipts"
  /\ CountRequest(r)
  /\ pc' = [pc EXCEPT ![r] = "acquire"]
  /\ UNCHANGED <<kind, method, left, at, attempt, translated, expired, sem, errors,
                 skipped, result>>

\* Any other method is sent as it is, a translated one of an earlier attempt
\* included: translatedReqs is made anew in each attempt.
Prepare(r) ==
  /\ pc[r] = "attempt" /\ kind[r] # "receiptsBatch"
  /\ method[r] # "consensus_getReceipts"
  /\ CountRequest(r)
  /\ translated' = [translated EXCEPT ![r] = FALSE]
  /\ pc' = [pc EXCEPT ![r] = "acquire"]
  /\ UNCHANGED <<kind, method, left, at, attempt, expired, sem, errors, skipped,
                 result>>

\* DoLimited: the semaphore is held until the answer's header is there.  A
\* context that is done need not keep a free semaphore from being acquired.
Acquire(r) ==
  /\ pc[r] = "acquire"
  /\ sem < MaxConcurrent
  /\ sem' = sem + 1
  /\ pc' = [pc EXCEPT ![r] = "sent"]
  /\ UNCHANGED <<kind, method, left, at, attempt, translated, expired, requests,
                 errors, skipped, result>>

AcquireFails(r) ==
  /\ pc[r] = "acquire" /\ expired[r]
  /\ CountError(r)
  /\ Again(r)
  /\ UNCHANGED <<kind, method, left, at, translated, expired, sem, requests, skipped,
                 result>>

\* Mutant of SendFails: the semaphore is not released.
SendFailsHolding(r) ==
  /\ pc[r] = "sent"
  /\ CountError(r)
  /\ Again(r)
  /\ UNCHANGED <<kind, method, left, at, translated, expired, sem, requests, skipped,
                 result>>

\* The call fails, or its status is neither 200 nor 400.
SendFails(r) ==
  /\ pc[r] = "sent"
  /\ sem' = sem - 1
  /\ CountError(r)
  /\ Again(r)
  /\ UNCHANGED <<kind, method, left, at, translated, expired, requests, skipped,
                 result>>

Responds(r) ==
  /\ pc[r] = "sent"
  /\ sem' = sem - 1
  /\ pc' = [pc EXCEPT ![r] = "reading"]
  /\ UNCHANGED <<kind, method, left, at, attempt, translated, expired, requests,
                 errors, skipped, result>>

\* The body cannot be read, or that of a batch not be parsed.
ReadFails(r) ==
  /\ pc[r] = "reading"
  /\ CountError(r)
  /\ Again(r)
  /\ UNCHANGED <<kind, method, left, at, translated, expired, sem, requests, skipped,
                 result>>

\* The body of a single answer cannot be parsed: no error is counted.
BadResponse(r) ==
  /\ pc[r] = "reading" /\ kind[r] # "batch"
  /\ Again(r)
  /\ UNCHANGED <<kind, method, left, at, translated, expired, sem, requests, errors,
                 skipped, result>>

TooLarge(r) ==
  /\ pc[r] = "reading"
  /\ Refuse(r)
  /\ UNCHANGED <<kind, method, left, at, translated, expired, sem, requests, errors,
                 skipped>>

\* A batch is answered with one object, or with too few or too many: the next
\* backend is tried.
UnexpectedJSONRPC(r) ==
  /\ pc[r] = "reading" /\ kind[r] = "batch"
  /\ CountError(r)
  /\ skipped' = [skipped EXCEPT ![r] = @ \cup {at[r]}]
  /\ pc' = [pc EXCEPT ![r] = "next"]
  /\ UNCHANGED <<kind, method, left, at, attempt, translated, expired, sem, requests,
                 result>>

\* The answer is returned, wrapped if this attempt translated the request.
Serve(r) ==
  /\ pc[r] = "reading"
  /\ result' = [result EXCEPT ![r] = [kind |-> "served", by |-> at[r],
                   method |-> method[r], wrapped |-> translated[r]]]
  /\ pc' = [pc EXCEPT ![r] = "done"]
  /\ UNCHANGED <<kind, method, left, at, attempt, translated, expired, sem, requests,
                 errors, skipped>>

\* The deadline of the client's request passes.
Expire(r) ==
  /\ pc[r] # "done" /\ ~expired[r]
  /\ expired' = [expired EXCEPT ![r] = TRUE]
  /\ UNCHANGED <<kind, pc, method, left, at, attempt, translated, sem, requests,
                 errors, skipped, result>>

Step(r) ==
  \/ \E b \in Backends : TryBackend(r, b) \/ ServeEmpty(r, b)
  \/ NoBackends(r)
  \/ RefuseBatch(r) \/ Translate(r) \/ Prepare(r)
  \/ Acquire(r) \/ AcquireFails(r) \/ SendFails(r) \/ Responds(r)
  \/ ReadFails(r) \/ BadResponse(r) \/ TooLarge(r) \/ UnexpectedJSONRPC(r) \/ Serve(r)

Next == \E r \in Requests : Step(r) \/ Expire(r)

Spec == Init /\ [][Next]_vars

\* A goroutine that can go on does: the HTTP client has a timeout, so that a
\* call which was sent returns.
FairSpec == Spec /\ \A r \in Requests : WF_vars(Step(r))

-----------------------------------------------------------------------------
(* Properties. *)

\* Every variable has the type of the Go variable it stands for.
TypeOK ==
  /\ kind \in [Requests -> Kinds]
  /\ pc \in [Requests -> {"next", "attempt", "acquire", "sent", "reading", "done"}]
  /\ method \in [Requests -> Methods]
  /\ left \in [Requests -> SUBSET Backends]
  /\ at \in [Requests -> Backends \cup {Nowhere}]
  /\ attempt \in [Requests -> 0 .. MaxRetries]
  /\ translated \in [Requests -> BOOLEAN] /\ expired \in [Requests -> BOOLEAN]
  /\ sem \in Int
  /\ requests \in [Requests -> [Backends -> Nat]]
  /\ errors \in [Requests -> [Backends -> Nat]]
  /\ skipped \in [Requests -> SUBSET Backends]
  /\ result \in [Requests -> [kind : {"none", "served", "error", "noBackends"},
                              by : Backends \cup {Nowhere}, method : Methods,
                              wrapped : BOOLEAN]]

\* The error rate of a backend is at most 1: every error counted in doForward
\* belongs to a request counted before it, on every path through the retries.
ErrorsWithinRequests ==
  \A r \in Requests, b \in Backends : errors[r][b] <= requests[r][b]

\* The semaphore counts the calls under way, and no others: doForward gives
\* back what it took whether the call fails, times out or answers.
SemaphoreBalanced ==
  /\ sem = Cardinality({r \in Requests : pc[r] = "sent"})
  /\ sem <= MaxConcurrent

\* A client is told that there are no backends only after each was tried as
\* often as maxRetries says, or answered a batch with unexpected JSON-RPC.
NoBackendsOnlyAfterAll ==
  \A r \in Requests : result[r].kind = "noBackends" =>
    \A b \in Backends : requests[r][b] = MaxRetries + 1 \/ b \in skipped[r]

\* The method named in a wrapped result is the receipts target of the backend
\* that served it, whichever backends were tried before.
WrappedNamesTarget ==
  \A r \in Requests : result[r].kind = "served" /\ result[r].wrapped =>
    result[r].method = Target[result[r].by]

\* consensus_getReceipts: the selected target is returned in the response, in
\* a wrapped result.
ReceiptsWrapped ==
  \A r \in Requests : kind[r] = "receipts" /\ result[r].kind = "served" => result[r].wrapped

\* Every request is answered in the end: no path through doForward keeps the
\* semaphore that the other requests wait for.
AllAnswered == <>(\A r \in Requests : pc[r] = "done")
=============================================================================
