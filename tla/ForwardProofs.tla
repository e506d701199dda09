--------------------------- MODULE ForwardProofs ----------------------------
(***************************************************************************)
(* The backends a request goes to, for any requests and backends:          *)
(* BackendGroup.Forward and ExecuteMulticall, and the groups that Start    *)
(* has checked when the server listens.                                    *)
(***************************************************************************)
EXTENDS BackendForward, Multicall, ProxydStart, FiniteSetTheorems, TLAPS

-----------------------------------------------------------------------------
(***************************************************************************)
(* Proofs about BackendForward, for any requests, backends, targets and    *)
(* bounds.  What is true of a request is stated for one request, because   *)
(* requests share the semaphore and nothing else.                          *)
(***************************************************************************)

\* An attempt that has been counted as a request and has not ended.
Counted(r) == pc[r] \in {"acquire", "sent", "reading"}

\* A backend is being tried, and is none of those left.
AtInv(r) ==
  Counted(r) \/ pc[r] = "attempt" => at[r] \in Backends /\ at[r] \notin left[r]

\* The requests counted at a backend are the attempts made there.
AttemptInv(r) ==
  /\ \A b \in left[r] : requests[r][b] = 0
  /\ pc[r] = "attempt" => requests[r][at[r]] = attempt[r]
  /\ Counted(r) => requests[r][at[r]] = attempt[r] + 1

\* While an attempt is under way its own error is still to be counted.
ErrorInv(r) ==
  /\ \A b \in Backends : errors[r][b] <= requests[r][b]
  /\ Counted(r) => errors[r][at[r]] + 1 <= requests[r][at[r]]

\* A backend that was left has had all its attempts, or was skipped.
TriedInv(r) ==
  /\ result[r].kind # "none" => pc[r] = "done"
  /\ pc[r] # "done" \/ result[r].kind = "noBackends" =>
       \A b \in Backends \ left[r] :
         \/ requests[r][b] = MaxRetries + 1
         \/ b \in skipped[r]
         \/ b = at[r] /\ (Counted(r) \/ pc[r] = "attempt")
  /\ result[r].kind = "noBackends" => left[r] = {}

\* A translated attempt carries the target of the backend it goes to.
WrapInv(r) ==
  /\ Counted(r) /\ translated[r] => method[r] = Target[at[r]]
  /\ result[r].kind = "served" /\ result[r].wrapped =>
       result[r].method = Target[result[r].by]
  /\ result[r].wrapped => result[r].kind = "served"

RequestInv(r) == AtInv(r) /\ AttemptInv(r) /\ ErrorInv(r) /\ TriedInv(r) /\ WrapInv(r)

\* The inductive invariant.
ForwardInv == TypeOK /\ \A r \in Requests : RequestInv(r)

-----------------------------------------------------------------------------
(* The types. *)

PcType == pc \in [Requests -> {"next", "attempt", "acquire", "sent", "reading", "done"}]
AttemptType == attempt \in [Requests -> 0 .. MaxRetries]
RequestsType == requests \in [Requests -> [Backends -> Nat]]
ErrorsType == errors \in [Requests -> [Backends -> Nat]]
ResultType ==
  result \in [Requests -> [kind : {"none", "served", "error", "noBackends"},
                           by : Backends \cup {Nowhere}, method : Methods,
                           wrapped : BOOLEAN]]
FlagType == translated \in [Requests -> BOOLEAN] /\ expired \in [Requests -> BOOLEAN]
PlaceType ==
  /\ kind \in [Requests -> Kinds]
  /\ method \in [Requests -> Methods]
  /\ left \in [Requests -> SUBSET Backends]
  /\ at \in [Requests -> Backends \cup {Nowhere}]
  /\ sem \in Int
  /\ skipped \in [Requests -> SUBSET Backends]

TypeParts == /\ PcType /\ AttemptType /\ RequestsType /\ ErrorsType
             /\ ResultType /\ FlagType /\ PlaceType

\* TypeOK, variable by variable, before and after a step.
LEMMA TypeOKParts == (TypeOK <=> TypeParts) /\ (TypeOK' <=> TypeParts')
BY Zenon DEF TypeOK, TypeParts, PcType, AttemptType, RequestsType, ErrorsType,
             ResultType, FlagType, PlaceType

\* Again sets the control point and the attempt of a request, within bounds.
LEMMA AgainType ==
  ASSUME PcType, AttemptType, NEW r \in Requests, Again(r)
  PROVE  PcType' /\ AttemptType'
BY ForwardAssumption DEF PcType, AttemptType, Again

\* Refuse sets the control point and the result of a request.
LEMMA RefuseType ==
  ASSUME PcType, AttemptType, ResultType, NEW r \in Requests, Refuse(r)
  PROVE  PcType' /\ AttemptType' /\ ResultType'
<1>1. PcType' /\ AttemptType'
  BY Zenon DEF PcType, AttemptType, Refuse
<1>2. ResultType'
  BY Zenon DEF ResultType, Refuse
<1> QED BY <1>1, <1>2, Zenon

\* The two counters count in Nat, at the backend being tried.
LEMMA CountType ==
  ASSUME NEW r \in Requests, at[r] \in Backends
  PROVE  /\ RequestsType /\ CountRequest(r) => RequestsType'
         /\ ErrorsType /\ CountError(r) => ErrorsType'
BY DEF RequestsType, ErrorsType, CountRequest, CountError

\* A step of one request keeps every type.
LEMMA StepTypeOK ==
  ASSUME TypeOK, NEW r \in Requests, AtInv(r), Step(r) \/ Expire(r)
  PROVE  TypeOK'
<1> SUFFICES TypeParts'
  BY TypeOKParts, Zenon
<1>0. TypeParts /\ PcType /\ AttemptType /\ RequestsType /\ ErrorsType /\ ResultType
      /\ FlagType /\ PlaceType
  BY TypeOKParts, Zenon DEF TypeParts
<1>a. Counted(r) \/ pc[r] = "attempt" => at[r] \in Backends
  BY Zenon DEF AtInv
<1>1. ASSUME NEW b \in Backends, TryBackend(r, b) PROVE TypeParts'
  <2>1. FlagType'
    BY <1>1, <1>0, Zenon DEF TryBackend, FlagType
  <2>2. ResultType'
    BY <1>1, <1>0, Zenon DEF TryBackend, ResultType
  <2>3. PcType' /\ AttemptType' /\ RequestsType' /\ ErrorsType' /\ PlaceType'
    BY <1>1, <1>0, ForwardAssumption DEF TryBackend, PcType, AttemptType, RequestsType,
       ErrorsType, PlaceType
  <2> QED BY <2>1, <2>2, <2>3, Zenon DEF TypeParts
<1>2. ASSUME NEW b \in Backends, ServeEmpty(r, b) PROVE TypeParts'
  <2>1. FlagType'
    BY <1>2, <1>0, Zenon DEF ServeEmpty, FlagType
  <2>2. ResultType'
    BY <1>2, <1>0, Zenon DEF ServeEmpty, ResultType
  <2>3. PcType' /\ AttemptType' /\ RequestsType' /\ ErrorsType' /\ PlaceType'
    BY <1>2, <1>0, ForwardAssumption, Zenon DEF ServeEmpty, PcType, AttemptType, RequestsType,
       ErrorsType, PlaceType
  <2> QED BY <2>1, <2>2, <2>3, Zenon DEF TypeParts
<1>3. CASE NoBackends(r)
  <2>1. FlagType'
    BY <1>3, <1>0, Zenon DEF NoBackends, FlagType
  <2>2. ResultType'
    BY <1>3, <1>0, Zenon DEF NoBackends, ResultType
  <2>3. PcType' /\ AttemptType' /\ RequestsType' /\ ErrorsType' /\ PlaceType'
    BY <1>3, <1>0, ForwardAssumption, Zenon DEF NoBackends, PcType, AttemptType, RequestsType,
       ErrorsType, PlaceType
  <2> QED BY <2>1, <2>2, <2>3, Zenon DEF TypeParts
<1>4. CASE RefuseBatch(r)
  <2>1. RequestsType'
    BY <1>4, <1>0, <1>a, CountType, Zenon DEF RefuseBatch
  <2>2. PcType' /\ AttemptType' /\ ResultType'
    BY <1>4, <1>0, RefuseType, Zenon DEF RefuseBatch
  <2>3. FlagType'
    BY <1>4, <1>0, Zenon DEF RefuseBatch, FlagType
  <2>4. ErrorsType' /\ PlaceType'
    BY <1>4, <1>0, ForwardAssumption, Zenon DEF RefuseBatch, ErrorsType, PlaceType
  <2> QED BY <2>1, <2>2, <2>3, <2>4, Zenon DEF TypeParts
<1>5. CASE Translate(r)
  <2>1. RequestsType'
    BY <1>5, <1>0, <1>a, CountType, Zenon DEF Translate
  <2>2. PcType' /\ AttemptType'
    BY <1>5, <1>0, AgainType, RefuseType, Zenon DEF Translate, PcType, AttemptType
  <2>3. ResultType'
    BY <1>5, <1>0, RefuseType, Zenon DEF Translate, ResultType
  <2>4. FlagType'
    BY <1>5, <1>0, Zenon DEF Translate, FlagType
  <2>5. ErrorsType' /\ PlaceType'
    BY <1>5, <1>0, <1>a, ForwardAssumption, Zenon DEF Translate, ErrorsType, PlaceType,
       Methods, Supported, Unsupported
  <2> QED BY <2>1, <2>2, <2>3, <2>4, <2>5, Zenon DEF TypeParts
<1>6. CASE Prepare(r)
  <2>1. RequestsType'
    BY <1>6, <1>0, <1>a, CountType, Zenon DEF Prepare
  <2>2. FlagType'
    BY <1>6, <1>0, Zenon DEF Prepare, FlagType
  <2>3. ResultType'
    BY <1>6, <1>0, Zenon DEF Prepare, ResultType
  <2>4. PcType' /\ AttemptType' /\ ErrorsType' /\ PlaceType'
    BY <1>6, <1>0, ForwardAssumption, Zenon DEF Prepare, PcType, AttemptType, ErrorsType,
       PlaceType
  <2> QED BY <2>1, <2>2, <2>3, <2>4, Zenon DEF TypeParts
<1>7. CASE Acquire(r)
  <2>1. FlagType'
    BY <1>7, <1>0, Zenon DEF Acquire, FlagType
  <2>2. ResultType'
    BY <1>7, <1>0, Zenon DEF Acquire, ResultType
  <2>3. PcType' /\ AttemptType' /\ RequestsType' /\ ErrorsType' /\ PlaceType'
    BY <1>7, <1>0, ForwardAssumption DEF Acquire, PcType, AttemptType, RequestsType,
       ErrorsType, PlaceType
  <2> QED BY <2>1, <2>2, <2>3, Zenon DEF TypeParts
<1>8. CASE AcquireFails(r)
  <2>1. ErrorsType'
    BY <1>8, <1>0, <1>a, CountType, Zenon DEF AcquireFails, Counted
  <2>2. PcType' /\ AttemptType'
    BY <1>8, <1>0, AgainType, Zenon DEF AcquireFails
  <2>3. FlagType'
    BY <1>8, <1>0, Zenon DEF AcquireFails, FlagType
  <2>4. ResultType'
    BY <1>8, <1>0, Zenon DEF AcquireFails, ResultType
  <2>5. RequestsType' /\ PlaceType'
    BY <1>8, <1>0, ForwardAssumption, Zenon DEF AcquireFails, RequestsType, PlaceType
  <2> QED BY <2>1, <2>2, <2>3, <2>4, <2>5, Zenon DEF TypeParts
<1>9. CASE SendFails(r)
  <2>1. ErrorsType'
    BY <1>9, <1>0, <1>a, CountType, Zenon DEF SendFails, Counted
  <2>2. PcType' /\ AttemptType'
    BY <1>9, <1>0, AgainType, Zenon DEF SendFails
  <2>3. FlagType'
    BY <1>9, <1>0, Zenon DEF SendFails, FlagType
  <2>4. ResultType'
    BY <1>9, <1>0, Zenon DEF SendFails, ResultType
  <2>5. RequestsType' /\ PlaceType'
    BY <1>9, <1>0, ForwardAssumption DEF SendFails, RequestsType, PlaceType
  <2> QED BY <2>1, <2>2, <2>3, <2>4, <2>5, Zenon DEF TypeParts
<1>10. CASE Responds(r)
  <2>1. FlagType'
    BY <1>10, <1>0, Zenon DEF Responds, FlagType
  <2>2. ResultType'
    BY <1>10, <1>0, Zenon DEF Responds, ResultType
  <2>3. PcType' /\ AttemptType' /\ RequestsType' /\ ErrorsType' /\ PlaceType'
    BY <1>10, <1>0, ForwardAssumption DEF Responds, PcType, AttemptType, RequestsType,
       ErrorsType, PlaceType
  <2> QED BY <2>1, <2>2, <2>3, Zenon DEF TypeParts
<1>11. CASE ReadFails(r)
  <2>1. ErrorsType'
    BY <1>11, <1>0, <1>a, CountType, Zenon DEF ReadFails, Counted
  <2>2. PcType' /\ AttemptType'
    BY <1>11, <1>0, AgainType, Zenon DEF ReadFails
  <2>3. FlagType'
    BY <1>11, <1>0, Zenon DEF ReadFails, FlagType
  <2>4. ResultType'
    BY <1>11, <1>0, Zenon DEF ReadFails, ResultType
  <2>5. RequestsType' /\ PlaceType'
    BY <1>11, <1>0, ForwardAssumption, Zenon DEF ReadFails, RequestsType, PlaceType
  <2> QED BY <2>1, <2>2, <2>3, <2>4, <2>5, Zenon DEF TypeParts
<1>12. CASE BadResponse(r)
  <2>1. PcType' /\ AttemptType'
    BY <1>12, <1>0, AgainType, Zenon DEF BadResponse
  <2>2. FlagType'
    BY <1>12, <1>0, Zenon DEF BadResponse, FlagType
  <2>3. ResultType'
    BY <1>12, <1>0, Zenon DEF BadResponse, ResultType
  <2>4. RequestsType' /\ ErrorsType' /\ PlaceType'
    BY <1>12, <1>0, ForwardAssumption, Zenon DEF BadResponse, RequestsType, ErrorsType,
       PlaceType
  <2> QED BY <2>1, <2>2, <2>3, <2>4, Zenon DEF TypeParts
<1>13. CASE TooLarge(r)
  <2>1. PcType' /\ AttemptType' /\ ResultType'
    BY <1>13, <1>0, RefuseType, Zenon DEF TooLarge
  <2>2. FlagType'
    BY <1>13, <1>0, Zenon DEF TooLarge, FlagType
  <2>3. RequestsType' /\ ErrorsType' /\ PlaceType'
    BY <1>13, <1>0, ForwardAssumption, Zenon DEF TooLarge, RequestsType, ErrorsType, PlaceType
  <2> QED BY <2>1, <2>2, <2>3, Zenon DEF TypeParts
<1>14. CASE UnexpectedJSONRPC(r)
  <2>1. ErrorsType'
    BY <1>14, <1>0, <1>a, CountType, Zenon DEF UnexpectedJSONRPC, Counted
  <2>2. FlagType'
    BY <1>14, <1>0, Zenon DEF UnexpectedJSONRPC, FlagType
  <2>3. ResultType'
    BY <1>14, <1>0, Zenon DEF UnexpectedJSONRPC, ResultType
  <2>4. PcType' /\ AttemptType' /\ RequestsType' /\ PlaceType'
    BY <1>14, <1>0, <1>a, ForwardAssumption DEF UnexpectedJSONRPC, PcType, AttemptType,
       RequestsType, PlaceType, Counted
  <2> QED BY <2>1, <2>2, <2>3, <2>4, Zenon DEF TypeParts
<1>15. CASE Serve(r)
  <2>1. FlagType'
    BY <1>15, <1>0, Zenon DEF Serve, FlagType
  <2>2. ResultType'
    <3>1. [kind |-> "served", by |-> at[r], method |-> method[r],
       wrapped |-> translated[r]]
            \in [kind : {"none", "served", "error", "noBackends"},
                 by : Backends \cup {Nowhere}, method : Methods, wrapped : BOOLEAN]
      BY <1>0, Zenon DEF PlaceType, FlagType
    <3> QED
      BY <1>15, <1>0, <3>1, Zenon DEF Serve, ResultType
  <2>3. PcType' /\ AttemptType' /\ RequestsType' /\ ErrorsType' /\ PlaceType'
    BY <1>15, <1>0, ForwardAssumption, Zenon DEF Serve, PcType, AttemptType, RequestsType,
       ErrorsType, PlaceType
  <2> QED BY <2>1, <2>2, <2>3, Zenon DEF TypeParts
<1>16. CASE Expire(r)
  <2>1. FlagType'
    BY <1>16, <1>0, Zenon DEF Expire, FlagType
  <2>2. ResultType'
    BY <1>16, <1>0, Zenon DEF Expire, ResultType
  <2>3. PcType' /\ AttemptType' /\ RequestsType' /\ ErrorsType' /\ PlaceType'
    BY <1>16, <1>0, ForwardAssumption, Zenon DEF Expire, PcType, AttemptType, RequestsType,
       ErrorsType, PlaceType
  <2> QED BY <2>1, <2>2, <2>3, Zenon DEF TypeParts
<1> QED
  BY <1>1, <1>2, <1>3, <1>4, <1>5, <1>6, <1>7, <1>8, <1>9, <1>10, <1>11, <1>12, <1>13,
     <1>14, <1>15, <1>16, Zenon DEF Step

-----------------------------------------------------------------------------
(* What a step does to a request. *)

\* What the invariant of a request reads.
Unmoved(q) ==
  /\ pc'[q] = pc[q] /\ method'[q] = method[q] /\ left'[q] = left[q] /\ at'[q] = at[q]
  /\ attempt'[q] = attempt[q] /\ translated'[q] = translated[q]
  /\ requests'[q] = requests[q] /\ errors'[q] = errors[q]
  /\ skipped'[q] = skipped[q] /\ result'[q] = result[q]

\* A step of one request moves no other.
LEMMA Frame ==
  ASSUME TypeOK, NEW r \in Requests, NEW q \in Requests, q # r, Step(r) \/ Expire(r)
  PROVE  Unmoved(q)
<1>1. ASSUME NEW b \in Backends, TryBackend(r, b) PROVE Unmoved(q)
  BY <1>1, Zenon DEF TypeOK, Unmoved, TryBackend
<1>2. ASSUME NEW b \in Backends, ServeEmpty(r, b) PROVE Unmoved(q)
  BY <1>2, Zenon DEF TypeOK, Unmoved, ServeEmpty
<1>3. CASE NoBackends(r)
  BY <1>3, Zenon DEF TypeOK, Unmoved, NoBackends
<1>4. CASE RefuseBatch(r)
  BY <1>4, Zenon DEF TypeOK, Unmoved, RefuseBatch, CountRequest, Refuse
<1>5. CASE Translate(r)
  BY <1>5 DEF TypeOK, Unmoved, Translate, CountRequest, Again, Refuse
<1>6. CASE Prepare(r)
  BY <1>6, Zenon DEF TypeOK, Unmoved, Prepare, CountRequest
<1>7. CASE Acquire(r)
  BY <1>7, Zenon DEF TypeOK, Unmoved, Acquire
<1>8. CASE AcquireFails(r)
  BY <1>8 DEF TypeOK, Unmoved, AcquireFails, CountError, Again
<1>9. CASE SendFails(r)
  BY <1>9 DEF TypeOK, Unmoved, SendFails, CountError, Again
<1>10. CASE Responds(r)
  BY <1>10, Zenon DEF TypeOK, Unmoved, Responds
<1>11. CASE ReadFails(r)
  BY <1>11 DEF TypeOK, Unmoved, ReadFails, CountError, Again
<1>12. CASE BadResponse(r)
  BY <1>12 DEF TypeOK, Unmoved, BadResponse, Again
<1>13. CASE TooLarge(r)
  BY <1>13, Zenon DEF TypeOK, Unmoved, TooLarge, Refuse
<1>14. CASE UnexpectedJSONRPC(r)
  BY <1>14, Zenon DEF TypeOK, Unmoved, UnexpectedJSONRPC, CountError
<1>15. CASE Serve(r)
  BY <1>15, Zenon DEF TypeOK, Unmoved, Serve
<1>16. CASE Expire(r)
  BY <1>16, Zenon DEF TypeOK, Unmoved, Expire
<1> QED
  BY <1>1, <1>2, <1>3, <1>4, <1>5, <1>6, <1>7, <1>8, <1>9, <1>10,
     <1>11, <1>12, <1>13, <1>14, <1>15, <1>16 DEF Step

\* A request that does not move keeps its invariant.
LEMMA UnmovedInv ==
  ASSUME NEW q \in Requests, RequestInv(q), Unmoved(q)
  PROVE  RequestInv(q)'
BY DEF RequestInv, AtInv, AttemptInv, ErrorInv, TriedInv, WrapInv, Counted, Unmoved

\* A step of a request tries a backend of the group.
LEMMA StepAt ==
  ASSUME TypeOK, NEW r \in Requests, AtInv(r),
         Step(r) \/ Expire(r)
  PROVE  AtInv(r)'
<1>1. ASSUME NEW b \in Backends, TryBackend(r, b) PROVE AtInv(r)'
  BY <1>1, ForwardAssumption, Zenon DEF TypeOK, AtInv, Counted, TryBackend
<1>2. ASSUME NEW b \in Backends, ServeEmpty(r, b) PROVE AtInv(r)'
  BY <1>2, ForwardAssumption, Zenon DEF TypeOK, AtInv, Counted, ServeEmpty
<1>3. CASE NoBackends(r)
  BY <1>3, ForwardAssumption DEF TypeOK, AtInv, Counted, NoBackends
<1>4. CASE RefuseBatch(r)
  BY <1>4, ForwardAssumption, Zenon
     DEF TypeOK, AtInv, Counted, RefuseBatch, CountRequest, Refuse
<1>5. CASE Translate(r)
  BY <1>5, ForwardAssumption
     DEF TypeOK, AtInv, Counted, Translate, CountRequest, Again, Refuse
<1>6. CASE Prepare(r)
  BY <1>6, ForwardAssumption, Zenon DEF TypeOK, AtInv, Counted, Prepare, CountRequest
<1>7. CASE Acquire(r)
  BY <1>7, ForwardAssumption DEF TypeOK, AtInv, Counted, Acquire
<1>8. CASE AcquireFails(r)
  BY <1>8, ForwardAssumption, Zenon DEF TypeOK, AtInv, Counted, AcquireFails, CountError, Again
<1>9. CASE SendFails(r)
  BY <1>9, ForwardAssumption, Zenon DEF TypeOK, AtInv, Counted, SendFails, CountError, Again
<1>10. CASE Responds(r)
  BY <1>10, ForwardAssumption, Zenon DEF TypeOK, AtInv, Counted, Responds
<1>11. CASE ReadFails(r)
  BY <1>11, ForwardAssumption, Zenon DEF TypeOK, AtInv, Counted, ReadFails, CountError, Again
<1>12. CASE BadResponse(r)
  BY <1>12, ForwardAssumption, Zenon DEF TypeOK, AtInv, Counted, BadResponse, Again
<1>13. CASE TooLarge(r)
  BY <1>13, ForwardAssumption, Zenon DEF TypeOK, AtInv, Counted, TooLarge, Refuse
<1>14. CASE UnexpectedJSONRPC(r)
  BY <1>14, ForwardAssumption, Zenon DEF TypeOK, AtInv, Counted, UnexpectedJSONRPC, CountError
<1>15. CASE Serve(r)
  BY <1>15, ForwardAssumption DEF TypeOK, AtInv, Counted, Serve
<1>16. CASE Expire(r)
  BY <1>16, ForwardAssumption, Zenon DEF TypeOK, AtInv, Counted, Expire
<1> QED
  BY <1>1, <1>2, <1>3, <1>4, <1>5, <1>6, <1>7, <1>8, <1>9, <1>10,
     <1>11, <1>12, <1>13, <1>14, <1>15, <1>16 DEF Step

\* A step of a request counts its attempts as requests.
LEMMA StepAttempt ==
  ASSUME TypeOK, NEW r \in Requests, AtInv(r), AttemptInv(r),
         Step(r) \/ Expire(r)
  PROVE  AttemptInv(r)'
<1>1. ASSUME NEW b \in Backends, TryBackend(r, b) PROVE AttemptInv(r)'
  BY <1>1, ForwardAssumption DEF TypeOK, AtInv, AttemptInv, Counted, TryBackend
<1>2. ASSUME NEW b \in Backends, ServeEmpty(r, b) PROVE AttemptInv(r)'
  BY <1>2, ForwardAssumption, Zenon DEF TypeOK, AtInv, AttemptInv, Counted, ServeEmpty
<1>3. CASE NoBackends(r)
  BY <1>3, ForwardAssumption, Zenon DEF TypeOK, AtInv, AttemptInv, Counted, NoBackends
<1>4. CASE RefuseBatch(r)
  BY <1>4, ForwardAssumption
     DEF TypeOK, AtInv, AttemptInv, Counted, RefuseBatch, CountRequest, Refuse
<1>5. CASE Translate(r)
  BY <1>5, ForwardAssumption
     DEF TypeOK, AtInv, AttemptInv, Counted, Translate, CountRequest, Again, Refuse
<1>6. CASE Prepare(r)
  BY <1>6, ForwardAssumption
     DEF TypeOK, AtInv, AttemptInv, Counted, Prepare, CountRequest
<1>7. CASE Acquire(r)
  BY <1>7, ForwardAssumption, Zenon DEF TypeOK, AtInv, AttemptInv, Counted, Acquire
<1>8. CASE AcquireFails(r)
  BY <1>8, ForwardAssumption
     DEF TypeOK, AtInv, AttemptInv, Counted, AcquireFails, CountError, Again
<1>9. CASE SendFails(r)
  BY <1>9, ForwardAssumption
     DEF TypeOK, AtInv, AttemptInv, Counted, SendFails, CountError, Again
<1>10. CASE Responds(r)
  BY <1>10, ForwardAssumption, Zenon DEF TypeOK, AtInv, AttemptInv, Counted, Responds
<1>11. CASE ReadFails(r)
  BY <1>11, ForwardAssumption
     DEF TypeOK, AtInv, AttemptInv, Counted, ReadFails, CountError, Again
<1>12. CASE BadResponse(r)
  BY <1>12, ForwardAssumption DEF TypeOK, AtInv, AttemptInv, Counted, BadResponse, Again
<1>13. CASE TooLarge(r)
  BY <1>13, ForwardAssumption, Zenon DEF TypeOK, AtInv, AttemptInv, Counted, TooLarge, Refuse
<1>14. CASE UnexpectedJSONRPC(r)
  BY <1>14, ForwardAssumption, Zenon
     DEF TypeOK, AtInv, AttemptInv, Counted, UnexpectedJSONRPC, CountError
<1>15. CASE Serve(r)
  BY <1>15, ForwardAssumption, Zenon DEF TypeOK, AtInv, AttemptInv, Counted, Serve
<1>16. CASE Expire(r)
  BY <1>16, ForwardAssumption DEF TypeOK, AtInv, AttemptInv, Counted, Expire
<1> QED
  BY <1>1, <1>2, <1>3, <1>4, <1>5, <1>6, <1>7, <1>8, <1>9, <1>10,
     <1>11, <1>12, <1>13, <1>14, <1>15, <1>16 DEF Step

\* A step of a request counts at most one error for an attempt.
LEMMA StepError ==
  ASSUME TypeOK, NEW r \in Requests, AtInv(r), ErrorInv(r),
         Step(r) \/ Expire(r)
  PROVE  ErrorInv(r)'
<1>1. ASSUME NEW b \in Backends, TryBackend(r, b) PROVE ErrorInv(r)'
  BY <1>1, ForwardAssumption DEF TypeOK, AtInv, ErrorInv, Counted, TryBackend
<1>2. ASSUME NEW b \in Backends, ServeEmpty(r, b) PROVE ErrorInv(r)'
  BY <1>2, ForwardAssumption, Zenon DEF TypeOK, AtInv, ErrorInv, Counted, ServeEmpty
<1>3. CASE NoBackends(r)
  BY <1>3, ForwardAssumption, Zenon DEF TypeOK, AtInv, ErrorInv, Counted, NoBackends
<1>4. CASE RefuseBatch(r)
  BY <1>4, ForwardAssumption
     DEF TypeOK, AtInv, ErrorInv, Counted, RefuseBatch, CountRequest, Refuse
<1>5. CASE Translate(r)
  BY <1>5, ForwardAssumption
     DEF TypeOK, AtInv, ErrorInv, Counted, Translate, CountRequest, Again, Refuse
<1>6. CASE Prepare(r)
  BY <1>6, ForwardAssumption DEF TypeOK, AtInv, ErrorInv, Counted, Prepare, CountRequest
<1>7. CASE Acquire(r)
  BY <1>7, ForwardAssumption, Zenon DEF TypeOK, AtInv, ErrorInv, Counted, Acquire
<1>8. CASE AcquireFails(r)
  BY <1>8, ForwardAssumption
     DEF TypeOK, AtInv, ErrorInv, Counted, AcquireFails, CountError, Again
<1>9. CASE SendFails(r)
  BY <1>9, ForwardAssumption
     DEF TypeOK, AtInv, ErrorInv, Counted, SendFails, CountError, Again
<1>10. CASE Responds(r)
  BY <1>10, ForwardAssumption, Zenon DEF TypeOK, AtInv, ErrorInv, Counted, Responds
<1>11. CASE ReadFails(r)
  BY <1>11, ForwardAssumption
     DEF TypeOK, AtInv, ErrorInv, Counted, ReadFails, CountError, Again
<1>12. CASE BadResponse(r)
  BY <1>12, ForwardAssumption, Zenon DEF TypeOK, AtInv, ErrorInv, Counted, BadResponse, Again
<1>13. CASE TooLarge(r)
  BY <1>13, ForwardAssumption, Zenon DEF TypeOK, AtInv, ErrorInv, Counted, TooLarge, Refuse
<1>14. CASE UnexpectedJSONRPC(r)
  BY <1>14, ForwardAssumption
     DEF TypeOK, AtInv, ErrorInv, Counted, UnexpectedJSONRPC, CountError
<1>15. CASE Serve(r)
  BY <1>15, ForwardAssumption, Zenon DEF TypeOK, AtInv, ErrorInv, Counted, Serve
<1>16. CASE Expire(r)
  BY <1>16, ForwardAssumption DEF TypeOK, AtInv, ErrorInv, Counted, Expire
<1> QED
  BY <1>1, <1>2, <1>3, <1>4, <1>5, <1>6, <1>7, <1>8, <1>9, <1>10,
     <1>11, <1>12, <1>13, <1>14, <1>15, <1>16, Zenon DEF Step

\* A step of a request leaves a backend only after all its attempts.
LEMMA StepTried ==
  ASSUME TypeOK, NEW r \in Requests, AtInv(r), AttemptInv(r), TriedInv(r),
         Step(r) \/ Expire(r)
  PROVE  TriedInv(r)'
<1>1. ASSUME NEW b \in Backends, TryBackend(r, b) PROVE TriedInv(r)'
  BY <1>1, ForwardAssumption
     DEF TypeOK, AtInv, AttemptInv, TriedInv, Counted, TryBackend
<1>2. ASSUME NEW b \in Backends, ServeEmpty(r, b) PROVE TriedInv(r)'
  BY <1>2, ForwardAssumption
     DEF TypeOK, AtInv, AttemptInv, TriedInv, Counted, ServeEmpty
<1>3. CASE NoBackends(r)
  BY <1>3, ForwardAssumption, Zenon
     DEF TypeOK, AtInv, AttemptInv, TriedInv, Counted, NoBackends
<1>4. CASE RefuseBatch(r)
  BY <1>4, ForwardAssumption
     DEF TypeOK, AtInv, AttemptInv, TriedInv, Counted, RefuseBatch, CountRequest, Refuse
<1>5. CASE Translate(r)
  <2>1. CASE kind[r] = "badReceipts" /\ attempt[r] < MaxRetries
    BY <1>5, <2>1, ForwardAssumption
       DEF TypeOK, AtInv, TriedInv, Counted, Translate, CountRequest, Again
  <2>2. CASE kind[r] = "badReceipts" /\ ~(attempt[r] < MaxRetries)
    <3>1. attempt[r] = MaxRetries
      <4>1. attempt[r] \in 0 .. MaxRetries
        BY Zenon DEF TypeOK
      <4>2. MaxRetries \in Nat
        BY ForwardAssumption, Zenon
      <4> QED
        BY <2>2, <4>1, <4>2
    <3>2. requests'[r][at[r]] = MaxRetries + 1
      BY <1>5, <3>1 DEF TypeOK, AtInv, AttemptInv, Translate, CountRequest
    <3> QED
      BY <1>5, <2>2, <3>2
         DEF TypeOK, AtInv, TriedInv, Counted, Translate, CountRequest, Again
  <2>3. CASE kind[r] = "receipts" /\ Target[at[r]] = Unsupported
    BY <1>5, <2>3 DEF TypeOK, AtInv, TriedInv, Counted, Translate, CountRequest, Refuse
  <2>4. CASE kind[r] = "receipts" /\ Target[at[r]] # Unsupported
    BY <1>5, <2>4 DEF TypeOK, AtInv, TriedInv, Counted, Translate, CountRequest
  <2> QED
    BY <1>5, <2>1, <2>2, <2>3, <2>4, Zenon DEF Translate
<1>6. CASE Prepare(r)
  BY <1>6, ForwardAssumption
     DEF TypeOK, AtInv, AttemptInv, TriedInv, Counted, Prepare, CountRequest
<1>7. CASE Acquire(r)
  BY <1>7, ForwardAssumption DEF TypeOK, AtInv, AttemptInv, TriedInv, Counted, Acquire
<1>8. CASE AcquireFails(r)
  BY <1>8, ForwardAssumption
     DEF TypeOK, AtInv, AttemptInv, TriedInv, Counted, AcquireFails, CountError, Again
<1>9. CASE SendFails(r)
  BY <1>9, ForwardAssumption
     DEF TypeOK, AtInv, AttemptInv, TriedInv, Counted, SendFails, CountError, Again
<1>10. CASE Responds(r)
  BY <1>10, ForwardAssumption DEF TypeOK, AtInv, AttemptInv, TriedInv, Counted, Responds
<1>11. CASE ReadFails(r)
  BY <1>11, ForwardAssumption
     DEF TypeOK, AtInv, AttemptInv, TriedInv, Counted, ReadFails, CountError, Again
<1>12. CASE BadResponse(r)
  BY <1>12, ForwardAssumption
     DEF TypeOK, AtInv, AttemptInv, TriedInv, Counted, BadResponse, Again
<1>13. CASE TooLarge(r)
  BY <1>13, ForwardAssumption
     DEF TypeOK, AtInv, AttemptInv, TriedInv, Counted, TooLarge, Refuse
<1>14. CASE UnexpectedJSONRPC(r)
  BY <1>14, ForwardAssumption
     DEF TypeOK, AtInv, AttemptInv, TriedInv, Counted, UnexpectedJSONRPC, CountError
<1>15. CASE Serve(r)
  BY <1>15, ForwardAssumption, Zenon DEF TypeOK, AtInv, AttemptInv, TriedInv, Counted, Serve
<1>16. CASE Expire(r)
  BY <1>16, ForwardAssumption, Zenon DEF TypeOK, AtInv, AttemptInv, TriedInv, Counted, Expire
<1> QED
  BY <1>1, <1>2, <1>3, <1>4, <1>5, <1>6, <1>7, <1>8, <1>9, <1>10,
     <1>11, <1>12, <1>13, <1>14, <1>15, <1>16 DEF Step

\* A step of a request wraps a result under the target of the backend.
LEMMA StepWrap ==
  ASSUME TypeOK, NEW r \in Requests, AtInv(r), TriedInv(r), WrapInv(r),
         Step(r) \/ Expire(r)
  PROVE  WrapInv(r)'
<1>1. ASSUME NEW b \in Backends, TryBackend(r, b) PROVE WrapInv(r)'
  BY <1>1, ForwardAssumption, Zenon DEF TypeOK, AtInv, TriedInv, WrapInv, Counted, TryBackend
<1>2. ASSUME NEW b \in Backends, ServeEmpty(r, b) PROVE WrapInv(r)'
  BY <1>2, ForwardAssumption DEF TypeOK, AtInv, TriedInv, WrapInv, Counted, ServeEmpty
<1>3. CASE NoBackends(r)
  BY <1>3, ForwardAssumption DEF TypeOK, AtInv, TriedInv, WrapInv, Counted, NoBackends
<1>4. CASE RefuseBatch(r)
  BY <1>4, ForwardAssumption
     DEF TypeOK, AtInv, TriedInv, WrapInv, Counted, RefuseBatch, CountRequest, Refuse
<1>5. CASE Translate(r)
  <2>1. method'[r] = Target[at[r]] /\ at'[r] = at[r]
    BY <1>5, Zenon DEF TypeOK, Translate
  <2>2. CASE UNCHANGED result
    <3>1. Counted(r)' /\ translated'[r] => method'[r] = Target[at'[r]]
      BY <2>1, Zenon
    <3> QED
      BY <2>2, <3>1, Zenon DEF WrapInv
  <2>3. CASE Refuse(r)
    <3>1. ~result[r].wrapped
      BY <1>5, Zenon DEF Translate, TriedInv, WrapInv
    <3>2. result'[r] = [result[r] EXCEPT !.kind = "error"]
      BY <2>3, Zenon DEF TypeOK, Refuse
    <3>3. ~result'[r].wrapped /\ result'[r].kind = "error"
      BY <3>1, <3>2 DEF TypeOK
    <3> QED
      BY <2>1, <3>3, Zenon DEF WrapInv
  <2> QED
    BY <1>5, <2>2, <2>3, Zenon DEF Translate
<1>6. CASE Prepare(r)
  BY <1>6, ForwardAssumption
     DEF TypeOK, AtInv, TriedInv, WrapInv, Counted, Prepare, CountRequest
<1>7. CASE Acquire(r)
  BY <1>7, ForwardAssumption, Zenon DEF TypeOK, AtInv, TriedInv, WrapInv, Counted, Acquire
<1>8. CASE AcquireFails(r)
  BY <1>8, ForwardAssumption, Zenon
     DEF TypeOK, AtInv, TriedInv, WrapInv, Counted, AcquireFails, CountError, Again
<1>9. CASE SendFails(r)
  BY <1>9, ForwardAssumption, Zenon
     DEF TypeOK, AtInv, TriedInv, WrapInv, Counted, SendFails, CountError, Again
<1>10. CASE Responds(r)
  BY <1>10, ForwardAssumption, Zenon DEF TypeOK, AtInv, TriedInv, WrapInv, Counted, Responds
<1>11. CASE ReadFails(r)
  BY <1>11, ForwardAssumption, Zenon
     DEF TypeOK, AtInv, TriedInv, WrapInv, Counted, ReadFails, CountError, Again
<1>12. CASE BadResponse(r)
  BY <1>12, ForwardAssumption, Zenon
     DEF TypeOK, AtInv, TriedInv, WrapInv, Counted, BadResponse, Again
<1>13. CASE TooLarge(r)
  BY <1>13, ForwardAssumption
     DEF TypeOK, AtInv, TriedInv, WrapInv, Counted, TooLarge, Refuse
<1>14. CASE UnexpectedJSONRPC(r)
  BY <1>14, ForwardAssumption, Zenon
     DEF TypeOK, AtInv, TriedInv, WrapInv, Counted, UnexpectedJSONRPC, CountError
<1>15. CASE Serve(r)
  BY <1>15, ForwardAssumption, Zenon DEF TypeOK, AtInv, TriedInv, WrapInv, Counted, Serve
<1>16. CASE Expire(r)
  BY <1>16, ForwardAssumption, Zenon DEF TypeOK, AtInv, TriedInv, WrapInv, Counted, Expire
<1> QED
  BY <1>1, <1>2, <1>3, <1>4, <1>5, <1>6, <1>7, <1>8, <1>9, <1>10,
     <1>11, <1>12, <1>13, <1>14, <1>15, <1>16, Zenon DEF Step

-----------------------------------------------------------------------------
(* The theorems. *)

\* ForwardInv is an inductive invariant of the forwarding of requests: the
\* bookkeeping of Forward and doForward agrees at every control point.
THEOREM ForwardInvariant == Spec => []ForwardInv
<1>1. Init => ForwardInv
  <2> SUFFICES ASSUME Init PROVE ForwardInv
    BY Zenon
  <2>1. FlagType /\ ResultType
    BY Zenon DEF Init, FlagType, ResultType, NoResult, Methods
  <2>2. PcType /\ AttemptType /\ RequestsType /\ ErrorsType /\ PlaceType
    BY ForwardAssumption DEF Init, PcType, AttemptType, RequestsType, ErrorsType,
       PlaceType, Methods
  <2>3. ASSUME NEW r \in Requests PROVE RequestInv(r)
    BY DEF Init, NoResult, RequestInv, AtInv, AttemptInv, ErrorInv, TriedInv, WrapInv,
       Counted
  <2> QED
    BY <2>1, <2>2, <2>3, TypeOKParts, Zenon DEF ForwardInv, TypeParts
<1>2. ForwardInv /\ [Next]_vars => ForwardInv'
  <2> SUFFICES ASSUME ForwardInv, [Next]_vars PROVE ForwardInv'
    BY Zenon
  <2>1. CASE Next
    <3>1. PICK r \in Requests : Step(r) \/ Expire(r)
      BY <2>1, Zenon DEF Next
    <3>2. TypeOK'
      BY <3>1, StepTypeOK, Zenon DEF ForwardInv, RequestInv
    <3>3. RequestInv(r)'
      BY <3>1, StepAt, StepAttempt, StepError, StepTried, StepWrap, Zenon
         DEF ForwardInv, RequestInv
    <3>4. ASSUME NEW q \in Requests, q # r PROVE RequestInv(q)'
      BY <3>1, <3>4, Frame, UnmovedInv, Zenon DEF ForwardInv
    <3> QED
      BY <3>2, <3>3, <3>4, Zenon DEF ForwardInv
  <2>2. CASE UNCHANGED vars
    <3>1. TypeOK'
      BY <2>2, Zenon DEF ForwardInv, TypeOK, vars
    <3>2. ASSUME NEW q \in Requests PROVE RequestInv(q)'
      BY <2>2, UnmovedInv, Zenon DEF ForwardInv, Unmoved, vars
    <3> QED
      BY <3>1, <3>2, Zenon DEF ForwardInv
  <2> QED
    BY <2>1, <2>2, Zenon
<1> QED
  BY <1>1, <1>2, PTL DEF Spec

\* Every request stays within its attempts, its backends and the stages of
\* Forward and doForward.
THEOREM ForwardTypes == Spec => []TypeOK
<1>1. ForwardInv => TypeOK
  BY Zenon DEF ForwardInv
<1> QED
  BY <1>1, ForwardInvariant, PTL

\* The errors doForward counts at a backend are at most the requests it counts
\* there, on every path through failures, retries and failover.
THEOREM ErrorsWithinRequestsHolds == Spec => []ErrorsWithinRequests
<1>1. ForwardInv => ErrorsWithinRequests
  BY Zenon DEF ForwardInv, RequestInv, ErrorInv, ErrorsWithinRequests
<1> QED
  BY <1>1, ForwardInvariant, PTL

\* ForwardRequestToBackendGroup returns ErrNoBackends only after every backend
\* had maxRetries + 1 attempts or answered a batch with unexpected JSON-RPC.
THEOREM NoBackendsOnlyAfterAllHolds == Spec => []NoBackendsOnlyAfterAll
<1>1. ForwardInv => NoBackendsOnlyAfterAll
  BY Zenon DEF ForwardInv, RequestInv, TriedInv, NoBackendsOnlyAfterAll, Counted
<1> QED
  BY <1>1, ForwardInvariant, PTL

\* The method doForward names in a wrapped result is the receipts target of the
\* backend that served it.
THEOREM WrappedNamesTargetHolds == Spec => []WrappedNamesTarget
<1>1. ForwardInv => WrappedNamesTarget
  BY Zenon DEF ForwardInv, RequestInv, WrapInv, WrappedNamesTarget
<1> QED
  BY <1>1, ForwardInvariant, PTL

-----------------------------------------------------------------------------
(* The semaphore. *)

\* The requests that hold the semaphore.
Sent == {r \in Requests : pc[r] = "sent"}

\* A step takes the semaphore as it starts a call, gives it back as it ends
\* one, and does neither otherwise.
LEMMA StepSent ==
  ASSUME TypeOK, NEW r \in Requests, Step(r) \/ Expire(r)
  PROVE  \/ r \notin Sent /\ Sent' = Sent \cup {r} /\ sem' = sem + 1 /\ sem < MaxConcurrent
         \/ r \in Sent /\ Sent' = Sent \ {r} /\ sem' = sem - 1
         \/ Sent' = Sent /\ sem' = sem
<1>1. ASSUME NEW b \in Backends, TryBackend(r, b) PROVE Sent' = Sent /\ sem' = sem
  BY <1>1, Zenon DEF TypeOK, Sent, TryBackend
<1>2. ASSUME NEW b \in Backends, ServeEmpty(r, b) PROVE Sent' = Sent /\ sem' = sem
  BY <1>2, Zenon DEF TypeOK, Sent, ServeEmpty
<1>3. CASE NoBackends(r)
  BY <1>3, Zenon DEF TypeOK, Sent, NoBackends
<1>4. CASE RefuseBatch(r)
  BY <1>4, Zenon DEF TypeOK, Sent, RefuseBatch, Refuse
<1>5. CASE Translate(r)
  BY <1>5 DEF TypeOK, Sent, Translate, Again, Refuse
<1>6. CASE Prepare(r)
  BY <1>6, Zenon DEF TypeOK, Sent, Prepare
<1>7. CASE Acquire(r)
  BY <1>7 DEF TypeOK, Sent, Acquire
<1>8. CASE AcquireFails(r)
  BY <1>8 DEF TypeOK, Sent, AcquireFails, Again
<1>9. CASE SendFails(r)
  BY <1>9 DEF TypeOK, Sent, SendFails, Again
<1>10. CASE Responds(r)
  BY <1>10, Zenon DEF TypeOK, Sent, Responds
<1>11. CASE ReadFails(r)
  BY <1>11 DEF TypeOK, Sent, ReadFails, Again
<1>12. CASE BadResponse(r)
  BY <1>12 DEF TypeOK, Sent, BadResponse, Again
<1>13. CASE TooLarge(r)
  BY <1>13, Zenon DEF TypeOK, Sent, TooLarge, Refuse
<1>14. CASE UnexpectedJSONRPC(r)
  BY <1>14, Zenon DEF TypeOK, Sent, UnexpectedJSONRPC
<1>15. CASE Serve(r)
  BY <1>15, Zenon DEF TypeOK, Sent, Serve
<1>16. CASE Expire(r)
  BY <1>16, Zenon DEF TypeOK, Sent, Expire
<1> QED
  BY <1>1, <1>2, <1>3, <1>4, <1>5, <1>6, <1>7, <1>8, <1>9, <1>10,
     <1>11, <1>12, <1>13, <1>14, <1>15, <1>16 DEF Step

\* DoLimited releases the semaphore exactly once for each time it acquired it,
\* so that the calls under way are as many as it counts and never too many.
THEOREM SemaphoreBalancedHolds == Spec => []SemaphoreBalanced
<1>1. Init => SemaphoreBalanced
  <2> SUFFICES ASSUME Init PROVE SemaphoreBalanced
    BY Zenon
  <2>1. {r \in Requests : pc[r] = "sent"} = {}
    BY Zenon DEF Init
  <2>2. Cardinality({r \in Requests : pc[r] = "sent"}) = 0
    BY <2>1, FS_EmptySet, Zenon
  <2>3. sem = 0 /\ 0 <= MaxConcurrent
    BY ForwardAssumption DEF Init
  <2> QED
    BY <2>2, <2>3, Zenon DEF SemaphoreBalanced
<1>2. ForwardInv /\ SemaphoreBalanced /\ [Next]_vars => SemaphoreBalanced'
  <2> SUFFICES ASSUME ForwardInv, SemaphoreBalanced, [Next]_vars PROVE SemaphoreBalanced'
    BY Zenon
  <2>1. IsFiniteSet(Sent)
    BY FS_Subset, ForwardAssumption, Zenon DEF Sent
  <2>2. sem = Cardinality(Sent) /\ sem <= MaxConcurrent
    BY Zenon DEF SemaphoreBalanced, Sent
  <2>3. sem \in Int /\ MaxConcurrent \in Int
    BY ForwardAssumption DEF ForwardInv, TypeOK
  <2>4. CASE Next
    <3>1. PICK r \in Requests : Step(r) \/ Expire(r)
      BY <2>4, Zenon DEF Next
    <3>2. CASE r \notin Sent /\ Sent' = Sent \cup {r} /\ sem' = sem + 1 /\ sem < MaxConcurrent
      <4>1. Cardinality(Sent \cup {r}) = Cardinality(Sent) + 1
        BY <2>1, <3>2, FS_AddElement, Zenon
      <4>2. sem' = Cardinality(Sent') /\ sem' <= MaxConcurrent
        BY <2>2, <2>3, <3>2, <4>1
      <4> QED
        BY <4>2, Zenon DEF SemaphoreBalanced, Sent
    <3>3. CASE r \in Sent /\ Sent' = Sent \ {r} /\ sem' = sem - 1
      <4>1. Cardinality(Sent \ {r}) = Cardinality(Sent) - 1
        BY <2>1, <3>3, FS_RemoveElement, Zenon
      <4>2. sem' = Cardinality(Sent') /\ sem' <= MaxConcurrent
        BY <2>2, <2>3, <3>3, <4>1
      <4> QED
        BY <4>2, Zenon DEF SemaphoreBalanced, Sent
    <3>4. CASE Sent' = Sent /\ sem' = sem
      BY <2>2, <3>4, Zenon DEF SemaphoreBalanced, Sent
    <3> QED
      BY <3>1, <3>2, <3>3, <3>4, StepSent, Zenon DEF ForwardInv
  <2>5. CASE UNCHANGED vars
    BY <2>5, Zenon DEF SemaphoreBalanced, vars
  <2> QED
    BY <2>4, <2>5, Zenon
<1> QED
  BY <1>1, <1>2, ForwardInvariant, PTL DEF Spec

-----------------------------------------------------------------------------
(***************************************************************************)
(* That the client of a multicall is told of a failure only if every       *)
(* backend failed, for every set of backends.  The properties say nothing  *)
(* of the way from a backend to the answer; the inductive invariant        *)
(* follows it: what was put is in the channel or has been taken, what has  *)
(* been taken while the loop goes on has failed, and an outcome no longer  *)
(* changes once it is put.                                                 *)
(***************************************************************************)

InCh(b) == \E i \in 1 .. Len(ch) : ch[i] = b

\* Nothing has happened before ExecuteMulticall.
NothingYet ==
  main = "idle" =>
    /\ ~closed /\ ch = <<>> /\ received = {}
    /\ \A b \in Targets : caller[b] = "none"

\* What was put in the channel is there or has been taken, and only that.
PutIsKept ==
  \A b \in Targets :
    /\ caller[b] \in {"record", "done"} <=> InCh(b) \/ b \in received
    /\ caller[b] \in {"put", "record", "done"} => outcome[b] \in Outcomes

\* While the loop goes on, every answer taken is a failure, the last one kept.
TakenFailed ==
  main = "receive" => \A b \in received : Failed(b)

\* After the channel is closed no goroutine is left.
ClosedAtTheEnd == closed => \A b \in Targets : caller[b] = "done"

\* The client has a failure: every backend is done and failed.
FailureIsFinal ==
  main = "returned" /\ answer.outcome # "ok" /\ ~(answer.outcome = "rpcError" /\ ~errorCheck)
    => \A b \in Targets : caller[b] = "done" /\ Failed(b)

McInv ==
  /\ McTypeOK /\ NothingYet /\ PutIsKept /\ TakenFailed /\ ClosedAtTheEnd /\ FailureIsFinal

-----------------------------------------------------------------------------

\* Before the call.
LEMMA McInitially == McInit => McInv
<1> SUFFICES ASSUME McInit PROVE McInv
  BY Zenon
<1>1. McTypeOK
  <2>1. errorCheck \in BOOLEAN /\ closed \in BOOLEAN
    BY Zenon DEF McInit
  <2>2. /\ main \in {"idle", "receive", "returned"} /\ received \in SUBSET Targets
        /\ caller \in [Targets -> {"none", "forward", "put", "record", "done"}]
        /\ outcome \in [Targets -> Outcomes \union {"none"}]
    BY Zenon DEF McInit
  <2>3. ch \in Seq(Targets)
    BY DEF McInit
  <2> QED
    BY <2>1, <2>2, <2>3, Zenon DEF McTypeOK
<1>2. NothingYet /\ PutIsKept /\ TakenFailed /\ ClosedAtTheEnd /\ FailureIsFinal
  BY DEF McInit, NothingYet, PutIsKept, TakenFailed, ClosedAtTheEnd, FailureIsFinal, InCh
<1> QED
  BY <1>1, <1>2, Zenon DEF McInv

\* The goroutines are started.
LEMMA McExecute ==
  ASSUME McInv, NEW check \in BOOLEAN, ExecuteMulticall(check)
  PROVE McInv'
<1>1. McTypeOK'
  BY Zenon DEF McInv, McTypeOK, ExecuteMulticall
<1>2. NothingYet' /\ TakenFailed' /\ ClosedAtTheEnd' /\ FailureIsFinal'
  BY Zenon DEF McInv, McTypeOK, NothingYet, TakenFailed, ClosedAtTheEnd, FailureIsFinal, ExecuteMulticall
<1>3. PutIsKept'
  BY DEF McInv, McTypeOK, NothingYet, PutIsKept, ExecuteMulticall, InCh
<1> QED
  BY <1>1, <1>2, <1>3, Zenon DEF McInv

\* A backend answers: nothing of it was put yet, so no failure was final.
LEMMA McForward ==
  ASSUME McInv, NEW b \in Targets, ForwardTo(b)
  PROVE McInv'
<1> USE DEF McInv
<1>0. PICK o \in Outcomes : outcome' = [outcome EXCEPT ![b] = o]
  BY Zenon DEF ForwardTo
<1>1. McTypeOK'
  BY <1>0, Zenon DEF McTypeOK, ForwardTo
<1>2. b \notin received
  BY Zenon DEF McTypeOK, PutIsKept, ForwardTo
<1>3. NothingYet' /\ ClosedAtTheEnd'
  BY Zenon DEF McTypeOK, NothingYet, ClosedAtTheEnd, ForwardTo
<1>4. PutIsKept'
  BY <1>0, Zenon DEF McTypeOK, PutIsKept, ForwardTo, InCh
<1>5. TakenFailed'
  BY <1>0, <1>2, Zenon DEF McTypeOK, TakenFailed, Failed, ForwardTo
<1>6. FailureIsFinal'
  BY <1>0, Zenon DEF McTypeOK, FailureIsFinal, Failed, ForwardTo
<1> QED
  BY <1>1, <1>3, <1>4, <1>5, <1>6, Zenon

\* An answer goes into the channel.
LEMMA McPut ==
  ASSUME McInv, NEW b \in Targets, Put(b)
  PROVE McInv'
<1> USE DEF McInv
<1>1. McTypeOK'
  BY DEF McTypeOK, Put
<1>2. \A c : InCh(c)' <=> InCh(c) \/ c = b
  <2>1. ch \in Seq(Targets) /\ ch' = Append(ch, b)
    BY Zenon DEF McTypeOK, Put
  <2>2. /\ Len(ch') = Len(ch) + 1 /\ ch'[Len(ch) + 1] = b /\ Len(ch) \in Nat
        /\ \A i \in 1 .. Len(ch) : ch'[i] = ch[i]
    BY <2>1
  <2> QED
    BY <2>2 DEF InCh
<1>3. NothingYet' /\ ClosedAtTheEnd' /\ TakenFailed' /\ FailureIsFinal'
  BY Zenon DEF McTypeOK, NothingYet, ClosedAtTheEnd, TakenFailed, FailureIsFinal, Failed, Put
<1>4. PutIsKept'
  BY <1>2, Zenon DEF McTypeOK, PutIsKept, Put
<1> QED
  BY <1>1, <1>3, <1>4, Zenon

\* A goroutine ends.
LEMMA McDone ==
  ASSUME McInv, NEW b \in Targets, Done(b)
  PROVE McInv'
<1> USE DEF McInv
<1>1. McTypeOK'
  BY Zenon DEF McTypeOK, Done
<1>2. NothingYet' /\ ClosedAtTheEnd' /\ TakenFailed' /\ FailureIsFinal'
  BY Zenon DEF McTypeOK, NothingYet, ClosedAtTheEnd, TakenFailed, FailureIsFinal, Failed, Done
<1>3. PutIsKept'
  BY Zenon DEF McTypeOK, PutIsKept, Done, InCh
<1> QED
  BY <1>1, <1>2, <1>3, Zenon

\* The channel is closed, after all of them.
LEMMA McClose ==
  ASSUME McInv, Close
  PROVE McInv'
<1> USE DEF McInv
<1>1. McTypeOK'
  BY Zenon DEF McTypeOK, Close
<1>2. NothingYet' /\ ClosedAtTheEnd' /\ TakenFailed' /\ FailureIsFinal' /\ PutIsKept'
  BY Zenon DEF NothingYet, ClosedAtTheEnd, TakenFailed, FailureIsFinal, PutIsKept, Failed, Close, InCh
<1> QED
  BY <1>1, <1>2, Zenon

\* An answer is taken: it is a success and ends the loop, or it has failed too.
LEMMA McReceive ==
  ASSUME McInv, Receive
  PROVE McInv'
<1> USE DEF McInv
<1> DEFINE h == Head(ch)
<1>1. /\ ch \in Seq(Targets) /\ ch # <<>> /\ ch' = Tail(ch) /\ h \in Targets
      /\ received' = received \union {h} /\ main = "receive"
      /\ UNCHANGED <<errorCheck, caller, outcome, closed>>
  BY DEF McTypeOK, Receive
<1>2. \A c : InCh(c) \/ c \in received <=> InCh(c)' \/ c \in received'
  <2>1. /\ Len(ch) \in Nat \ {0} /\ Len(ch') = Len(ch) - 1 /\ ch[1] = h
        /\ \A i \in 1 .. Len(ch) - 1 : ch'[i] = ch[i + 1]
    BY <1>1
  <2>2. ASSUME NEW c PROVE InCh(c) <=> InCh(c)' \/ c = h
    <3>1. ASSUME InCh(c) PROVE InCh(c)' \/ c = h
      <4>1. PICK i \in 1 .. Len(ch) : ch[i] = c
        BY <3>1, Zenon DEF InCh
      <4>2. CASE i = 1
        BY <2>1, <4>1, <4>2, Zenon
      <4>3. CASE i # 1
        <5>1. i - 1 \in 1 .. Len(ch') /\ ch'[i - 1] = c
          BY <2>1, <4>1, <4>3
        <5> QED
          BY <5>1, Zenon DEF InCh
      <4> QED
        BY <4>2, <4>3, Zenon
    <3>2. ASSUME InCh(c)' PROVE InCh(c)
      <4>1. PICK i \in 1 .. Len(ch') : ch'[i] = c
        BY <3>2, Zenon DEF InCh
      <4>2. i + 1 \in 1 .. Len(ch) /\ ch[i + 1] = c
        BY <2>1, <4>1
      <4> QED
        BY <4>2, Zenon DEF InCh
    <3>3. InCh(h)
      BY <2>1 DEF InCh
    <3> QED
      BY <3>1, <3>2, <3>3, Zenon
  <2> QED
    BY <1>1, <2>2, Zenon
<1>3. McTypeOK'
  BY <1>1 DEF McTypeOK, Receive
<1>4. PutIsKept'
  BY <1>1, <1>2, Zenon DEF McTypeOK, PutIsKept
<1>5. outcome[h] \in Outcomes
  <2>1. InCh(h)
    BY <1>1 DEF InCh
  <2> QED
    BY <1>1, <2>1, Zenon DEF PutIsKept
<1>6. NothingYet' /\ ClosedAtTheEnd'
  BY <1>1 DEF NothingYet, ClosedAtTheEnd, Receive
<1>7. TakenFailed' /\ FailureIsFinal'
  <2>1. CASE Failed(h)
    BY <1>1, <2>1 DEF TakenFailed, FailureIsFinal, Failed, Receive
  <2>2. CASE ~Failed(h)
    <3>1. answer'.outcome = outcome[h] /\ main' = "returned"
      BY <2>2 DEF Receive
    <3>2. answer'.outcome = "ok" \/ (answer'.outcome = "rpcError" /\ ~errorCheck')
      BY <1>1, <1>5, <2>2, <3>1, Zenon DEF Failed, Outcomes, McTypeOK
    <3> QED
      BY <3>1, <3>2, Zenon DEF TakenFailed, FailureIsFinal
  <2> QED
    BY <2>1, <2>2, Zenon
<1> QED
  BY <1>3, <1>4, <1>6, <1>7, Zenon

\* The channel is closed and empty: everything put was taken, and failed.
LEMMA McReceiveClosed ==
  ASSUME McInv, ReceiveClosed
  PROVE McInv'
<1> USE DEF McInv
<1>1. McTypeOK'
  BY Zenon DEF McTypeOK, ReceiveClosed
<1>2. NothingYet' /\ ClosedAtTheEnd' /\ TakenFailed' /\ PutIsKept'
  BY Zenon DEF NothingYet, ClosedAtTheEnd, TakenFailed, PutIsKept, ReceiveClosed, InCh
<1>3. \A b \in Targets : caller[b] = "done" /\ b \in received /\ Failed(b)
  <2> SUFFICES ASSUME NEW b \in Targets PROVE caller[b] = "done" /\ b \in received /\ Failed(b)
    BY Zenon
  <2>1. caller[b] = "done"
    BY Zenon DEF ClosedAtTheEnd, ReceiveClosed
  <2>2. ~InCh(b)
    BY DEF InCh, ReceiveClosed
  <2>3. b \in received
    BY <2>1, <2>2, Zenon DEF PutIsKept
  <2> QED
    BY <2>1, <2>3, Zenon DEF TakenFailed, ReceiveClosed
<1>4. FailureIsFinal'
  BY <1>3, Zenon DEF FailureIsFinal, Failed, ReceiveClosed
<1> QED
  BY <1>1, <1>2, <1>4, Zenon

-----------------------------------------------------------------------------

\* The inductive invariant.
THEOREM McInvariant == McSpec => []McInv
<1>1. McInv /\ [McNext]_mcVars => McInv'
  <2> SUFFICES ASSUME McInv, [McNext]_mcVars PROVE McInv'
    BY Zenon
  <2>1. CASE \E check \in BOOLEAN : ExecuteMulticall(check)
    BY <2>1, McExecute, Zenon
  <2>2. CASE \E b \in Targets : ForwardTo(b) \/ Put(b) \/ Done(b)
    BY <2>2, McForward, McPut, McDone, Zenon
  <2>3. CASE Close \/ Receive \/ ReceiveClosed
    BY <2>3, McClose, McReceive, McReceiveClosed, Zenon
  <2>4. CASE UNCHANGED mcVars
    <3>1. McTypeOK'
      BY <2>4, Zenon DEF McInv, McTypeOK, mcVars
    <3> QED
      BY <2>4, <3>1 DEF McInv, NothingYet, ClosedAtTheEnd, TakenFailed, FailureIsFinal, PutIsKept,
                        Failed, InCh, mcVars
  <2> QED
    BY <2>1, <2>2, <2>3, <2>4, Zenon DEF McNext, McStep
<1> QED
  BY <1>1, McInitially, PTL DEF McSpec

\* ProcessMulticallResponses tells the client of a failure only if every
\* backend failed, for any number of backends and any order of their answers.
THEOREM FailureIfAllFailed == McSpec => []FailureOnlyIfAllFailed
<1>1. McInv => FailureOnlyIfAllFailed
  BY Zenon DEF McInv, FailureIsFinal, FailureOnlyIfAllFailed
<1> QED
  BY <1>1, McInvariant, PTL

\* The goroutine that closes the channel never does so before one that sends.
THEOREM NoSendOnClosed == McSpec => []ClosedAfterSends
<1>1. McInv => ClosedAfterSends
  BY Zenon DEF McInv, ClosedAtTheEnd, ClosedAfterSends
<1> QED
  BY <1>1, McInvariant, PTL

-----------------------------------------------------------------------------
(***************************************************************************)
(* ProxydStart: that every fallback is a backend of its group, which Start *)
(* concludes from a count.                                                 *)
(***************************************************************************)

\* The numbers from 1 to n are n.
LEMMA UpTo ==
  ASSUME NEW n \in Nat
  PROVE IsFiniteSet(1..n) /\ Cardinality(1..n) = n
<1>1. IsFiniteSet(1..n) /\ Cardinality(1..n) = IF 1 > n THEN 0 ELSE n - 1 + 1
  BY FS_Interval
<1> QED
  BY <1>1

\* The fallbacks of a group that names no backend twice are backends of it, when
\* as many pairs of a backend and an equal fallback are counted as there are
\* fallbacks.
LEMMA FallbacksCounted ==
  ASSUME NEW bs, NEW B, bs \in Seq(B), NEW fs, NEW F, fs \in Seq(F),
         NEW pairs, pairs = {p \in (DOMAIN bs) \X (DOMAIN fs) : bs[p[1]] = fs[p[2]]},
         Cardinality(pairs) = Len(fs), Cardinality(Range(bs)) = Len(bs)
  PROVE Range(fs) \subseteq Range(bs)
<1>1. DOMAIN bs = 1..Len(bs) /\ Len(bs) \in Nat /\ DOMAIN fs = 1..Len(fs) /\ Len(fs) \in Nat
  OBVIOUS
<1>2. /\ IsFiniteSet(1..Len(bs)) /\ Cardinality(1..Len(bs)) = Len(bs)
      /\ IsFiniteSet(1..Len(fs)) /\ Cardinality(1..Len(fs)) = Len(fs)
  BY <1>1, UpTo, Zenon
<1>3. \A i, j \in DOMAIN bs : bs[i] = bs[j] => i = j
  <2>1. bs \in Surjection(DOMAIN bs, Range(bs))
    BY DEF Surjection, Range
  <2>2. bs \in Injection(DOMAIN bs, Range(bs))
    BY <1>1, <1>2, <2>1, FS_SurjSameCardinalityImpliesInj, Zenon
  <2> QED
    BY <2>2, Zenon DEF Injection, IsInjective
<1> DEFINE second == [p \in pairs |-> p[2]]
<1>4. second \in Injection(pairs, DOMAIN fs)
  <2>1. second \in [pairs -> DOMAIN fs]
    BY Zenon
  <2>2. ASSUME NEW p \in pairs, NEW q \in pairs, second[p] = second[q] PROVE p = q
    <3>1. p[2] = q[2] /\ bs[p[1]] = fs[p[2]] /\ bs[q[1]] = fs[q[2]]
      BY <2>2, Zenon
    <3>2. p \in (DOMAIN bs) \X (DOMAIN fs) /\ q \in (DOMAIN bs) \X (DOMAIN fs)
      BY Zenon
    <3>3. p[1] = q[1]
      BY <1>3, <3>1, <3>2, Zenon
    <3> QED
      BY <3>1, <3>2, <3>3
  <2> QED
    BY <2>1, <2>2 DEF Injection, IsInjective
<1> HIDE DEF second
<1>5. second \in Surjection(pairs, DOMAIN fs)
  <2>1. IsFiniteSet(DOMAIN fs) /\ Cardinality(pairs) = Cardinality(DOMAIN fs)
    BY <1>1, <1>2, Zenon
  <2> QED
    BY <1>4, <2>1, FS_Injection, Zenon
<1>6. ASSUME NEW j \in DOMAIN fs PROVE \E i \in DOMAIN bs : bs[i] = fs[j]
  <2>1. PICK p \in pairs : second[p] = j
    BY <1>5, Zenon DEF Surjection
  <2> QED
    BY <2>1, Zenon DEF second
<1> QED
  BY <1>6, Zenon DEF Range

\* What the servers, once spawned, can count on.
StInv ==
  /\ DOMAIN server = Servers
  /\ \A s \in Servers : server[s] # "none" => conf \in Configs /\ Valid(conf)
  /\ server["ws"] # "none" => conf.wsPort
  /\ stage = "off" => served = {} /\ \A s \in Servers : server[s] = "none"
  /\ stage = "started" => todo = {}
  /\ stage \in {"starting", "started"} =>
       /\ DOMAIN poller = DOMAIN conf.groups
       /\ \A g \in DOMAIN conf.groups \ todo :
            conf.groups[g].strategy = "consensus_aware" => poller[g] = "running"
  /\ \A r \in served : r.late /\ conf.groups[r.group].strategy = "consensus_aware" => r.aware

\* Before Start.
LEMMA StartInitially == StInit => StInv
BY Zenon DEF StInit, StInv, Servers

\* Start, with a configuration that it accepts or refuses.
LEMMA StartKeeps ==
  ASSUME StInv, NEW c \in Configs, Start(c)
  PROVE StInv'
<1>1. stage = "off" /\ conf' = c /\ served' = served /\ served = {} /\ \A s \in Servers : server[s] = "none"
  BY Zenon DEF Start, StInv
<1>2. CASE Valid(c)
  <2> DEFINE rpc == IF c.rpcPort THEN "spawned" ELSE "none"
  <2> DEFINE ws == IF c.wsPort THEN "spawned" ELSE "none"
  <2>1. /\ stage' = "starting" /\ server' = [rpc |-> rpc, ws |-> ws]
        /\ poller' = [g \in DOMAIN c.groups |-> "none"] /\ todo' = DOMAIN c.groups
    BY <1>2, Zenon DEF Start
  <2>2. ws # "none" => c.wsPort
    BY Zenon
  <2> HIDE DEF rpc, ws
  <2>3. DOMAIN server' = Servers /\ server'["ws"] = ws
    BY <2>1, Zenon DEF Servers
  <2>4. conf' \in Configs /\ Valid(conf')
    BY <1>1, <1>2, Zenon
  <2> QED
    BY <1>1, <2>1, <2>2, <2>3, <2>4, Zenon DEF StInv
<1>3. CASE ~Valid(c)
  <2>1. stage' = "failed" /\ UNCHANGED <<server, poller, todo>>
    BY <1>3, Zenon DEF Start
  <2> QED
    BY <1>1, <2>1, Zenon DEF StInv, Servers
<1> QED
  BY <1>2, <1>3, Zenon

\* A step of Start or of a server after it.
LEMMA RunningKeeps ==
  ASSUME StInv, \/ \E s \in Servers : MakeServer(s) \/ Listen(s)
                \/ \E g \in DOMAIN conf.groups : Configure(g) \/ (stage # "failed" /\ ServeGroup(g))
                \/ Started \/ Shutdown \/ UNCHANGED stVars
  PROVE StInv'
<1>1. conf' = conf
  BY Zenon DEF MakeServer, Listen, Configure, ServeGroup, Started, Shutdown, stVars
<1>2. CASE \E s \in Servers : MakeServer(s)
  BY <1>1, <1>2 DEF StInv, MakeServer, Alive, Servers
<1>3. CASE \E s \in Servers : Listen(s)
  BY <1>1, <1>3 DEF StInv, Listen, Alive, Servers
<1>4. CASE \E g \in DOMAIN conf.groups : Configure(g)
  BY <1>1, <1>4 DEF StInv, Configure, Servers
<1>5. CASE \E g \in DOMAIN conf.groups : stage # "failed" /\ ServeGroup(g)
  <2>1. PICK g \in DOMAIN conf.groups : ServeGroup(g)
    BY <1>5, Zenon
  <2> DEFINE r == [group |-> g, aware |-> poller[g] = "running", late |-> stage = "started"]
  <2>2. /\ served' = served \union {r} /\ UNCHANGED <<conf, stage, server, poller, todo>>
        /\ stage \in {"starting", "started"}
    BY <2>1, Zenon DEF ServeGroup, Alive
  <2>3. r.group = g /\ (r.late => stage = "started") /\ (poller[g] = "running" => r.aware)
    BY Zenon
  <2> HIDE DEF r
  <2>4. r.late /\ conf.groups[r.group].strategy = "consensus_aware" => r.aware
    BY <2>2, <2>3, Zenon DEF StInv
  <2> QED
    BY <2>2, <2>4, Zenon DEF StInv
<1>6. CASE Started
  BY <1>1, <1>6, Zenon DEF StInv, Started
<1>7. CASE Shutdown
  <2>1. server' = [s \in Servers |-> IF server[s] \in {"made", "listening"} THEN "closed" ELSE server[s]]
        /\ stage' = "down" /\ UNCHANGED <<conf, todo, served>>
    BY <1>7, Zenon DEF Shutdown
  <2>2. DOMAIN server' = Servers /\ \A s \in Servers : server'[s] # "none" => server[s] # "none"
    BY <2>1, Zenon
  <2> QED
    BY <2>1, <2>2, Zenon DEF StInv, Servers
<1>8. CASE UNCHANGED stVars
  BY <1>8, Zenon DEF StInv, stVars
<1> QED
  BY <1>2, <1>3, <1>4, <1>5, <1>6, <1>7, <1>8, Zenon

\* What a configuration that Start accepts says of its groups.
LEMMA AcceptedGroups ==
  ASSUME NEW c \in Configs, Valid(c), NEW n \in DOMAIN c.groups
  PROVE /\ Range(c.groups[n].backends) \subseteq c.backends
        /\ Cardinality(Range(c.groups[n].backends)) = Len(c.groups[n].backends) =>
             Range(c.groups[n].fallbacks) \subseteq Range(c.groups[n].backends)
<1> DEFINE g == c.groups[n]
<1>1. (\A i \in DOMAIN g.backends : g.backends[i] \in c.backends) /\ FallbackCount(g) = Len(g.fallbacks)
  BY Zenon DEF Valid, GroupsValid
<1>2. g.backends \in Seq(Range(g.backends)) /\ g.fallbacks \in Seq(Range(g.fallbacks))
  BY StartAssumption, Zenon DEF IsConfig
<1>3. Range(g.backends) \subseteq c.backends
  BY <1>1, Zenon DEF Range
<1>4. ASSUME Cardinality(Range(g.backends)) = Len(g.backends) PROVE Range(g.fallbacks) \subseteq Range(g.backends)
  <2> DEFINE pairs == {p \in (DOMAIN g.backends) \X (DOMAIN g.fallbacks) : g.backends[p[1]] = g.fallbacks[p[2]]}
  <2>1. Cardinality(pairs) = Len(g.fallbacks)
    BY <1>1, Zenon DEF FallbackCount
  <2> HIDE DEF g
  <2> QED
    BY <1>2, <1>4, <2>1, FallbacksCounted, Zenon
<1> QED
  BY <1>3, <1>4, Zenon

\* A proxyd that listens maps its methods to groups of backends that exist, with
\* fallbacks of their own group, and once Start has returned serves no consensus
\* aware group without its poller, for any configurations.
THEOREM ServedAsConfiguredHolds == StSpec => []ServedAsConfigured
<1>1. StInit => StInv
  BY StartInitially, Zenon
<1>2. StInv /\ [StNext]_stVars => StInv'
  BY StartKeeps, RunningKeeps, Zenon DEF StNext
<1>3. StInv => ServedAsConfigured
  <2> SUFFICES ASSUME StInv PROVE ServedAsConfigured
    BY Zenon
  <2>1. ASSUME NEW s \in Servers, server[s] = "listening" PROVE conf \in Configs /\ Valid(conf)
    BY <2>1, Zenon DEF StInv
  <2>2. ASSUME conf \in Configs, Valid(conf)
        PROVE conf.mappings \subseteq DOMAIN conf.groups /\ (conf.wsPort => conf.wsGroup \in DOMAIN conf.groups)
    BY <2>2, Zenon DEF Valid, MappingsValid, WsValid
  <2>3. server["ws"] = "listening" => conf.wsPort
    BY Zenon DEF StInv
  <2>4. \A r \in served : r.late /\ conf.groups[r.group].strategy = "consensus_aware" => r.aware
    BY Zenon DEF StInv
  <2> QED
    BY <2>1, <2>2, <2>3, <2>4, AcceptedGroups, Zenon DEF ServedAsConfigured
<1> QED
  BY <1>1, <1>2, <1>3, PTL DEF StSpec
=============================================================================
