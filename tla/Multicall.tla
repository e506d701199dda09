----------------------------- MODULE Multicall -----------------------------
(***************************************************************************)
(* proxyd/backend.go: a raw transaction under the multicall strategy.  One *)
(* goroutine per backend forwards it and puts what came back in a channel, *)
(* another closes the channel after all of them, and the request takes     *)
(* from the channel the first success, or the last failure.                *)
(***************************************************************************)
EXTENDS Naturals, Sequences, FiniteSets

CONSTANTS
  Targets       \* bg.Backends

ASSUME TargetsAssumption == IsFiniteSet(Targets)

Outcomes == {"ok", "rpcError", "error"}
NoAnswer == [backend |-> "none", outcome |-> "none"]
NoResponse == [backend |-> "none", outcome |-> "error"]

VARIABLES
  errorCheck,   \* bg.multicallRPCErrorCheck
  main,         \* where ExecuteMulticall is
  caller,       \* where the goroutine of each backend is
  outcome,      \* what each backend gave
  ch,           \* the channel
  closed,       \* the channel is closed
  received,     \* the backends whose answers were taken (their number is i)
  finalResp,    \* the last failure
  answer        \* what the client gets

mcVars == <<errorCheck, main, caller, outcome, ch, closed, received, finalResp, answer>>

McInit ==
  /\ errorCheck = FALSE /\ main = "idle"
  /\ caller = [b \in Targets |-> "none"]
  /\ outcome = [b \in Targets |-> "none"]
  /\ ch = <<>> /\ closed = FALSE
  /\ received = {} /\ finalResp = NoAnswer /\ answer = NoAnswer

\* wg.Add for every goroutine comes before the one that waits is started.
ExecuteMulticall(check) ==
  /\ main = "idle"
  /\ main' = "receive" /\ errorCheck' = check
  /\ caller' = [b \in Targets |-> "forward"]
  /\ UNCHANGED <<outcome, ch, closed, received, finalResp, answer>>

-----------------------------------------------------------------------------
(* MulticallRequest.  The context is not cancelled with the client's. *)

ForwardTo(b) ==
  /\ caller[b] = "forward"
  /\ \E o \in Outcomes : outcome' = [outcome EXCEPT ![b] = o]
  /\ caller' = [caller EXCEPT ![b] = "put"]
  /\ UNCHANGED <<errorCheck, main, ch, closed, received, finalResp, answer>>

\* Mutant of Capacity: a channel for one response.
CapacityOne == 1

Capacity == Cardinality(Targets)

Put(b) ==
  /\ caller[b] = "put" /\ Len(ch) < Capacity
  /\ ch' = Append(ch, b)
  /\ caller' = [caller EXCEPT ![b] = "record"]
  /\ UNCHANGED <<errorCheck, main, outcome, closed, received, finalResp, answer>>

\* The completion is recorded and wg.Done runs.
Done(b) ==
  /\ caller[b] = "record"
  /\ caller' = [caller EXCEPT ![b] = "done"]
  /\ UNCHANGED <<errorCheck, main, outcome, ch, closed, received, finalResp, answer>>

\* wg.Wait, then close(ch).
Close ==
  /\ main # "idle" /\ ~closed
  /\ \A b \in Targets : caller[b] = "done"
  /\ closed' = TRUE
  /\ UNCHANGED <<errorCheck, main, caller, outcome, ch, received, finalResp, answer>>

-----------------------------------------------------------------------------
(* ProcessMulticallResponses. *)

Failed(b) == outcome[b] = "error" \/ (errorCheck /\ outcome[b] = "rpcError")

\* Mutant of Receive: a failure ends the loop.
ReceiveAny ==
  /\ main = "receive" /\ ch # <<>>
  /\ ch' = Tail(ch) /\ received' = received \union {Head(ch)}
  /\ answer' = [backend |-> Head(ch), outcome |-> outcome[Head(ch)]]
  /\ main' = "returned"
  /\ UNCHANGED <<errorCheck, caller, outcome, closed, finalResp>>

Receive ==
  /\ main = "receive" /\ ch # <<>>
  /\ ch' = Tail(ch) /\ received' = received \union {Head(ch)}
  /\ LET resp == [backend |-> Head(ch), outcome |-> outcome[Head(ch)]]
     IN IF Failed(Head(ch))
          THEN finalResp' = resp /\ UNCHANGED <<main, answer>>
          ELSE answer' = resp /\ main' = "returned" /\ UNCHANGED finalResp
  /\ UNCHANGED <<errorCheck, caller, outcome, closed>>

ReceiveClosed ==
  /\ main = "receive" /\ ch = <<>> /\ closed
  /\ answer' = IF received # {} THEN finalResp ELSE NoResponse
  /\ main' = "returned"
  /\ UNCHANGED <<errorCheck, caller, outcome, ch, closed, received, finalResp>>

McStep ==
  \/ \E b \in Targets : ForwardTo(b) \/ Put(b) \/ Done(b)
  \/ Close \/ Receive \/ ReceiveClosed

McNext == (\E check \in BOOLEAN : ExecuteMulticall(check)) \/ McStep

McSpec == McInit /\ [][McNext]_mcVars

\* Goroutines run, and a backend answers or its request times out.
McFairSpec == McSpec /\ WF_mcVars(McStep)

-----------------------------------------------------------------------------
(* Properties. *)

\* The variables have their types.
McTypeOK ==
  /\ errorCheck \in BOOLEAN /\ closed \in BOOLEAN /\ main \in {"idle", "receive", "returned"}
  /\ caller \in [Targets -> {"none", "forward", "put", "record", "done"}]
  /\ outcome \in [Targets -> Outcomes \union {"none"}]
  /\ ch \in Seq(Targets) /\ received \in SUBSET Targets

\* The client is told of a failure only if every backend failed it: a success
\* that is in the channel, or still to come, is never given up for an earlier
\* failure.
FailureOnlyIfAllFailed ==
  main = "returned" /\ answer.outcome # "ok" /\ ~(answer.outcome = "rpcError" /\ ~errorCheck)
    => \A b \in Targets : Failed(b)

\* Nobody sends on the closed channel, which would end the process: the
\* answer to the client does not depend on the goroutines still running.
ClosedAfterSends == closed => \A b \in Targets : caller[b] \notin {"forward", "put"}

\* Once started, the client is answered, every backend is given the
\* transaction, answered client or not, and no goroutine is left behind.
MulticallEnds ==
  main = "receive" ~> main = "returned" /\ closed /\ \A b \in Targets : caller[b] = "done"
=============================================================================
