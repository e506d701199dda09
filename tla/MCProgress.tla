----------------------------- MODULE MCProgress -----------------------------
(* Small instances of the components that wait for others, in one run that   *)
(* checks that their waits end as well as that they are right.  They share no *)
(* state: the initial state chooses one of them, and only that one moves.    *)
EXTENDS BackendForward, Multicall, WSProxier, PeerManagement, UserFlowMonitor, TLC

CONSTANTS b1, b2, r1, r2

VARIABLE part

-----------------------------------------------------------------------------
(* BackendForward: a backend that can answer consensus_getReceipts and one    *)
(* that cannot, two requests that meet.                                       *)

OneUnsupported == b1 :> "debug_getRawReceipts" @@ b2 :> Unsupported
Kind(k1, k2) == r1 :> k1 @@ r2 :> k2
SomeKinds ==
  {Kind("receipts", "badReceipts"), Kind("receiptsBatch", "call"), Kind("empty", "batch")}

-----------------------------------------------------------------------------
(* WSProxier.                                                                 *)

TwoBackends == <<"b1", "b2">>

-----------------------------------------------------------------------------
(* One component at a time.                                                   *)

progressVars == <<part, vars, mcVars, wsVars, pmVars, ufVars>>

Components == {"forward", "multicall", "ws", "peers", "ufm"}

ProgressInit ==
  /\ part \in Components
  /\ Init /\ McInit /\ WsInit /\ PmInit /\ UfInit
  /\ part # "ufm" => silent = {}
  /\ kind \in IF part = "forward" THEN SomeKinds ELSE {Kind("call", "call")}

\* The other components stay where they are.
Only(p) ==
  /\ part = p /\ UNCHANGED part
  /\ p # "forward" => UNCHANGED vars
  /\ p # "multicall" => UNCHANGED mcVars
  /\ p # "ws" => UNCHANGED wsVars
  /\ p # "peers" => UNCHANGED pmVars
  /\ p # "ufm" => UNCHANGED ufVars

ProgressNext ==
  \/ Only("forward") /\ Next
  \/ Only("multicall") /\ McNext
  \/ Only("ws") /\ WsNext
  \/ Only("peers") /\ PmNext
  \/ Only("ufm") /\ UfNext

\* The fairness each component's own specification assumes.  As one component
\* moves, a step of one stands in a condition beside the steps of others.
Moves ==
  \/ Only("multicall") /\ McStep
  \/ Only("ws") /\ WsStep
  \/ Only("peers") /\ PmStep
  \/ Only("ufm") /\ UfTick /\ UNCHANGED silent

ProcessMoves(i) ==
  \/ Only("forward") /\ Step(<<r1, r2>>[i])
  \/ Only("ufm") /\ Sending(<<"p1", "p2">>[i]) /\ Answers(<<"p1", "p2">>[i])

ProgressSpec ==
  /\ ProgressInit /\ [][ProgressNext]_progressVars
  /\ WF_<<mcVars, wsVars, pmVars, ufVars>>(Moves)
  /\ \A i \in 1 .. 2 : WF_<<vars, ufVars>>(ProcessMoves(i))
  /\ \A p \in Providers : WF_ufVars(Only("ufm") /\ Beating(p) /\ Answers(p))

\* Every request that is forwarded is answered, whatever the backends do:
\* attempts and backends run out, and the semaphore is given back.
ForwardAnswered == part = "forward" => AllAnswered
=============================================================================
