----------------------------- MODULE WSProxier -----------------------------
(***************************************************************************)
(* proxyd/server.go and backend.go: a websocket connection, from HandleWS  *)
(* to the end of its two pumps.  The pump of one side reads from its       *)
(* connection and writes to either; the first to fail makes Proxy close    *)
(* both connections, under the other pump.                                 *)
(***************************************************************************)
EXTENDS Naturals, Sequences

CONSTANTS
  WsBackends,     \* bg.Backends of the websocket group, a sequence
  MaxClientMsgs,  \* bound: the messages the client sends
  MaxBackendMsgs  \* bound: the messages the backend sends

Sides == {"client", "backend"}
Other(side) == IF side = "client" THEN "backend" ELSE "client"

\* What prepareClientMsg refuses (it cannot be parsed, its method is not
\* whitelisted), what is answered without the backend, and what is forwarded.
ClientMsgs == {"refused", "accounts", "call"}

VARIABLES
  handler,    \* where HandleWS, then Proxy, is
  dialed,     \* how many backends ProxyWS has tried
  peerSent,       \* the messages each peer has sent
  taken,      \* how many of them its pump has read
  pump,       \* where each pump is
  open,       \* the connection of each side is open at this end
  peer,       \* "there", "left" (reads end) or "silent" (reads block)
  closeSent,  \* a Close message was written on the connection
  got,        \* what was written to each peer, in order
  errC,       \* the channel
  clientGauge, backendGauge

wsVars == <<handler, dialed, peerSent, taken, pump, open, peer, closeSent, got, errC,
            clientGauge, backendGauge>>

WsInit ==
  /\ handler = "idle" /\ dialed = 0
  /\ peerSent = [s \in Sides |-> <<>>] /\ taken = [s \in Sides |-> 0]
  /\ pump = [s \in Sides |-> "off"]
  /\ open = [s \in Sides |-> FALSE] /\ peer = [s \in Sides |-> "there"]
  /\ closeSent = [s \in Sides |-> FALSE] /\ got = [s \in Sides |-> <<>>]
  /\ errC = <<>> /\ clientGauge = 0 /\ backendGauge = 0

-----------------------------------------------------------------------------
(* HandleWS and BackendGroup.ProxyWS. *)

wsConns == <<peerSent, taken, peer, closeSent, got, errC>>

HandleWS ==
  /\ handler = "idle"
  /\ open' = [open EXCEPT !["client"] = TRUE]
  /\ handler' = "dial"
  /\ UNCHANGED <<dialed, wsConns, pump, clientGauge, backendGauge>>

\* Not authorized, or the upgrade fails.
RefuseWS ==
  /\ handler = "idle"
  /\ handler' = "refused"
  /\ UNCHANGED <<dialed, wsConns, pump, open, clientGauge, backendGauge>>

DialFails ==
  /\ handler = "dial" /\ dialed < Len(WsBackends)
  /\ dialed' = dialed + 1
  /\ UNCHANGED <<handler, wsConns, pump, open, clientGauge, backendGauge>>

\* ErrNoBackends: the client is closed.
NoneDialed ==
  /\ handler = "dial" /\ dialed = Len(WsBackends)
  /\ open' = [open EXCEPT !["client"] = FALSE]
  /\ handler' = "refused"
  /\ UNCHANGED <<dialed, wsConns, pump, clientGauge, backendGauge>>

\* Backend.ProxyWS, then the goroutine that runs Proxy, and the two pumps.
Dial ==
  /\ handler = "dial" /\ dialed < Len(WsBackends)
  /\ dialed' = dialed + 1
  /\ open' = [open EXCEPT !["backend"] = TRUE]
  /\ backendGauge' = backendGauge + 1 /\ clientGauge' = clientGauge + 1
  /\ pump' = [s \in Sides |-> "read"]
  /\ handler' = "proxy"
  /\ UNCHANGED wsConns

-----------------------------------------------------------------------------
(* The peers, external. *)

PeerSends(side, m) ==
  /\ open[side] /\ peer[side] = "there" /\ handler = "proxy"
  /\ Len(peerSent[side]) < (IF side = "client" THEN MaxClientMsgs ELSE MaxBackendMsgs)
  /\ peerSent' = [peerSent EXCEPT ![side] = Append(@, m)]
  /\ UNCHANGED <<handler, dialed, taken, pump, open, peer, closeSent, got, errC,
                 clientGauge, backendGauge>>

PeerGoes(side) ==
  /\ handler = "proxy" /\ peer[side] = "there"
  /\ \E how \in {"left", "silent"} : peer' = [peer EXCEPT ![side] = how]
  /\ UNCHANGED <<handler, dialed, peerSent, taken, pump, open, closeSent, got, errC,
                 clientGauge, backendGauge>>

-----------------------------------------------------------------------------
(* clientPump and backendPump. *)

Waiting(side) == peerSent[side][taken[side]]

\* ReadMessage: a message of the peer.
Read(side) ==
  /\ pump[side] = "read" /\ open[side] /\ taken[side] < Len(peerSent[side])
  /\ taken' = [taken EXCEPT ![side] = @ + 1]
  /\ pump' = [pump EXCEPT ![side] = "route"]
  /\ UNCHANGED <<handler, dialed, peerSent, open, peer, closeSent, got, errC,
                 clientGauge, backendGauge>>

\* ReadMessage: an error, once the connection is closed or the peer has left.
PeerReadFails(side) ==
  /\ pump[side] = "read"
  /\ ~open[side] \/ (peer[side] = "left" /\ taken[side] = Len(peerSent[side]))
  /\ pump' = [pump EXCEPT ![side] = "sendClose"]
  /\ UNCHANGED <<handler, dialed, peerSent, taken, open, peer, closeSent, got, errC,
                 clientGauge, backendGauge>>

\* WriteMessage cannot succeed on a connection closed at this end, nor after a
\* Close message; it may fail whenever the peer is slow or gone.
CanWrite(side) == open[side] /\ ~closeSent[side]

\* Whatever fails, the error goes to errC and the pump returns.  The type of
\* a message that was not read is no type to write: after a Close message the
\* pump fails too.
SendClose(side) ==
  /\ pump[side] = "sendClose"
  /\ \/ CanWrite(Other(side)) /\ closeSent' = [closeSent EXCEPT ![Other(side)] = TRUE]
     \/ UNCHANGED closeSent
  /\ pump' = [pump EXCEPT ![side] = "fail"]
  /\ UNCHANGED <<handler, dialed, peerSent, taken, open, peer, got, errC,
                 clientGauge, backendGauge>>

\* Mutant of Receiver: a request that is not whitelisted goes on as well.
ReceiverAny(side) ==
  IF side = "client" /\ Waiting(side) \in {"call", "refused"} THEN "backend" ELSE "client"

\* To whom the pump writes: its own answer to the client, or the message on.
Receiver(side) ==
  IF side = "client" /\ Waiting(side) = "call" THEN "backend" ELSE "client"

\* What a peer gets: the message itself, proxyd's answer to it, or an error in
\* the place of a response that cannot be parsed.
Written(side) == [from |-> side, n |-> taken[side]]

Write(side) ==
  /\ pump[side] = "route" /\ CanWrite(Receiver(side))
  /\ got' = [got EXCEPT ![Receiver(side)] = Append(@, Written(side))]
  /\ pump' = [pump EXCEPT ![side] = "read"]
  /\ UNCHANGED <<handler, dialed, peerSent, taken, open, peer, closeSent, errC,
                 clientGauge, backendGauge>>

WriteFails(side) ==
  /\ pump[side] = "route"
  /\ pump' = [pump EXCEPT ![side] = "fail"]
  /\ UNCHANGED <<handler, dialed, peerSent, taken, open, peer, closeSent, got, errC,
                 clientGauge, backendGauge>>

\* Mutant of ErrCap: an unbuffered channel.
ErrCapNone == 0

ErrCap == 2

\* errC <- err: there is room, or Proxy is receiving.
Fail(side) ==
  /\ pump[side] = "fail"
  /\ Len(errC) < ErrCap \/ (handler = "proxy" /\ errC = <<>>)
  /\ errC' = Append(errC, side)
  /\ pump' = [pump EXCEPT ![side] = "ended"]
  /\ UNCHANGED <<handler, dialed, peerSent, taken, open, peer, closeSent, got,
                 clientGauge, backendGauge>>

-----------------------------------------------------------------------------
(* Proxy: one error is received, then close, and the goroutine ends. *)

close ==
  /\ handler = "proxy" /\ errC # <<>>
  /\ errC' = Tail(errC)
  /\ open' = [s \in Sides |-> FALSE]
  /\ backendGauge' = backendGauge - 1
  /\ handler' = "closed"
  /\ UNCHANGED <<dialed, peerSent, taken, pump, peer, closeSent, got, clientGauge>>

ProxyReturns ==
  /\ handler = "closed"
  /\ clientGauge' = clientGauge - 1
  /\ handler' = "done"
  /\ UNCHANGED <<dialed, wsConns, pump, open, backendGauge>>

\* What proxyd does by itself: all but dialling and the peers.
WsStep ==
  \/ \E side \in Sides : \/ Read(side) \/ PeerReadFails(side) \/ SendClose(side)
                         \/ Write(side) \/ WriteFails(side) \/ Fail(side)
  \/ close \/ ProxyReturns

WsNext ==
  \/ HandleWS \/ RefuseWS \/ DialFails \/ NoneDialed \/ Dial
  \/ (\E m \in ClientMsgs : PeerSends("client", m)) \/ PeerSends("backend", "response")
  \/ \E side \in Sides : PeerGoes(side)
  \/ WsStep

WsSpec == WsInit /\ [][WsNext]_wsVars

\* The goroutines run; the system reports a closed connection to its reader.
WsFairSpec == WsSpec /\ WF_wsVars(WsStep)

-----------------------------------------------------------------------------
(* Properties. *)

\* The messages of side that its pump has read and written out, and that are
\* for to: the calls of the client go to the backend, all else to the client.
Routed(side, to) ==
  LET n == IF pump[side] = "route" THEN taken[side] - 1 ELSE taken[side]
  IN {i \in 1 .. n : to = "backend" <=> side = "client" /\ peerSent[side][i] = "call"}

\* Where to got a message of side, or proxyd's answer to one.
GotFrom(to, side) == {i \in DOMAIN got[to] : got[to][i].from = side}

\* Each side gets what the other sent, in order and once: the backend the
\* whitelisted calls and nothing else, the client the answers of proxyd to its
\* other messages and every message of the backend.  Only the message whose
\* write failed, the last one of a pump, may be missing.
MessagesInOrder ==
  \A to, side \in Sides :
    /\ \A i, j \in GotFrom(to, side) : i < j => got[to][i].n < got[to][j].n
    /\ \A i \in GotFrom(to, side) : got[to][i].n \in Routed(side, to)
    /\ \A n \in Routed(side, to) :
         \/ \E i \in GotFrom(to, side) : got[to][i].n = n
         \/ pump[side] \in {"fail", "sendClose", "ended"} /\ n = taken[side]

\* A pump that ends takes everything with it: the other pump, both
\* connections and both gauges, whatever the other peer does.  Proxy waits for
\* one error only, and the reader of a silent peer is woken by the close.
PumpsEndTogether ==
  (\E s \in Sides : pump[s] = "ended") ~>
    /\ \A s \in Sides : pump[s] = "ended" /\ ~open[s]
    /\ clientGauge = 0 /\ backendGauge = 0
=============================================================================
