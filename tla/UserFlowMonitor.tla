--------------------------- MODULE UserFlowMonitor ---------------------------
(***************************************************************************)
(* op-ufm/pkg/provider: the providers of one network share a wallet and a  *)
(* transaction pool.  RoundTrip sends a transaction and waits for its      *)
(* receipt, one provider at a time; Heartbeat looks at the transactions    *)
(* of the others.  Clocks are the time since an event, saturated.          *)
(***************************************************************************)
EXTENDS Integers, FiniteSets

CONSTANTS
  Providers,       \* the providers of the network, strings
  ReadOnly,        \* those that do not send
  CoolDown,        \* SendTransactionCoolDown
  RetryTimeout,    \* SendTransactionRetryTimeout
  ReceiptTimeout,  \* ReceiptRetrievalTimeout
  MaxTxs,          \* bound on transactions sent
  MaxUfErrors      \* bound on failed calls

ASSUME UfmAssumption ==
  /\ IsFiniteSet(Providers) /\ "" \notin Providers /\ ReadOnly \subseteq Providers
  /\ {CoolDown, RetryTimeout, ReceiptTimeout, MaxTxs, MaxUfErrors} \subseteq Nat

VARIABLES
  sender,       \* RoundTrip of each provider
  exclusive,    \* who holds txPool.ExclusiveSend, or ""
  transactions, \* txPool.Transactions
  seenBy,       \* SeenBy of every transaction ever added
  sinceSend,    \* time since LastSend
  beat,         \* Heartbeat of each provider: transactions to check, and the one marked
  sent, known,  \* the chain: accepted transactions, and what each provider has
  ufErrors,     \* calls failed so far
  silent        \* providers that may leave a call without an answer for ever

ufVars == <<sender, exclusive, transactions, seenBy, sinceSend, beat, sent, known, ufErrors, silent>>
monitor == <<beat, transactions, seenBy>>

TxIds == [nonce : 0 .. MaxTxs, source : Providers]
Idle == [pc |-> "idle", nonce |-> 0, elapsed |-> 0]
NoTx == [nonce |-> -1, source |-> ""]
NoBeat == [todo |-> {}, marked |-> NoTx]

\* LastSend is the zero time at first: long ago.
UfInit ==
  /\ sender = [p \in Providers |-> Idle] /\ exclusive = ""
  /\ transactions = {} /\ seenBy = <<>> /\ sinceSend = CoolDown
  /\ beat = [p \in Providers |-> NoBeat]
  /\ sent = {} /\ known = [p \in Providers |-> {}]
  /\ ufErrors = 0 /\ silent \in SUBSET Providers

\* txPool.Expected: all providers but the source.
Expected == Cardinality(Providers) - 1

CallFailsUf == ufErrors < MaxUfErrors /\ ufErrors' = ufErrors + 1

-----------------------------------------------------------------------------
(* RoundTrip. *)

RoundTrip(p) ==
  /\ sender[p].pc = "idle" /\ p \notin ReadOnly /\ exclusive = "" /\ Cardinality(sent) < MaxTxs
  /\ exclusive' = p
  /\ sender' = [sender EXCEPT ![p].pc = "cooldown"]
  /\ UNCHANGED <<monitor, sinceSend, sent, known, ufErrors>>

\* RoundTrip returns, and with it ExclusiveSend.
Return(p) == exclusive' = "" /\ sender' = [sender EXCEPT ![p] = Idle]

NonceTaken(p, n) == \E t \in known[p] : t.nonce = n
PendingNonceAt(p) == CHOOSE n \in 0 .. MaxTxs : ~NonceTaken(p, n) /\ \A m \in 0 .. n - 1 : NonceTaken(p, m)

\* Cooled down: createTx, which asks for the nonce while it is zero, and sign.
createTx(p) ==
  /\ sender[p].pc = "cooldown" /\ sinceSend >= CoolDown
  /\ \/ /\ sender' = [sender EXCEPT ![p].pc = "send",
                                    ![p].nonce = IF @ = 0 THEN PendingNonceAt(p) ELSE @]
        /\ UNCHANGED <<exclusive, ufErrors>>
     \/ CallFailsUf /\ Return(p)
  /\ UNCHANGED <<monitor, sinceSend, sent, known>>

Accept(p, t) ==
  /\ sent' = sent \union {t} /\ known' = [known EXCEPT ![p] = @ \union {t}]

\* SendTransaction: accepted; accepted or not, but answered by an error; or
\* refused since the nonce is taken, and tried with the next one until the
\* timeout.
SendTransaction(p) ==
  LET n == sender[p].nonce
      t == [nonce |-> n, source |-> p]
  IN /\ sender[p].pc = "send"
     /\ \/ /\ ~NonceTaken(p, n) /\ Accept(p, t)
           /\ \/ sender' = [sender EXCEPT ![p].pc = "add"] /\ UNCHANGED <<exclusive, ufErrors>>
              \/ CallFailsUf /\ Return(p)
        \/ /\ CallFailsUf /\ Return(p) /\ UNCHANGED <<sent, known>>
        \/ /\ NonceTaken(p, n)
           /\ IF sender[p].elapsed >= RetryTimeout
                THEN Return(p)
                ELSE /\ sender' = [sender EXCEPT ![p].pc = "cooldown", ![p].nonce = @ + 1]
                     /\ UNCHANGED exclusive
           /\ UNCHANGED <<sent, known, ufErrors>>
     /\ UNCHANGED <<monitor, sinceSend>>

\* The transaction goes to the pool, and LastSend is now, under txPool.M.
AddTransaction(p) ==
  LET t == [nonce |-> sender[p].nonce, source |-> p]
  IN /\ sender[p].pc = "add"
     /\ transactions' = transactions \union {t}
     /\ seenBy' = [u \in DOMAIN seenBy \union {t} |-> IF u = t THEN {} ELSE seenBy[u]]
     /\ sinceSend' = 0
     /\ sender' = [sender EXCEPT ![p].pc = "receipt", ![p].elapsed = 0]
     /\ UNCHANGED <<exclusive, beat, sent, known, ufErrors>>

\* The loop over TransactionReceipt ends: the receipt is there, a block having
\* reached every provider, the time is over, or the call failed.
TransactionReceipt(p) ==
  /\ sender[p].pc = "receipt" /\ Return(p)
  /\ \/ /\ \/ sender[p].elapsed >= ReceiptTimeout
           \/ \A q \in Providers : [nonce |-> sender[p].nonce, source |-> p] \in known[q]
        /\ UNCHANGED ufErrors
     \/ CallFailsUf
  /\ UNCHANGED <<monitor, sinceSend, sent, known>>

-----------------------------------------------------------------------------
(* Heartbeat. *)

rest == <<sender, exclusive, sinceSend, sent, known>>

\* Mutant of expectedTransactions: those of this provider too.
expectedTransactionsAll(p) == {t \in transactions : p \notin seenBy[t]}

\* Transactions of others that this provider has not seen.
expectedTransactions(p) == {t \in transactions : t.source # p /\ p \notin seenBy[t]}

Heartbeat(p) ==
  /\ beat[p] = NoBeat /\ expectedTransactions(p) # {}
  /\ beat' = [beat EXCEPT ![p].todo = expectedTransactions(p)]
  /\ UNCHANGED <<rest, transactions, seenBy, ufErrors>>

\* TransactionByHash, and the mark under st.M.  Not found is no error here: the
\* transaction is marked whether or not the provider has it.
TransactionByHash(p, t) ==
  /\ beat[p].marked = NoTx /\ t \in beat[p].todo
  /\ \/ /\ seenBy' = [seenBy EXCEPT ![t] = @ \union {p}]
        /\ beat' = [beat EXCEPT ![p] = [todo |-> @.todo \ {t}, marked |-> t]]
        /\ UNCHANGED ufErrors
     \/ /\ CallFailsUf /\ UNCHANGED seenBy
        /\ beat' = [beat EXCEPT ![p].todo = @ \ {t}]
  /\ UNCHANGED <<rest, transactions>>

\* Seen by all: removed from the pool, under txPool.M.
RemoveSeen(p) ==
  LET t == beat[p].marked
  IN /\ t # NoTx
     /\ transactions' = IF Cardinality(seenBy[t]) = Expected THEN transactions \ {t} ELSE transactions
     /\ beat' = [beat EXCEPT ![p].marked = NoTx]
     /\ UNCHANGED <<rest, seenBy, ufErrors>>

-----------------------------------------------------------------------------
\* The chain carries a transaction to another provider that has none of its nonce.
Propagate(p, t) ==
  /\ t \in sent /\ ~NonceTaken(p, t.nonce)
  /\ known' = [known EXCEPT ![p] = @ \union {t}]
  /\ UNCHANGED <<sender, exclusive, monitor, sinceSend, sent, ufErrors>>

Up(n, top) == IF n < top THEN n + 1 ELSE n

\* A unit of time.
UfTick ==
  /\ sinceSend' = Up(sinceSend, CoolDown)
  /\ sender' = [p \in Providers |->
                  CASE sender[p].pc \in {"cooldown", "send"} -> [sender[p] EXCEPT !.elapsed = Up(@, RetryTimeout)]
                    [] sender[p].pc = "receipt" -> [sender[p] EXCEPT !.elapsed = Up(@, ReceiptTimeout)]
                    [] OTHER -> sender[p]]
  /\ UNCHANGED <<exclusive, monitor, sent, known, ufErrors>>

Sending(p) == createTx(p) \/ SendTransaction(p) \/ AddTransaction(p) \/ TransactionReceipt(p)
Beating(p) == Heartbeat(p) \/ (\E t \in TxIds : TransactionByHash(p, t)) \/ RemoveSeen(p)

UfStep ==
  \/ \E p \in Providers : RoundTrip(p) \/ Sending(p) \/ Beating(p) \/ \E t \in sent : Propagate(p, t)
  \/ UfTick

UfNext == UfStep /\ UNCHANGED silent

UfSpec == UfInit /\ [][UfNext]_ufVars

\* Time passes, and schedule runs Heartbeat again and again.  No call has a
\* deadline, and the timeouts are looked at between calls only: a provider goes
\* on for as long as the one behind it answers, and no others are assumed to.
Answers(p) == p \notin silent /\ UNCHANGED silent

UfFairSpec ==
  /\ UfSpec /\ WF_ufVars(UfTick /\ UNCHANGED silent)
  /\ \A p \in Providers : WF_ufVars(Sending(p) /\ Answers(p)) /\ WF_ufVars(Beating(p) /\ Answers(p))

-----------------------------------------------------------------------------
(* Properties. *)

\* A provider is in RoundTrip exactly as long as it holds ExclusiveSend.
SendIsExclusive == \A p \in Providers : sender[p].pc # "idle" <=> exclusive = p

\* The network has another provider for each of its providers.
SeveralProviders == \A p \in Providers : \E q \in Providers : q # p

\* A transaction of the pool is still to be seen by a provider whose Heartbeat
\* will look at it, or a Heartbeat has marked it and has yet to compare SeenBy
\* with Expected: none is left behind with its last chance to be removed gone.
Awaited ==
  \A t \in transactions : \/ \E q \in Providers : t \in expectedTransactions(q)
                          \/ \E q \in Providers : beat[q].marked = t

\* Providers that may be silent keep what is theirs and nothing else.  A sender
\* that is answered lets go of ExclusiveSend, mined or not: if it is held for
\* ever, then by a RoundTrip without an answer.  And the pool runs empty of the
\* transactions whose other providers all answer, in whatever order they see
\* them: a Heartbeat that hangs holds no lock that another needs.
PoolDrains ==
  /\ []<>(exclusive = "" \/ exclusive \in silent)
  /\ []<>(\A t \in transactions : \E q \in silent : q # t.source)
=============================================================================
