-------------------------------- MODULE Nat --------------------------------
(* The network acceptance tester (op-nat): nat.Start runs the alphanet gate,  *)
(* which runs its four suites in order, each of them its tests, and reports   *)
(* an overall result.  The tests talk to two networks that mine and derive    *)
(* blocks on their own, and every call to a network may fail.                 *)
(*                                                                            *)
(* A wallet's balance counts units of gas; a transfer is one of them.  Block  *)
(* numbers and the confirmations computed from them are words of NatWord      *)
(* values, as Go's uint64 subtraction wraps.                                  *)
EXTENDS Integers, Sequences, FiniteSets

CONSTANTS
  Wallets,         \* the wallets of the manifest
  Funds,           \* [Wallets -> Nat], what each owns on each network
  MinBalance,      \* SimpleTranferParams.MinBalance
  TransferAmount,  \* SimpleTranferParams.TransferAmount
  MaxPolls,        \* the 10 rounds of PollForConfirmations
  NatChecks,       \* SimpleDepositParams.MaxBalanceChecks
  NatSlots,        \* TxFuzzParams.NSlotsToRunFor
  NatWord,         \* 2^64 in the code
  MaxHead,         \* bound: blocks mined on each network
  MaxNatErrors     \* bound: failed calls

ASSUME NatAssumption ==
  /\ IsFiniteSet(Wallets)
  /\ \A w \in Wallets : Funds[w] \in Nat
  /\ {MinBalance, TransferAmount, MaxPolls, NatChecks, NatSlots, MaxNatErrors} \subseteq Nat
  /\ NatWord \in Nat /\ \A n \in {"L1", "L2A"} : MaxHead[n] \in Nat /\ NatWord > MaxHead[n] + 3

VARIABLES
  nat,       \* the run: suite and test at work, its program counter and locals
  leaves,    \* what each test of the running suite returned
  suites,    \* the results of the suites that ended
  report,    \* the overall result, "none" until it is recorded
  head,      \* [Networks -> Nat]
  balance,   \* [Networks -> [Wallets -> Nat]]
  txs,       \* the transactions sent
  mined,     \* the block each mined transaction is in
  owed,      \* wallets whose deposit is mined on L1 and not yet derived on L2
  blind,     \* history: transactions taken for confirmed when BlockNumber failed
  natErrors

natVars == <<nat, leaves, suites, report, head, balance, txs, mined, owed, blind, natErrors>>
world == <<head, balance, txs, mined, owed, blind>>

----------------------------------------------------------------------------
\* Config.GetNetworks, in its order.
Networks == <<"L1", "L2A">>

\* gates.Alphanet and the suites it names.  DepositSuite gives SimpleDeposit
\* its own parameters, and they set nothing but MaxBalanceChecks.
Alphanet == << <<"blocknumber", "chainid">>, <<"deposit">>, <<"transfer">>, <<"fuzz">> >>
DepositAmount == 0
MinL1Balance == 0

NoTest == [suite |-> 0, test |-> 0, pc |-> "start", net |-> 1, from |-> "", to |-> "",
         pre |-> <<0, 0>>, round |-> 0, l1Diff |-> FALSE, l2Diff |-> FALSE]

Test == Alphanet[nat.suite][nat.test]
Net == Networks[nat.net]

Confs(test) == IF test = "deposit" THEN 3 ELSE 2

NatInit ==
  /\ nat = NoTest
  /\ leaves = << >> /\ suites = << >> /\ report = "none"
  /\ head = [n \in {"L1", "L2A"} |-> 0]
  /\ balance = [n \in {"L1", "L2A"} |-> Funds]
  /\ txs = {} /\ mined = << >> /\ owed = {} /\ blind = {}
  /\ natErrors = 0

----------------------------------------------------------------------------
(* Results.  A suite, a gate and the whole run fold theirs the same way.      *)

Overall(results) ==
  CASE "fail" \in results -> "fail"
    [] "fail" \notin results /\ "skip" \in results -> "skip"
    [] OTHER -> "pass"

\* Test.Run returns: ResultTypeFromBool, whatever the error says.  After the
\* last test of a suite the suite's result is recorded, and after the last
\* suite the gate's, which is the run's only validator.
TestEnds(pass) ==
  LET ls == Append(leaves, <<Test, IF pass THEN "pass" ELSE "fail">>)
      ss == Append(suites, [result |-> Overall({l[2] : l \in {ls[i] : i \in DOMAIN ls}}), tests |-> ls])
      last == nat.test = Len(Alphanet[nat.suite])
      over == last /\ nat.suite = Len(Alphanet)
  IN /\ nat' = IF ~last THEN [NoTest EXCEPT !.suite = nat.suite, !.test = nat.test + 1, !.pc = "run"]
               ELSE IF ~over THEN [NoTest EXCEPT !.suite = nat.suite + 1, !.test = 1, !.pc = "run"]
               ELSE [NoTest EXCEPT !.pc = "done"]
     /\ leaves' = IF last THEN << >> ELSE ls
     /\ suites' = IF last THEN ss ELSE suites
     /\ report' = IF over THEN Overall({ss[i].result : i \in DOMAIN ss}) ELSE report

NatGoto(pc) == nat' = [nat EXCEPT !.pc = pc]
Stays == UNCHANGED <<leaves, suites, report>>

\* nat.Start: the gate's first test is under way.
StartNat ==
  /\ nat.pc = "start"
  /\ nat' = [NoTest EXCEPT !.suite = 1, !.test = 1, !.pc = "run"]
  /\ Stays /\ UNCHANGED <<world, natErrors>>

\* A call to a network fails and the test returns false with the error.
NatCallFails ==
  /\ nat.pc \in {"run", "pre", "send", "post"}
  /\ natErrors < MaxNatErrors /\ natErrors' = natErrors + 1
  /\ TestEnds(FALSE)
  /\ UNCHANGED world

\* Mutant of NextNetwork: the loop returns after the first network.
NextNetworkFirst == TestEnds(TRUE)

\* The loop over GetNetworks goes to the next network, or ends with true.
NextNetwork ==
  IF nat.net = Len(Networks) THEN TestEnds(TRUE)
  ELSE Stays /\ nat' = [nat EXCEPT !.net = @ + 1, !.pc = "run", !.round = 0]

\* NetworkGetBlockNumber and NetworkGetChainID ask each network in turn; an
\* unset or another chain id ends the test with false.
Ask ==
  /\ nat.pc = "run" /\ Test \in {"blocknumber", "chainid"}
  /\ \/ NextNetwork
     \/ Test = "chainid" /\ TestEnds(FALSE)
  /\ UNCHANGED <<world, natErrors>>

\* GetWalletWithBalance finds one of these.
Rich(n, least) == {w \in Wallets : balance[n][w] >= least}

\* SetupSimpleTransferTest and SetupSimpleDepositTest: the first wallet with
\* the balance (the order is the manifest's map order, so any), and for a
\* transfer a random receiver, given up after five draws of the sender.
Setup ==
  LET rich == Rich(Net, IF Test = "transfer" THEN MinBalance ELSE MinL1Balance)
  IN /\ nat.pc = "run" /\ Test \in {"deposit", "transfer"}
     /\ \/ rich = {} /\ TestEnds(FALSE)
        \/ rich # {} /\ Test = "transfer" /\ TestEnds(FALSE)
        \/ /\ \E w \in rich, r \in Wallets :
                 /\ Test = "transfer" => r # w
                 /\ Test = "deposit" => r = w
                 /\ nat' = [nat EXCEPT !.pc = "pre", !.from = w, !.to = r]
           /\ Stays
     /\ UNCHANGED <<world, natErrors>>

\* The two balances a test compares: sender and receiver, or L1 and L2.
Balances ==
  IF Test = "transfer" THEN <<balance[Net][nat.from], balance[Net][nat.to]>>
  ELSE <<balance["L1"][nat.from], balance["L2A"][nat.from]>>

ReadPre ==
  /\ nat.pc = "pre"
  /\ nat' = [nat EXCEPT !.pc = "send", !.pre = Balances]
  /\ Stays /\ UNCHANGED <<world, natErrors>>

Tx == <<Test, Net>>
Amount == IF Test = "transfer" THEN TransferAmount ELSE DepositAmount

\* Wallet.Send: the node takes the transaction if the sender can pay for it; its
\* answer may be lost, and then the test fails and the transaction is out.
Send ==
  /\ nat.pc = "send"
  /\ \/ /\ balance[Net][nat.from] >= Amount + 1
        /\ txs' = txs \union {[id |-> Tx, from |-> nat.from, to |-> nat.to, amount |-> Amount]}
        /\ \/ NatGoto("poll") /\ Stays /\ UNCHANGED natErrors
           \/ natErrors < MaxNatErrors /\ natErrors' = natErrors + 1 /\ TestEnds(FALSE)
     \/ /\ balance[Net][nat.from] < Amount + 1 /\ TestEnds(FALSE)
        /\ UNCHANGED <<txs, natErrors>>
  /\ UNCHANGED <<head, balance, mined, owed, blind>>

----------------------------------------------------------------------------
\* One round of Network.PollForConfirmations.  A failed TransactionReceipt
\* leaves no receipt; a failed BlockNumber leaves zero, from which the block of
\* the receipt is subtracted as a word.
Confirmations(blockNumber) == (blockNumber - mined[Tx]) % NatWord

PollForConfirmations ==
  /\ nat.pc = "poll" /\ nat.round < MaxPolls
  /\ \E receipt, number \in BOOLEAN :
       LET blockNumber == IF number THEN head[Net] ELSE 0
           confirmed == receipt /\ Tx \in DOMAIN mined /\ Confirmations(blockNumber) >= Confs(Test)
       IN /\ natErrors' = natErrors + (IF receipt /\ number THEN 0 ELSE 1)
          /\ natErrors' <= MaxNatErrors
          /\ nat' = IF confirmed THEN [nat EXCEPT !.pc = "post", !.round = 0]
                    ELSE [nat EXCEPT !.round = @ + 1]
          /\ blind' = IF confirmed /\ ~number THEN blind \union {Tx} ELSE blind
  /\ Stays /\ UNCHANGED <<head, balance, txs, mined, owed>>

\* "tx was not confirmed"
GiveUp ==
  /\ nat.pc = "poll" /\ nat.round = MaxPolls
  /\ TestEnds(FALSE)
  /\ UNCHANGED <<world, natErrors>>

\* SimpleTransferTest after the confirmation: the receiver has the amount
\* more, the sender less than what the amount alone would leave.
Transferred(post) ==
  /\ post[2] - nat.pre[2] = TransferAmount
  /\ post[1] < nat.pre[1] - TransferAmount

CheckTransfer ==
  /\ nat.pc = "post" /\ Test = "transfer"
  /\ IF Transferred(Balances) THEN NextNetwork ELSE TestEnds(FALSE)
  /\ UNCHANGED <<world, natErrors>>

\* SimpleDepositTest's loop over the balances, which remembers what it saw.
CheckDeposit ==
  LET l1 == nat.l1Diff \/ Balances[1] < nat.pre[1] - DepositAmount
      l2 == nat.l2Diff \/ Balances[2] = nat.pre[2] + DepositAmount
  IN /\ nat.pc = "post" /\ Test = "deposit"
     /\ IF l1 /\ l2 THEN TestEnds(TRUE)
        ELSE IF nat.round + 1 >= NatChecks THEN TestEnds(FALSE)
        ELSE Stays /\ nat' = [nat EXCEPT !.round = @ + 1, !.l1Diff = l1, !.l2Diff = l2]
     /\ UNCHANGED <<world, natErrors>>

\* TxFuzz: a wallet that can pay, then slots of airdrop and spam; NatCallFails
\* stands for the errors of the spammer.
Spam ==
  /\ nat.pc = "run" /\ Test = "fuzz"
  /\ IF nat.round = 0 /\ Rich("L2A", MinBalance) = {} THEN TestEnds(FALSE)
     ELSE IF nat.round = NatSlots THEN TestEnds(TRUE)
     ELSE Stays /\ nat' = [nat EXCEPT !.round = @ + 1]
  /\ UNCHANGED <<world, natErrors>>

----------------------------------------------------------------------------
\* The networks: a block takes the waiting transactions, or none of them.
Mine(n) ==
  /\ nat.pc # "done" /\ head[n] < MaxHead[n]
  /\ head' = [head EXCEPT ![n] = @ + 1]
  /\ \E ts \in {{}, {t \in txs : t.id[2] = n /\ t.id \notin DOMAIN mined}} :
       /\ mined' = [i \in DOMAIN mined \union {t.id : t \in ts} |->
                      IF i \in DOMAIN mined THEN mined[i] ELSE head[n] + 1]
       /\ balance' = [balance EXCEPT ![n] = [w \in Wallets |->
            @[w] + (IF \E t \in ts : t.id[1] = "transfer" /\ t.to = w THEN TransferAmount ELSE 0)
                 - (IF \E t \in ts : t.id[1] = "transfer" /\ t.from = w THEN TransferAmount + 1 ELSE 0)
                 - (IF \E t \in ts : t.id[1] = "deposit" /\ t.from = w THEN DepositAmount + 1 ELSE 0)
                 + (IF n = "L2A" /\ w \in owed THEN DepositAmount ELSE 0)]]
       /\ owed' = (IF n = "L2A" THEN {} ELSE owed) \union {t.from : t \in {u \in ts : u.id[1] = "deposit"}}
  /\ UNCHANGED <<nat, leaves, suites, report, txs, blind, natErrors>>

NatStep ==
  \/ StartNat \/ NatCallFails \/ Ask \/ Setup \/ ReadPre \/ Send
  \/ PollForConfirmations \/ GiveUp \/ CheckTransfer \/ CheckDeposit \/ Spam

NatNext == NatStep \/ \E n \in {"L1", "L2A"} : Mine(n)

NatSpec == NatInit /\ [][NatNext]_natVars

----------------------------------------------------------------------------
Leaves == UNION {{s.tests[i] : i \in DOMAIN s.tests} : s \in {suites[i] : i \in DOMAIN suites}}

\* Transactions with the confirmations their test asks for on top of them, and
\* those that passed for it: a failed BlockNumber wraps to any number of them.
Confirmed == {t \in DOMAIN mined : t \in blind \/ head[t[2]] >= mined[t] + Confs(t[1])}

\* A test that moves money passes only if its money moved: the transaction of a
\* passed simple transfer is mined and confirmed on every network, that of a
\* passed deposit on L1, whatever calls failed and whenever the blocks came,
\* except that a failed BlockNumber counts for any number of confirmations.  And
\* the result the run reports fails exactly if a test of some suite failed,
\* after all tests ran: a later suite that passes hides no failure.
ReportIsTrue ==
  /\ <<"transfer", "pass">> \in Leaves => \A n \in {"L1", "L2A"} : <<"transfer", n>> \in Confirmed
  /\ <<"deposit", "pass">> \in Leaves => <<"deposit", "L1">> \in Confirmed
  /\ report # "none" =>
       /\ {l[1] : l \in Leaves} = {"blocknumber", "chainid", "deposit", "transfer", "fuzz"}
       /\ report = "fail" <=> \E l \in Leaves : l[2] = "fail"
============================================================================
