-------------------------- MODULE ConsensusProofs ---------------------------
(***************************************************************************)
(* The consensus poller, for any backends, reports and periods: what its   *)
(* rounds agree on, that it implements ConsensusView, and, over chains     *)
(* that the backends follow, that the group it installs agrees on the      *)
(* block it publishes.                                                     *)
(***************************************************************************)
EXTENDS ConsensusPollerView, ConsensusChain, TLAPS

-----------------------------------------------------------------------------
(***************************************************************************)
(* ConsensusPoller: types, bans, the order of the tags, the walk back and  *)
(* the lowest numbers, each with an invariant of its own.                  *)
(***************************************************************************)

\* What setBackendState records of a report is a state with the reported
\* numbers.
LEMMA RecordedType ==
  ASSUME NEW be \in Backends, NEW r \in Reports
  PROVE  /\ Recorded(be, r) \in BackendState
         /\ Recorded(be, r).latest = r.latest
         /\ Recorded(be, r).safe = r.safe
         /\ Recorded(be, r).finalized = r.finalized
  BY ReportsAssumption, Zenon DEF Recorded, BackendState

\* The numbers Ban zeroes, and the type of what it leaves.
LEMMA BannedType ==
  ASSUME NEW s \in BackendState
  PROVE  LET b == [s EXCEPT !.latest = 0, !.safe = 0, !.finalized = 0] IN
         /\ b \in BackendState
         /\ b.latest = 0 /\ b.safe = 0 /\ b.finalized = 0
  BY Zenon DEF BackendState

\* The state of a backend that was never polled is a state.
LEMMA ZeroStateType == ZeroState \in BackendState
  BY Zenon DEF ZeroState, BackendState

\* An answer for block n never has a number above n.
LEMMA AnswersBelow ==
  ASSUME NEW n \in Nat, NEW answer \in Answers(n)
  PROVE  /\ answer.number \in Nat /\ answer.number <= n
         /\ answer.hash \in Hashes \cup {Genesis}
         /\ n = 0 => answer = [number |-> 0, hash |-> Genesis]
<1>1. CASE n = 0
  BY <1>1 DEF Answers
<1>2. CASE n # 0
  <2>1. answer \in [number : {n} \cup {k \in OtherNumbers : k < n}, hash : Hashes]
    BY <1>2, Zenon DEF Answers
  <2>2. answer.number = n \/ (answer.number \in OtherNumbers /\ answer.number < n)
    BY <2>1, Zenon
  <2>3. answer.hash \in Hashes
    BY <2>1, Zenon
  <2>4. answer.number \in Nat /\ answer.number <= n
    <3>1. OtherNumbers \subseteq Nat
      BY ConfigAssumption, Zenon
    <3>2. CASE answer.number = n
      BY <3>2
    <3>3. CASE answer.number \in OtherNumbers /\ answer.number < n
      <4>1. answer.number \in Nat
        BY <3>1, <3>3, Zenon
      <4>2. QED BY <3>3, <4>1
    <3>4. QED BY <2>2, <3>2, <3>3, Zenon
  <2>5. QED BY <1>2, <2>3, <2>4, Zenon
<1>3. QED BY <1>1, <1>2, Zenon

\* The type of proposedBlock and proposedBlockHash.
Proposal == [number : Nat, hash : Hashes \cup {Genesis, NoHash}]

\* No proposal is a proposal: the zero of proposedBlock and its hash.
LEMMA NoBlockType == NoBlock \in Proposal
  BY Zenon DEF NoBlock, Proposal

-----------------------------------------------------------------------------
\* The types hold when the poller is created.
LEMMA InitTypeOK == Init => TypeOK
<1> SUFFICES ASSUME Init PROVE TypeOK
  BY Zenon
<1>1. healthy \in [Backends -> BOOLEAN]
  BY Zenon DEF Init
<1>2. broken \in BOOLEAN
  BY Zenon DEF Init
<1>3. /\ backendState \in [Backends -> BackendState]
      /\ snapshot \in [Backends -> BackendState]
      /\ lowest \in BackendState
  BY ZeroStateType, Zenon DEF Init
<1>4. proposed \in Proposal
  BY NoBlockType, Zenon DEF Init
<1>5. tracker \in [latest : Nat, safe : Nat, finalized : Nat]
  BY Zenon DEF Init, ZeroTracker
<1>6. /\ freshFor \in [Backends -> Nat] /\ bannedFor \in [Backends -> Nat]
      /\ bannedGroups \in [Backends -> Nat] /\ current \in Nat
      /\ upc \in [Backends -> {"idle", "polling", "banning"}]
      /\ gpc \in GroupControl
      /\ consensusGroup \subseteq Backends /\ pending \subseteq Backends
      /\ candidates \subseteq Backends
  BY Zenon DEF Init, GroupControl
<1>7. QED BY <1>1, <1>2, <1>3, <1>4, <1>5, <1>6, Zenon DEF TypeOK, Proposal

\* UpdateBackend keeps the types.
LEMMA UpdateTypeOK ==
  ASSUME TypeOK, NEW be \in Backends, UpdateBackend(be)
  PROVE  TypeOK'
<1>1. CASE BanUnhealthy(be)
  BY <1>1, BannedType, ConfigAssumption, Zenon DEF BanUnhealthy, Ban, TypeOK, roundVars
<1>2. CASE StartPolling(be)
  BY <1>2, Zenon DEF StartPolling, TypeOK, roundVars
<1>3. CASE PollFails(be)
  BY <1>3, Zenon DEF PollFails, TypeOK, roundVars
<1>4. ASSUME NEW r \in Reports, SetBackendState(be, r) PROVE TypeOK'
  BY <1>4, RecordedType, ConfigAssumption DEF SetBackendState, TypeOK, roundVars
<1>5. CASE BanUnexpectedTags(be)
  BY <1>5, BannedType, ConfigAssumption, Zenon DEF BanUnexpectedTags, Ban, TypeOK, roundVars
<1>6. QED BY <1>1, <1>2, <1>3, <1>4, <1>5, Zenon DEF UpdateBackend

\* The lower of two numbers is a number.
LEMMA LowerType == ASSUME NEW a \in Nat, NEW b \in Nat PROVE Lower(a, b) \in Nat
  BY Zenon DEF Lower

\* UpdateBackendGroupConsensus keeps the types.
LEMMA GroupTypeOK ==
  ASSUME TypeOK, UpdateBackendGroupConsensus
  PROVE  TypeOK'
<1>1. CASE BeginRound
  BY <1>1, Zenon DEF BeginRound, TypeOK, updateVars, Backends, GroupControl
<1>2. ASSUME NEW be \in Backends, Inspect(be) PROVE TypeOK'
  BY <1>2 DEF Inspect, TypeOK, updateVars
<1>3. CASE TurnToFallbacks
  BY <1>3, Zenon DEF TurnToFallbacks, TypeOK, updateVars, Backends, GroupControl
<1>4. CASE DropLagging
  BY <1>4, Zenon DEF DropLagging, NotLagging, TypeOK, updateVars, GroupControl
<1>5. ASSUME NEW be \in Backends, CompareLowest(be) PROVE TypeOK'
  <2>1. /\ snapshot[be] \in BackendState
        /\ lowest \in BackendState
    BY Zenon DEF TypeOK
  <2>2. lowest' \in BackendState
    BY <1>5, <2>1, LowerType, Zenon DEF CompareLowest, BackendState
  <2>3. QED BY <1>5, <2>2, Zenon DEF CompareLowest, TypeOK, updateVars
<1>6. CASE Propose
  <2>1. proposed' \in [number : Nat, hash : Hashes \cup {Genesis, NoHash}]
    BY <1>6, Zenon DEF Propose, TypeOK, BackendState
  <2>2. QED BY <1>6, <2>1, Zenon DEF Propose, TypeOK, updateVars, GroupControl
<1>7. ASSUME NEW be \in Backends, AskFails(be) PROVE TypeOK'
  BY <1>7, Zenon DEF AskFails, TypeOK, updateVars
<1>8. ASSUME NEW be \in Backends, NEW answer \in Answers(proposed.number),
             Ask(be, answer)
      PROVE  TypeOK'
  <2>1. proposed.number \in Nat
    BY Zenon DEF TypeOK
  <2>2. answer.hash \in Hashes \cup {Genesis}
    BY <2>1, AnswersBelow, Zenon
  <2>3. (proposed.number - 1) % UintMod \in Nat
    BY <2>1, ConfigAssumption
  <2>4. proposed' \in Proposal
    BY <1>8, <2>1, <2>2, <2>3 DEF Ask, TypeOK, Proposal
  <2>5. broken' \in BOOLEAN
    BY <1>8, Zenon DEF Ask, TypeOK
  <2>6. pending' \subseteq Backends
    BY <1>8, Zenon DEF Ask, TypeOK
  <2>7. QED BY <1>8, <2>4, <2>5, <2>6, Zenon DEF Ask, TypeOK, updateVars, Proposal
<1>9. CASE AllAgreed
  BY <1>9, Zenon DEF AllAgreed, TypeOK, updateVars, GroupControl
<1>10. CASE SetLatest
  BY <1>10, Zenon DEF SetLatest, TypeOK, updateVars, GroupControl
<1>11. CASE SetSafe
  BY <1>11, Zenon DEF SetSafe, TypeOK, updateVars, GroupControl, BackendState
<1>12. CASE SetFinalized
  BY <1>12, Zenon DEF SetFinalized, TypeOK, updateVars, GroupControl, BackendState
<1>13. CASE SetGroup
  <2>1. broken' \in BOOLEAN
    BY <1>13, Zenon DEF SetGroup
  <2>2. /\ snapshot' \in [Backends -> BackendState]
        /\ lowest' \in BackendState
    BY <1>13, ZeroStateType, Zenon DEF SetGroup
  <2>3. proposed' \in Proposal
    BY <1>13, NoBlockType, Zenon DEF SetGroup
  <2>4. bannedGroups' \in [Backends -> Nat]
    BY <1>13 DEF SetGroup, TypeOK
  <2>5. /\ consensusGroup' \subseteq Backends /\ candidates' \subseteq Backends
        /\ gpc' \in GroupControl /\ current' \in Nat
    BY <1>13, Zenon DEF SetGroup, TypeOK, GroupControl
  <2>6. UNCHANGED <<backendState, freshFor, bannedFor, upc, healthy, tracker, pending>>
    BY <1>13, Zenon DEF SetGroup, updateVars
  <2>7. QED BY <2>1, <2>2, <2>3, <2>4, <2>5, <2>6, Zenon DEF TypeOK, Proposal
<1>14. QED
  BY <1>1, <1>2, <1>3, <1>4, <1>5, <1>6, <1>7, <1>8, <1>9, <1>10, <1>11, <1>12,
     <1>13, Zenon DEF UpdateBackendGroupConsensus

\* Every step keeps the types.
LEMMA StepTypeOK == TypeOK /\ [Next]_vars => TypeOK'
<1> SUFFICES ASSUME TypeOK, [Next]_vars PROVE TypeOK'
  BY Zenon
<1>1. ASSUME NEW be \in Backends, UpdateBackend(be) PROVE TypeOK'
  BY <1>1, UpdateTypeOK, Zenon
<1>2. CASE UpdateBackendGroupConsensus
  BY <1>2, GroupTypeOK, Zenon
<1>3. CASE Tick
  BY <1>3 DEF Tick, Less, TypeOK, roundVars
<1>4. ASSUME NEW be \in Backends, HealthChanges(be) PROVE TypeOK'
  BY <1>4, Zenon DEF HealthChanges, TypeOK, roundVars, updateVars
<1>5. CASE UNCHANGED vars
  BY <1>5, Zenon DEF vars, TypeOK, roundVars, updateVars
<1>6. QED BY <1>1, <1>2, <1>3, <1>4, <1>5, Zenon DEF Next

\* The variables of the poller keep the types of the Go variables.
THEOREM TypeCorrect == Spec => []TypeOK
  BY InitTypeOK, StepTypeOK, PTL DEF Spec

\* Ban, backend by backend.
LEMMA BanEffect ==
  ASSUME TypeOK, NEW be \in Backends, Ban(be)
  PROVE  /\ backendState'[be].latest = 0 /\ backendState'[be].safe = 0
         /\ backendState'[be].finalized = 0
         /\ \A b \in Backends \ {be} : backendState'[b] = backendState[b]
<1> DEFINE zeroed == [backendState[be] EXCEPT !.latest = 0, !.safe = 0, !.finalized = 0]
<1>1. backendState' = [backendState EXCEPT ![be] = zeroed]
  BY Zenon DEF Ban
<1>2. zeroed.latest = 0 /\ zeroed.safe = 0 /\ zeroed.finalized = 0
  BY BannedType, Zenon DEF TypeOK
<1> HIDE DEF zeroed
<1>3. backendState'[be] = zeroed
  BY <1>1, Zenon DEF TypeOK
<1>4. \A b \in Backends \ {be} : backendState'[b] = backendState[b]
  BY <1>1, Zenon DEF TypeOK
<1>5. QED BY <1>2, <1>3, <1>4, Zenon

-----------------------------------------------------------------------------
(* A ban takes effect within one round.  The invariant has to say why the  *)
(* count cannot reach 2: a candidate that is banned was banned after it    *)
(* was inspected, so no group has been published with it since.            *)

BanInv ==
  /\ \A be \in Backends : bannedGroups[be] <= 1
  /\ \A be \in candidates : bannedFor[be] > 0 => bannedGroups[be] = 0
  /\ \A be \in Forced : bannedFor[be] = 0 /\ upc[be] # "banning"

\* The invariant about bans holds when nobody is banned.
LEMMA InitBanInv == Init => BanInv
  BY ConfigAssumption DEF Init, BanInv

\* UpdateBackend keeps the invariant about bans, Ban included.
LEMMA UpdateBanInv ==
  ASSUME TypeOK, BanInv, NEW be \in Backends, UpdateBackend(be)
  PROVE  BanInv'
<1>1. CASE BanUnhealthy(be)
  BY <1>1 DEF BanUnhealthy, Ban, TypeOK, BanInv, roundVars
<1>2. CASE StartPolling(be)
  BY <1>2 DEF StartPolling, TypeOK, BanInv, roundVars
<1>3. CASE PollFails(be)
  BY <1>3 DEF PollFails, TypeOK, BanInv, roundVars
<1>4. ASSUME NEW r \in Reports, SetBackendState(be, r) PROVE BanInv'
  BY <1>4 DEF SetBackendState, TypeOK, BanInv, roundVars
<1>5. CASE BanUnexpectedTags(be)
  <2>1. be \notin Forced
    BY <1>5, Zenon DEF BanUnexpectedTags, BanInv
  <2>2. QED BY <1>5, <2>1 DEF BanUnexpectedTags, Ban, TypeOK, BanInv, roundVars
<1>6. QED BY <1>1, <1>2, <1>3, <1>4, <1>5, Zenon DEF UpdateBackend

\* UpdateBackendGroupConsensus keeps the invariant about bans, its own
\* included.
LEMMA GroupBanInv ==
  ASSUME TypeOK, BanInv, UpdateBackendGroupConsensus
  PROVE  BanInv'
<1>1. ASSUME UNCHANGED <<bannedGroups, bannedFor, upc>>, candidates' \subseteq candidates
      PROVE  BanInv'
  BY <1>1, Zenon DEF BanInv
<1>2. ASSUME NEW be \in Backends, Inspect(be) PROVE BanInv'
  <2>1. CASE Eligible(be)
    <3>1. bannedFor[be] = 0
      BY <2>1 DEF Eligible, IsBanned, BanInv, TypeOK
    <3>2. QED BY <1>2, <2>1, <3>1 DEF Inspect, BanInv, updateVars
  <2>2. CASE ~Eligible(be)
    BY <1>1, <1>2, <2>2, Zenon DEF Inspect, updateVars
  <2>3. QED BY <2>1, <2>2, Zenon
<1>3. CASE SetGroup
  <2>1. \A be \in Backends : bannedGroups'[be] <= 1
    BY <1>3 DEF SetGroup, IsBanned, TypeOK, BanInv
  <2>2. candidates' = {} /\ UNCHANGED <<bannedFor, upc>>
    BY <1>3, Zenon DEF SetGroup, updateVars
  <2>3. QED BY <2>1, <2>2, Zenon DEF BanInv
<1>4. CASE BeginRound       BY <1>1, <1>4, Zenon DEF BeginRound, updateVars
<1>5. CASE TurnToFallbacks  BY <1>1, <1>5, Zenon DEF TurnToFallbacks, updateVars
<1>6. CASE DropLagging      BY <1>1, <1>6, Zenon DEF DropLagging, NotLagging, updateVars
<1>7. ASSUME NEW be \in Backends, CompareLowest(be) PROVE BanInv'
  BY <1>1, <1>7, Zenon DEF CompareLowest, updateVars
<1>8. CASE Propose          BY <1>1, <1>8, Zenon DEF Propose, updateVars
<1>9. ASSUME NEW be \in Backends, AskFails(be) PROVE BanInv'
  BY <1>1, <1>9, Zenon DEF AskFails, updateVars
<1>10. ASSUME NEW be \in Backends, NEW answer \in Answers(proposed.number),
              Ask(be, answer)
       PROVE  BanInv'
  BY <1>1, <1>10, Zenon DEF Ask, updateVars
<1>11. CASE AllAgreed       BY <1>1, <1>11, Zenon DEF AllAgreed, updateVars
<1>12. CASE SetLatest       BY <1>1, <1>12, Zenon DEF SetLatest, updateVars
<1>13. CASE SetSafe         BY <1>1, <1>13, Zenon DEF SetSafe, updateVars
<1>14. CASE SetFinalized    BY <1>1, <1>14, Zenon DEF SetFinalized, updateVars
<1>15. QED
  BY <1>2, <1>3, <1>4, <1>5, <1>6, <1>7, <1>8, <1>9, <1>10, <1>11, <1>12, <1>13,
     <1>14, Zenon DEF UpdateBackendGroupConsensus

\* Every step keeps the invariant about bans.
LEMMA StepBanInv == TypeOK /\ BanInv /\ [Next]_vars => BanInv'
<1> SUFFICES ASSUME TypeOK, BanInv, [Next]_vars PROVE BanInv'
  BY Zenon
<1>1. ASSUME NEW be \in Backends, UpdateBackend(be) PROVE BanInv'
  BY <1>1, UpdateBanInv, Zenon
<1>2. CASE UpdateBackendGroupConsensus
  BY <1>2, GroupBanInv, Zenon
<1>3. CASE Tick
  BY <1>3, ConfigAssumption DEF Tick, Less, TypeOK, BanInv, roundVars
<1>4. ASSUME NEW be \in Backends, HealthChanges(be) PROVE BanInv'
  BY <1>4, Zenon DEF HealthChanges, BanInv, roundVars, updateVars
<1>5. CASE UNCHANGED vars
  BY <1>5, Zenon DEF vars, BanInv, roundVars, updateVars
<1>6. QED BY <1>1, <1>2, <1>3, <1>4, <1>5, Zenon DEF Next

\* After Ban, UpdateBackendGroupConsensus publishes at most one more group
\* that contains the banned backend.
THEOREM BanEffective == Spec => []BannedPublishedAtMostOnce
<1>1. BanInv => BannedPublishedAtMostOnce
  BY Zenon DEF BanInv, BannedPublishedAtMostOnce
<1>2. QED BY <1>1, InitBanInv, StepBanInv, TypeCorrect, PTL DEF Spec

-----------------------------------------------------------------------------
(* Recorded tags. *)

\* Tags in the wrong order are recorded only on the way to a ban.
LEMMA TagsStep ==
  ASSUME TypeOK, InvertedTagsAwaitBan, [Next]_vars
  PROVE  InvertedTagsAwaitBan'
<1>1. ASSUME UNCHANGED <<backendState, upc>> PROVE InvertedTagsAwaitBan'
  BY <1>1, Zenon DEF InvertedTagsAwaitBan
<1>2. ASSUME NEW be \in Backends, UpdateBackend(be) PROVE InvertedTagsAwaitBan'
  <2>1. CASE BanUnhealthy(be)
    BY <1>2, <2>1, BanEffect DEF BanUnhealthy, InvertedTagsAwaitBan
  <2>2. CASE StartPolling(be)
    BY <1>2, <2>2, Zenon DEF StartPolling, MayUpdate, TypeOK, InvertedTagsAwaitBan
  <2>3. CASE PollFails(be)
    BY <1>2, <2>3, Zenon DEF PollFails, TypeOK, InvertedTagsAwaitBan
  <2>4. ASSUME NEW r \in Reports, SetBackendState(be, r) PROVE InvertedTagsAwaitBan'
    BY <1>2, <2>4, RecordedType
       DEF SetBackendState, ExpectedBlockTags, TypeOK, InvertedTagsAwaitBan
  <2>5. CASE BanUnexpectedTags(be)
    BY <1>2, <2>5, BanEffect DEF BanUnexpectedTags, TypeOK, InvertedTagsAwaitBan
  <2>6. QED BY <1>2, <2>1, <2>2, <2>3, <2>4, <2>5, Zenon DEF UpdateBackend
<1>3. CASE UpdateBackendGroupConsensus
  BY <1>1, <1>3, Zenon DEF UpdateBackendGroupConsensus, BeginRound, Inspect, TurnToFallbacks,
     DropLagging, CompareLowest, Propose, AskFails, Ask, AllAgreed, SetLatest, SetSafe,
     SetFinalized, SetGroup, updateVars
<1>4. CASE Tick
  BY <1>1, <1>4, Zenon DEF Tick
<1>5. ASSUME NEW be \in Backends, HealthChanges(be) PROVE InvertedTagsAwaitBan'
  BY <1>1, <1>5, Zenon DEF HealthChanges, updateVars
<1>6. CASE UNCHANGED vars
  BY <1>1, <1>6, Zenon DEF vars, updateVars
<1>7. QED BY <1>2, <1>3, <1>4, <1>5, <1>6, Zenon DEF Next

\* Tags out of order are recorded only until the Ban that answers them.
THEOREM TagsOrdered == Spec => []InvertedTagsAwaitBan
<1>1. Init => InvertedTagsAwaitBan
  BY DEF Init, ZeroState, InvertedTagsAwaitBan
<1>2. QED BY <1>1, TagsStep, TypeCorrect, PTL DEF Spec

\* A poll that records a lower safe or finalized is followed by a ban.
THEOREM TagsMonotone == Spec => TagsRegressOnlyIntoBan
<1> DEFINE Regress == \A be \in Backends \ Forced :
             \/ backendState'[be].safe < backendState[be].safe
             \/ backendState'[be].finalized < backendState[be].finalized
             => upc'[be] = "banning" \/ bannedFor'[be] > 0
<1>1. TypeOK /\ TypeOK' /\ [Next]_vars => [Regress]_vars
  <2> SUFFICES ASSUME TypeOK, TypeOK', Next PROVE Regress
    BY Zenon
  <2>1. ASSUME UNCHANGED backendState PROVE Regress
    BY <2>1 DEF TypeOK, BackendState
  <2>2. ASSUME NEW be \in Backends, UpdateBackend(be) PROVE Regress
    <3>1. CASE BanUnhealthy(be)
      BY <2>2, <3>1, ConfigAssumption DEF BanUnhealthy, Ban, TypeOK, BackendState
    <3>2. CASE StartPolling(be) \/ PollFails(be)
      BY <2>1, <3>2, Zenon DEF StartPolling, PollFails
    <3>3. ASSUME NEW r \in Reports, SetBackendState(be, r) PROVE Regress
      <4>1. r \in BackendState
        BY ReportsAssumption, Zenon
      <4>2. QED BY <2>2, <3>3, <4>1, RecordedType
                DEF SetBackendState, ExpectedBlockTags, TypeOK, BackendState
    <3>4. CASE BanUnexpectedTags(be)
      BY <2>2, <3>4, ConfigAssumption DEF BanUnexpectedTags, Ban, TypeOK, BackendState
    <3>5. QED BY <2>2, <3>1, <3>2, <3>3, <3>4, Zenon DEF UpdateBackend
  <2>3. CASE UpdateBackendGroupConsensus
    BY <2>1, <2>3, Zenon DEF UpdateBackendGroupConsensus, BeginRound, Inspect, TurnToFallbacks,
       DropLagging, CompareLowest, Propose, AskFails, Ask, AllAgreed, SetLatest, SetSafe,
       SetFinalized, SetGroup, updateVars
  <2>4. CASE Tick
    BY <2>1, <2>4, Zenon DEF Tick
  <2>5. ASSUME NEW be \in Backends, HealthChanges(be) PROVE Regress
    BY <2>1, <2>5, Zenon DEF HealthChanges, updateVars
  <2>6. QED BY <2>2, <2>3, <2>4, <2>5, Zenon DEF Next
<1>2. QED BY <1>1, TypeCorrect, PTL DEF Spec, TagsRegressOnlyIntoBan

-----------------------------------------------------------------------------
(* The walk back.  Block 0 is the same in all backends, so the walk stops  *)
(* there at the latest; the event is due as soon as the walk passes below  *)
(* the previous consensus, because the answer that caused the step is not  *)
(* above the block that was asked for.                                     *)

Published == {"setSafe", "setFinalized", "setGroup"}

WalkInv ==
  /\ \A be \in Backends : /\ backendState[be].latest < UintMod
                          /\ snapshot[be].latest < UintMod
  /\ lowest.latest < UintMod
  /\ gpc \in {"idle", "primaries", "fallbacks", "lowest"} => proposed = NoBlock
  /\ proposed.number <= lowest.latest
  /\ gpc = "agree" /\ proposed.number = 0 => proposed.hash \in {NoHash, Genesis}
  /\ /\ gpc \in {"agree", "setLatest"} \cup Published
     /\ proposed.number < current /\ proposed.number < lowest.latest
     => broken
  /\ gpc \in Published => tracker.latest = proposed.number

\* The lower of two numbers is below what both are below.
LEMMA LowerBelow ==
  ASSUME NEW a \in Nat, NEW b \in Nat, NEW m \in Nat, a < m, b < m
  PROVE  Lower(a, b) < m
  BY Zenon DEF Lower

\* Going one block back does not wrap round above block 0.
LEMMA StepBack ==
  ASSUME NEW n \in Nat, n > 0, n < UintMod
  PROVE  (n - 1) % UintMod = n - 1
<1>1. UintMod \in Nat \ {0}
  BY ConfigAssumption, Zenon
<1>2. QED BY <1>1

\* The invariant about the walk back holds before the first round.
LEMMA InitWalkInv == Init => WalkInv
<1> SUFFICES ASSUME Init PROVE WalkInv
  BY Zenon
<1>1. UintMod > 0
  BY ConfigAssumption
<1>2. ZeroState.latest = 0 /\ NoBlock.number = 0
  BY Zenon DEF ZeroState, NoBlock
<1>3. QED BY <1>1, <1>2 DEF Init, WalkInv, Published

\* UpdateBackend does not disturb the walk of a round.
LEMMA UpdateWalkInv ==
  ASSUME TypeOK, WalkInv, NEW be \in Backends, UpdateBackend(be)
  PROVE  WalkInv'
<1>1. ASSUME \A b \in Backends : backendState'[b].latest < UintMod,
             UNCHANGED roundVars, UNCHANGED tracker
      PROVE  WalkInv'
  BY <1>1, Zenon DEF WalkInv, roundVars, Published
<1>2. ASSUME Ban(be)
      PROVE  \A b \in Backends : backendState'[b].latest < UintMod
  BY <1>2, ConfigAssumption, BanEffect DEF WalkInv
<1>3. CASE BanUnhealthy(be)
  BY <1>1, <1>2, <1>3, Zenon DEF BanUnhealthy
<1>4. CASE StartPolling(be)
  BY <1>1, <1>4, Zenon DEF StartPolling, WalkInv
<1>5. CASE PollFails(be)
  BY <1>1, <1>5, Zenon DEF PollFails, WalkInv
<1>6. ASSUME NEW r \in Reports, SetBackendState(be, r) PROVE WalkInv'
  <2>1. r.latest < UintMod
    BY ReportsAssumption, Zenon
  <2>2. \A b \in Backends : backendState'[b].latest < UintMod
    BY <1>6, <2>1, RecordedType DEF SetBackendState, TypeOK, WalkInv
  <2>3. QED BY <1>1, <1>6, <2>2, Zenon DEF SetBackendState
<1>7. CASE BanUnexpectedTags(be)
  BY <1>1, <1>2, <1>7, Zenon DEF BanUnexpectedTags
<1>8. QED BY <1>3, <1>4, <1>5, <1>6, <1>7, Zenon DEF UpdateBackend

\* An answer of a backend leaves the proposal or takes it one block back.
LEMMA AskWalkInv ==
  ASSUME TypeOK, WalkInv, NEW be \in Backends,
         NEW answer \in Answers(proposed.number), Ask(be, answer)
  PROVE  WalkInv'
<1> DEFINE hash == IF proposed.hash = NoHash THEN answer.hash ELSE proposed.hash
<1>1. /\ proposed.number \in Nat /\ lowest.latest \in Nat /\ current \in Nat
      /\ UintMod \in Nat
  BY ConfigAssumption, Zenon DEF TypeOK, BackendState
<1>2. /\ answer.number \in Nat /\ answer.number <= proposed.number
      /\ proposed.number = 0 => answer = [number |-> 0, hash |-> Genesis]
  BY <1>1, AnswersBelow, Zenon
<1>3. CASE answer.number = proposed.number /\ answer.hash = hash
  <2>1. /\ proposed'.number = proposed.number /\ proposed'.hash = hash
        /\ broken' = broken
    BY <1>3, Zenon DEF Ask, TypeOK
  <2>2. proposed.number = 0 => hash \in {NoHash, Genesis}
    BY <1>2 DEF WalkInv, Ask
  <2>3. QED BY <2>1, <2>2, Zenon DEF Ask, WalkInv, updateVars, Published
<1>4. CASE ~(answer.number = proposed.number /\ answer.hash = hash)
  <2>1. proposed.number > 0
    <3>1. SUFFICES ASSUME proposed.number = 0 PROVE FALSE
      BY <1>1
    <3>2. proposed.hash \in {NoHash, Genesis}
      BY <3>1, Zenon DEF WalkInv, Ask
    <3>3. answer.number = 0 /\ answer.hash = Genesis
      BY <3>1, <1>2
    <3>4. QED BY <1>4, <3>1, <3>2, <3>3, Zenon
  <2>2. proposed.number < UintMod
    BY <1>1 DEF WalkInv
  <2>3. /\ proposed' = [number |-> (proposed.number - 1) % UintMod, hash |-> NoHash]
        /\ broken' = (broken \/ current >= answer.number)
    BY <1>4, Zenon DEF Ask
  <2>4. proposed'.number = proposed.number - 1 /\ proposed'.hash = NoHash
    BY <1>1, <2>1, <2>2, <2>3, StepBack, Zenon
  <2>5. proposed'.number < current => broken'
    <3>1. proposed'.number < current => current >= answer.number
      BY <1>1, <1>2, <2>4
    <3>2. QED BY <2>3, <3>1, Zenon
  <2>6. /\ gpc = "agree" /\ gpc' = gpc
        /\ UNCHANGED <<backendState, snapshot, lowest, current>>
    BY Zenon DEF Ask, updateVars
  <2>7. proposed'.number <= lowest.latest
    BY <1>1, <2>4 DEF WalkInv
  <2>8. QED BY <2>4, <2>5, <2>6, <2>7, Zenon DEF WalkInv, Published
<1>5. QED BY <1>3, <1>4, Zenon

\* UpdateBackendGroupConsensus keeps the invariant about the walk.
LEMMA GroupWalkInv ==
  ASSUME TypeOK, WalkInv, UpdateBackendGroupConsensus
  PROVE  WalkInv'
<1>1. CASE BeginRound
  BY <1>1, Zenon DEF BeginRound, WalkInv, updateVars, Published
<1>2. ASSUME NEW be \in Backends, Inspect(be) PROVE WalkInv'
  BY <1>2, Zenon DEF Inspect, TypeOK, WalkInv, updateVars, Published
<1>3. CASE TurnToFallbacks
  BY <1>3, Zenon DEF TurnToFallbacks, WalkInv, updateVars, Published
<1>4. CASE DropLagging
  BY <1>4, Zenon DEF DropLagging, WalkInv, updateVars, Published
<1>5. ASSUME NEW be \in Backends, CompareLowest(be) PROVE WalkInv'
  <2>1. /\ lowest.latest \in Nat /\ snapshot[be].latest \in Nat /\ UintMod \in Nat
    BY ConfigAssumption, Zenon DEF TypeOK, BackendState
  <2>2. lowest'.latest = Lower(lowest.latest, snapshot[be].latest)
    BY <1>5, Zenon DEF CompareLowest, TypeOK, BackendState
  <2>3. lowest'.latest \in Nat /\ lowest'.latest < UintMod
    BY <2>1, <2>2, LowerType, LowerBelow, Zenon DEF WalkInv
  <2>4. /\ gpc = "lowest" /\ proposed = NoBlock
        /\ UNCHANGED <<gpc, proposed, backendState, snapshot>>
    BY <1>5, Zenon DEF CompareLowest, WalkInv, updateVars
  <2>5. proposed.number = 0
    BY <2>4, Zenon DEF NoBlock
  <2>6. QED BY <2>3, <2>4, <2>5 DEF WalkInv, Published
<1>6. CASE Propose
  BY <1>6 DEF Propose, TypeOK, BackendState, WalkInv, updateVars, Published
<1>7. ASSUME NEW be \in Backends, AskFails(be) PROVE WalkInv'
  BY <1>7, Zenon DEF AskFails, WalkInv, updateVars, Published
<1>8. ASSUME NEW be \in Backends, NEW answer \in Answers(proposed.number),
             Ask(be, answer)
      PROVE  WalkInv'
  BY <1>8, AskWalkInv, Zenon
<1>9. CASE AllAgreed
  BY <1>9, Zenon DEF AllAgreed, WalkInv, updateVars, Published
<1>10. CASE SetLatest
  BY <1>10, Zenon DEF SetLatest, TypeOK, WalkInv, updateVars, Published
<1>11. CASE SetSafe
  BY <1>11, Zenon DEF SetSafe, TypeOK, WalkInv, updateVars, Published
<1>12. CASE SetFinalized
  BY <1>12, Zenon DEF SetFinalized, TypeOK, WalkInv, updateVars, Published
<1>13. CASE SetGroup
  <2>1. UintMod > 0
    BY ConfigAssumption
  <2>2. ZeroState.latest = 0 /\ NoBlock.number = 0
    BY Zenon DEF ZeroState, NoBlock
  <2>3. QED BY <1>13, <2>1, <2>2 DEF SetGroup, WalkInv, updateVars, Published
<1>14. QED
  BY <1>1, <1>2, <1>3, <1>4, <1>5, <1>6, <1>7, <1>8, <1>9, <1>10, <1>11, <1>12,
     <1>13, Zenon DEF UpdateBackendGroupConsensus

\* Every step keeps the invariant about the walk.
LEMMA StepWalkInv == TypeOK /\ WalkInv /\ [Next]_vars => WalkInv'
<1> SUFFICES ASSUME TypeOK, WalkInv, [Next]_vars PROVE WalkInv'
  BY Zenon
<1>1. ASSUME UNCHANGED <<backendState, roundVars, tracker>> PROVE WalkInv'
  BY <1>1, Zenon DEF WalkInv, roundVars, Published
<1>2. ASSUME NEW be \in Backends, UpdateBackend(be) PROVE WalkInv'
  BY <1>2, UpdateWalkInv, Zenon
<1>3. CASE UpdateBackendGroupConsensus
  BY <1>3, GroupWalkInv, Zenon
<1>4. CASE Tick
  BY <1>1, <1>4, Zenon DEF Tick
<1>5. ASSUME NEW be \in Backends, HealthChanges(be) PROVE WalkInv'
  BY <1>1, <1>5, Zenon DEF HealthChanges, updateVars
<1>6. CASE UNCHANGED vars
  BY <1>1, <1>6, Zenon DEF vars, updateVars
<1>7. QED BY <1>2, <1>3, <1>4, <1>5, <1>6, Zenon DEF Next

\* proposedBlock stays between 0 and the head it started from, although the
\* code decrements an unsigned number without a lower bound.
THEOREM WalkBackBounded == Spec => []WalkBackNeverWraps
<1>1. WalkInv => WalkBackNeverWraps
  BY Zenon DEF WalkInv, WalkBackNeverWraps
<1>2. QED BY <1>1, InitWalkInv, StepWalkInv, TypeCorrect, PTL DEF Spec

\* Every published regression of latest that the heads do not explain has set
\* the flag on which the listeners are told that consensus was broken.
THEOREM RegressionSignalled == Spec => []RegressionIsSignalled
<1>1. TypeOK /\ WalkInv => RegressionIsSignalled
  BY DEF TypeOK, BackendState, WalkInv, RegressionIsSignalled, Published
<1>2. QED BY <1>1, InitWalkInv, StepWalkInv, TypeCorrect, PTL DEF Spec

-----------------------------------------------------------------------------
(* The published tags are the lowest of the group.  The code uses 0 for    *)
(* "no minimum yet"; that is sound because a backend records either three  *)
(* positive numbers or none, and one that recorded none is dropped as      *)
(* lagging whenever another recorded some (MatureChain).                   *)

Whole(s) ==
  \/ s.latest = 0 /\ s.safe = 0 /\ s.finalized = 0
  \/ s.latest > 0 /\ s.safe > 0 /\ s.finalized > 0 /\ s.latest > MaxBlockLag

\* lowest holds the minimum over the candidates in done.
LowestOver(done) ==
  /\ done = {} => lowest.latest = 0 /\ lowest.safe = 0 /\ lowest.finalized = 0
  /\ \A be \in done : /\ lowest.latest <= snapshot[be].latest
                      /\ lowest.safe <= snapshot[be].safe
                      /\ lowest.finalized <= snapshot[be].finalized
  /\ done # {} => /\ \E be \in done : lowest.latest = snapshot[be].latest
                  /\ \E be \in done : lowest.safe = snapshot[be].safe
                  /\ \E be \in done : lowest.finalized = snapshot[be].finalized

Choosing == {"idle", "primaries", "fallbacks"}

LowestInv ==
  /\ \A be \in Backends : Whole(backendState[be]) /\ Whole(snapshot[be])
  /\ gpc \in Choosing => lowest = ZeroState
  /\ gpc \notin Choosing =>
       \/ \A be \in candidates : snapshot[be].latest = 0
       \/ \A be \in candidates : snapshot[be].latest > 0
  /\ gpc = "lowest" => pending \subseteq candidates /\ LowestOver(candidates \ pending)
  /\ gpc \notin Choosing \cup {"lowest"} => LowestOver(candidates)
  /\ gpc \in {"setFinalized", "setGroup"} => tracker.safe = lowest.safe
  /\ gpc = "setGroup" => tracker.finalized = lowest.finalized

\* The state of a backend that was never polled has all of its numbers, zero.
LEMMA ZeroWhole == Whole(ZeroState)
  BY Zenon DEF Whole, ZeroState

\* The invariant about the lowest numbers holds before the first round.
LEMMA InitLowestInv == Init => LowestInv
  BY ZeroWhole, Zenon DEF Init, LowestInv, Choosing

\* UpdateBackend records all the numbers of a report or none of them.
LEMMA UpdateLowestInv ==
  ASSUME MatureChain, TypeOK, LowestInv, NEW be \in Backends, UpdateBackend(be)
  PROVE  LowestInv'
<1>1. ASSUME \A b \in Backends : Whole(backendState'[b]),
             UNCHANGED roundVars, UNCHANGED tracker
      PROVE  LowestInv'
  BY <1>1 DEF LowestInv, LowestOver, roundVars, Choosing
<1>2. ASSUME Ban(be) PROVE \A b \in Backends : Whole(backendState'[b])
  BY <1>2, BanEffect DEF LowestInv, Whole
<1>3. CASE BanUnhealthy(be)
  BY <1>1, <1>2, <1>3, Zenon DEF BanUnhealthy
<1>4. CASE StartPolling(be)
  BY <1>1, <1>4, Zenon DEF StartPolling, LowestInv
<1>5. CASE PollFails(be)
  BY <1>1, <1>5, Zenon DEF PollFails, LowestInv
<1>6. ASSUME NEW r \in Reports, SetBackendState(be, r) PROVE LowestInv'
  <2>1. r.latest > 0 /\ r.safe > 0 /\ r.finalized > 0 /\ r.latest > MaxBlockLag
    BY ReportsAssumption, Zenon DEF MatureChain
  <2>2. Whole(Recorded(be, r))
    BY <2>1, RecordedType, Zenon DEF Whole
  <2>3. \A b \in Backends : Whole(backendState'[b])
    BY <1>6, <2>2, Zenon DEF SetBackendState, TypeOK, LowestInv
  <2>4. QED BY <1>1, <1>6, <2>3, Zenon DEF SetBackendState
<1>7. CASE BanUnexpectedTags(be)
  BY <1>1, <1>2, <1>7, Zenon DEF BanUnexpectedTags
<1>8. QED BY <1>3, <1>4, <1>5, <1>6, <1>7, Zenon DEF UpdateBackend

\* Among candidates that do not lag, all or none have recorded a head.
LEMMA NotLaggingUniform ==
  ASSUME NEW cands, NEW state, cands \subseteq Backends,
         state \in [Backends -> BackendState],
         \A be \in Backends : Whole(state[be])
  PROVE  \/ \A be \in NotLagging(cands, state) : state[be].latest = 0
         \/ \A be \in NotLagging(cands, state) : state[be].latest > 0
<1>1. SUFFICES ASSUME NEW a \in NotLagging(cands, state), state[a].latest # 0,
                      NEW b \in NotLagging(cands, state), ~(state[b].latest > 0)
               PROVE  FALSE
  BY Zenon
<1>2. a \in Backends /\ b \in Backends /\ a \in cands /\ b \in cands
  BY <1>1, Zenon DEF NotLagging
<1>3. state[a].latest \in Nat /\ state[b].latest \in Nat
  BY <1>2, Zenon DEF BackendState
<1>4. state[a].latest > MaxBlockLag /\ state[b].latest = 0
  BY <1>1, <1>2, <1>3, Zenon DEF Whole
<1>5. state[a].latest - state[b].latest <= MaxBlockLag
  BY <1>1, <1>2, Zenon DEF NotLagging
<1>6. QED BY <1>3, <1>4, <1>5, ConfigAssumption

\* One more candidate is compared: the lowest are those over one more.
LEMMA CompareLowestInv ==
  ASSUME TypeOK, LowestInv, NEW be \in Backends, CompareLowest(be)
  PROVE  LowestInv'
<1> DEFINE s == snapshot[be]
           done == candidates \ pending
<1>1. /\ gpc = "lowest" /\ be \in pending /\ pending' = pending \ {be}
      /\ be \in candidates /\ pending \subseteq candidates
      /\ LowestOver(done)
  BY Zenon DEF CompareLowest, LowestInv
<1>2. /\ s.latest \in Nat /\ s.safe \in Nat /\ s.finalized \in Nat
      /\ lowest.latest \in Nat /\ lowest.safe \in Nat /\ lowest.finalized \in Nat
  BY Zenon DEF TypeOK, BackendState
<1>3. /\ lowest'.latest = Lower(lowest.latest, s.latest)
      /\ lowest'.safe = Lower(lowest.safe, s.safe)
      /\ lowest'.finalized = Lower(lowest.finalized, s.finalized)
  BY Zenon DEF CompareLowest, TypeOK, BackendState
<1>4. UNCHANGED <<gpc, candidates, snapshot, backendState, tracker>>
  BY Zenon DEF CompareLowest, updateVars
<1>5. candidates' \ pending' = done \cup {be}
  BY <1>1, <1>4, Zenon
<1>6. \A b \in done : /\ snapshot[b].latest \in Nat /\ snapshot[b].safe \in Nat
                       /\ snapshot[b].finalized \in Nat
                       /\ Whole(snapshot[b])
  BY Zenon DEF TypeOK, BackendState, LowestInv
<1>7. Whole(s)
  BY Zenon DEF LowestInv
<1>8. \/ \A b \in candidates : snapshot[b].latest = 0
      \/ \A b \in candidates : snapshot[b].latest > 0
  BY <1>1, Zenon DEF LowestInv, Choosing
<1>9. ASSUME done # {}
      PROVE  /\ lowest.latest # 0 \/ s.latest = 0
             /\ lowest.safe # 0 \/ s.safe = 0
             /\ lowest.finalized # 0 \/ s.finalized = 0
  BY <1>1, <1>2, <1>6, <1>7, <1>8, <1>9 DEF LowestOver, Whole
<1>10. (LowestOver(candidates \ pending))'
  <2>0. /\ lowest'.latest \in Nat /\ lowest'.safe \in Nat /\ lowest'.finalized \in Nat
        /\ lowest'.latest <= s.latest /\ lowest'.safe <= s.safe
        /\ lowest'.finalized <= s.finalized
        /\ lowest'.latest = s.latest \/ lowest'.latest = lowest.latest
        /\ lowest'.safe = s.safe \/ lowest'.safe = lowest.safe
        /\ lowest'.finalized = s.finalized \/ lowest'.finalized = lowest.finalized
        /\ lowest.latest = 0 => lowest'.latest = s.latest
        /\ lowest.safe = 0 => lowest'.safe = s.safe
        /\ lowest.finalized = 0 => lowest'.finalized = s.finalized
        /\ lowest.latest # 0 \/ s.latest = 0 => lowest'.latest <= lowest.latest
        /\ lowest.safe # 0 \/ s.safe = 0 => lowest'.safe <= lowest.safe
        /\ lowest.finalized # 0 \/ s.finalized = 0 => lowest'.finalized <= lowest.finalized
    <3>1. /\ lowest'.latest \in Nat /\ lowest'.latest <= s.latest
          /\ lowest'.latest = s.latest \/ lowest'.latest = lowest.latest
          /\ lowest.latest = 0 => lowest'.latest = s.latest
          /\ lowest.latest # 0 \/ s.latest = 0 => lowest'.latest <= lowest.latest
      BY <1>2, <1>3 DEF Lower
    <3>2. /\ lowest'.safe \in Nat /\ lowest'.safe <= s.safe
          /\ lowest'.safe = s.safe \/ lowest'.safe = lowest.safe
          /\ lowest.safe = 0 => lowest'.safe = s.safe
          /\ lowest.safe # 0 \/ s.safe = 0 => lowest'.safe <= lowest.safe
      BY <1>2, <1>3 DEF Lower
    <3>3. /\ lowest'.finalized \in Nat /\ lowest'.finalized <= s.finalized
          /\ lowest'.finalized = s.finalized \/ lowest'.finalized = lowest.finalized
          /\ lowest.finalized = 0 => lowest'.finalized = s.finalized
          /\ lowest.finalized # 0 \/ s.finalized = 0 => lowest'.finalized <= lowest.finalized
      BY <1>2, <1>3 DEF Lower
    <3>4. QED BY <3>1, <3>2, <3>3, Zenon
  <2>1. \A b \in done \cup {be} : /\ lowest'.latest <= snapshot[b].latest
                                  /\ lowest'.safe <= snapshot[b].safe
                                  /\ lowest'.finalized <= snapshot[b].finalized
    <3>1. CASE done = {}
      BY <2>0, <3>1, Zenon
    <3>2. CASE done # {}
      <4>1. /\ lowest'.latest <= lowest.latest /\ lowest'.safe <= lowest.safe
            /\ lowest'.finalized <= lowest.finalized
        BY <1>9, <2>0, <3>2, Zenon
      <4>2. \A b \in done : /\ lowest'.latest <= snapshot[b].latest
                            /\ lowest'.safe <= snapshot[b].safe
                            /\ lowest'.finalized <= snapshot[b].finalized
        BY <1>1, <1>2, <1>6, <2>0, <4>1 DEF LowestOver
      <4>3. QED BY <2>0, <4>2, Zenon
    <3>3. QED BY <3>1, <3>2, Zenon
  <2>2. \E b \in done \cup {be} : lowest'.latest = snapshot[b].latest
    BY <1>1, <2>0, Zenon DEF LowestOver
  <2>3. \E b \in done \cup {be} : lowest'.safe = snapshot[b].safe
    BY <1>1, <2>0, Zenon DEF LowestOver
  <2>4. \E b \in done \cup {be} : lowest'.finalized = snapshot[b].finalized
    BY <1>1, <2>0, Zenon DEF LowestOver
  <2>5. QED BY <1>4, <1>5, <2>1, <2>2, <2>3, <2>4, Zenon DEF LowestOver
<1>11. QED BY <1>1, <1>4, <1>10, Zenon DEF LowestInv, Choosing

\* UpdateBackendGroupConsensus keeps the invariant about the lowest numbers.
LEMMA GroupLowestInv ==
  ASSUME TypeOK, LowestInv, UpdateBackendGroupConsensus
  PROVE  LowestInv'
<1>1. CASE BeginRound
  BY <1>1, Zenon DEF BeginRound, LowestInv, updateVars, Choosing
<1>2. ASSUME NEW be \in Backends, Inspect(be) PROVE LowestInv'
  <2>1. gpc \in {"primaries", "fallbacks"} /\ UNCHANGED <<gpc, lowest, backendState, tracker>>
    BY <1>2, Zenon DEF Inspect, updateVars
  <2>2. \A b \in Backends : Whole(snapshot'[b])
    BY <1>2, Zenon DEF Inspect, TypeOK, LowestInv
  <2>3. QED BY <2>1, <2>2, Zenon DEF LowestInv, Choosing
<1>3. CASE TurnToFallbacks
  BY <1>3, Zenon DEF TurnToFallbacks, LowestInv, updateVars, Choosing
<1>4. CASE DropLagging
  <2>1. /\ gpc \in Choosing /\ gpc' = "lowest" /\ pending' = candidates'
        /\ candidates' = NotLagging(candidates, snapshot)
        /\ UNCHANGED <<snapshot, lowest, backendState, tracker>>
    BY <1>4, Zenon DEF DropLagging, updateVars, Choosing
  <2>2. \/ \A be \in candidates' : snapshot[be].latest = 0
        \/ \A be \in candidates' : snapshot[be].latest > 0
    BY <2>1, NotLaggingUniform, Zenon DEF TypeOK, LowestInv
  <2>3. lowest = ZeroState
    BY <2>1, Zenon DEF LowestInv
  <2>4. (LowestOver(candidates \ pending))'
    BY <2>1, <2>3, Zenon DEF LowestOver, ZeroState
  <2>5. QED BY <2>1, <2>2, <2>4, Zenon DEF LowestInv, Choosing
<1>5. ASSUME NEW be \in Backends, CompareLowest(be) PROVE LowestInv'
  BY <1>5, CompareLowestInv, Zenon
<1>6. CASE Propose
  <2>1. /\ gpc = "lowest" /\ pending = {} /\ gpc' \in {"agree", "setLatest"}
        /\ UNCHANGED <<candidates, snapshot, lowest, backendState, tracker>>
    BY <1>6, Zenon DEF Propose, updateVars
  <2>2. candidates \ pending = candidates
    BY <2>1, Zenon
  <2>3. LowestOver(candidates)'
    BY <2>1, <2>2, Zenon DEF LowestInv, LowestOver
  <2>4. QED BY <2>1, <2>3, Zenon DEF LowestInv, Choosing
<1>7. ASSUME NEW be \in Backends, AskFails(be) PROVE LowestInv'
  BY <1>7, Zenon DEF AskFails, LowestInv, LowestOver, updateVars, Choosing
<1>8. ASSUME NEW be \in Backends, NEW answer \in Answers(proposed.number),
             Ask(be, answer)
      PROVE  LowestInv'
  <2>1. /\ gpc = "agree"
        /\ UNCHANGED <<gpc, candidates, snapshot, lowest, backendState, tracker>>
    BY <1>8, Zenon DEF Ask, updateVars
  <2>2. QED BY <2>1, Zenon DEF LowestInv, LowestOver, Choosing
<1>9. CASE AllAgreed
  BY <1>9 DEF AllAgreed, LowestInv, LowestOver, updateVars, Choosing
<1>10. CASE SetLatest
  BY <1>10, Zenon DEF SetLatest, TypeOK, LowestInv, LowestOver, updateVars, Choosing
<1>11. CASE SetSafe
  BY <1>11, Zenon DEF SetSafe, TypeOK, LowestInv, LowestOver, updateVars, Choosing
<1>12. CASE SetFinalized
  BY <1>12, Zenon DEF SetFinalized, TypeOK, LowestInv, LowestOver, updateVars, Choosing
<1>13. CASE SetGroup
  BY <1>13, ZeroWhole, Zenon DEF SetGroup, LowestInv, updateVars, Choosing
<1>14. QED
  BY <1>1, <1>2, <1>3, <1>4, <1>5, <1>6, <1>7, <1>8, <1>9, <1>10, <1>11, <1>12,
     <1>13, Zenon DEF UpdateBackendGroupConsensus

\* Every step keeps the invariant about the lowest numbers.
LEMMA StepLowestInv ==
  ASSUME MatureChain
  PROVE  TypeOK /\ LowestInv /\ [Next]_vars => LowestInv'
<1> SUFFICES ASSUME TypeOK, LowestInv, [Next]_vars PROVE LowestInv'
  BY Zenon
<1>1. ASSUME UNCHANGED <<backendState, roundVars, tracker>> PROVE LowestInv'
  BY <1>1 DEF LowestInv, LowestOver, roundVars, Choosing
<1>2. ASSUME NEW be \in Backends, UpdateBackend(be) PROVE LowestInv'
  BY <1>2, UpdateLowestInv, Zenon
<1>3. CASE UpdateBackendGroupConsensus
  BY <1>3, GroupLowestInv, Zenon
<1>4. CASE Tick
  BY <1>1, <1>4, Zenon DEF Tick
<1>5. ASSUME NEW be \in Backends, HealthChanges(be) PROVE LowestInv'
  BY <1>1, <1>5, Zenon DEF HealthChanges, updateVars
<1>6. CASE UNCHANGED vars
  BY <1>1, <1>6, Zenon DEF vars, updateVars
<1>7. QED BY <1>2, <1>3, <1>4, <1>5, <1>6, Zenon DEF Next

\* Past genesis, every group UpdateBackendGroupConsensus installs comes with
\* the lowest safe and finalized of its members and a latest all have passed.
THEOREM TagsLowest ==
  ASSUME MatureChain
  PROVE  Spec => []PublishedTagsLowest
<1>1. TypeOK /\ WalkInv /\ LowestInv => PublishedTagsLowest
  <2> SUFFICES ASSUME TypeOK, WalkInv, LowestInv, gpc = "setGroup", candidates # {}
               PROVE  /\ \A be \in candidates : tracker.latest <= snapshot[be].latest
                      /\ IsLowest(tracker.safe, {snapshot[be].safe : be \in candidates})
                      /\ IsLowest(tracker.finalized,
                                  {snapshot[be].finalized : be \in candidates})
    BY Zenon DEF PublishedTagsLowest
  <2>1. /\ tracker.latest = proposed.number /\ proposed.number <= lowest.latest
        /\ tracker.safe = lowest.safe /\ tracker.finalized = lowest.finalized
        /\ LowestOver(candidates)
    BY Zenon DEF WalkInv, LowestInv, Published, Choosing
  <2>2. \A be \in candidates : tracker.latest <= snapshot[be].latest
    <3> SUFFICES ASSUME NEW be \in candidates PROVE tracker.latest <= snapshot[be].latest
      BY Zenon
    <3>1. /\ snapshot[be].latest \in Nat /\ lowest.latest \in Nat
          /\ proposed.number \in Nat
      BY Zenon DEF TypeOK, BackendState
    <3>2. lowest.latest <= snapshot[be].latest
      BY <2>1, Zenon DEF LowestOver
    <3>3. QED BY <2>1, <3>1, <3>2
  <2>3. QED BY <2>1, <2>2, Zenon DEF LowestOver, IsLowest
<1>2. QED BY <1>1, MatureChain, InitLowestInv, StepLowestInv, InitWalkInv, StepWalkInv,
             TypeCorrect, PTL DEF Spec

-----------------------------------------------------------------------------
(***************************************************************************)
(* The consensus poller implements ConsensusView, for any number of        *)
(* backends and any reports of a chain that is past its first blocks.      *)
(***************************************************************************)

(* What is recorded and copied of a backend are tags it reported. *)

TagsInv ==
  \A be \in Backends : /\ TagsOf(backendState[be]) \in PollerTags
                       /\ TagsOf(snapshot[be]) \in PollerTags

\* The numbers of a backend that was never polled are numbers of the view.
LEMMA ZeroTagsReported == TagsOf(ZeroState) \in PollerTags
  BY Zenon DEF TagsOf, ZeroState, ZeroTracker, PollerTags

\* What is recorded before the first poll are numbers of the view.
LEMMA InitTagsInv == Init => TagsInv
  BY ZeroTagsReported, Zenon DEF Init, TagsInv

\* UpdateBackend records numbers of the view.
LEMMA UpdateTagsInv ==
  ASSUME TypeOK, TagsInv, NEW be \in Backends, UpdateBackend(be)
  PROVE  TagsInv'
<1>1. CASE BanUnhealthy(be) \/ BanUnexpectedTags(be)
  <2>1. Ban(be) /\ UNCHANGED snapshot
    BY <1>1, Zenon DEF BanUnhealthy, BanUnexpectedTags, roundVars
  <2>2. TagsOf(backendState'[be]) = ZeroTracker
    BY <2>1, Zenon DEF Ban, TypeOK, BackendState, TagsOf, ZeroTracker
  <2>3. \A b \in Backends \ {be} : backendState'[b] = backendState[b]
    BY <2>1, Zenon DEF Ban, TypeOK
  <2> QED BY <2>1, <2>2, <2>3, Zenon DEF TagsInv, PollerTags
<1>2. CASE StartPolling(be) \/ PollFails(be)
  BY <1>2, Zenon DEF StartPolling, PollFails, roundVars, TagsInv
<1>3. ASSUME NEW r \in Reports, SetBackendState(be, r) PROVE TagsInv'
  <2>1. TagsOf(Recorded(be, r)) = TagsOf(r)
    BY ReportsAssumption, Zenon DEF Recorded, TagsOf, BackendState
  <2>2. backendState' = [backendState EXCEPT ![be] = Recorded(be, r)] /\ UNCHANGED snapshot
    BY <1>3, Zenon DEF SetBackendState, roundVars
  <2> QED BY <2>1, <2>2 DEF TagsInv, PollerTags, TypeOK
<1> QED BY <1>1, <1>2, <1>3, Zenon DEF UpdateBackend

\* UpdateBackendGroupConsensus records and copies numbers of the view.
LEMMA GroupTagsInv ==
  ASSUME TypeOK, TagsInv, UpdateBackendGroupConsensus
  PROVE  TagsInv'
<1>1. ASSUME NEW be \in Backends, Inspect(be) PROVE TagsInv'
  BY <1>1 DEF Inspect, TagsInv, TypeOK, updateVars
<1>2. CASE SetGroup
  BY <1>2, ZeroTagsReported, Zenon DEF SetGroup, TagsInv, updateVars
<1>3. CASE UNCHANGED <<backendState, snapshot>>
  BY <1>3, Zenon DEF TagsInv
<1>4. CASE \/ BeginRound \/ TurnToFallbacks \/ DropLagging \/ Propose \/ AllAgreed
           \/ SetLatest \/ SetSafe \/ SetFinalized
  BY <1>3, <1>4, Zenon DEF BeginRound, TurnToFallbacks, DropLagging, Propose, AllAgreed,
                    SetLatest, SetSafe, SetFinalized, updateVars
<1>5. ASSUME NEW be \in Backends,
             \/ CompareLowest(be) \/ AskFails(be)
             \/ \E answer \in Answers(proposed.number) : Ask(be, answer)
      PROVE  TagsInv'
  BY <1>3, <1>5, Zenon DEF CompareLowest, AskFails, Ask, updateVars
<1> QED BY <1>1, <1>2, <1>4, <1>5, Zenon DEF UpdateBackendGroupConsensus

\* Every step keeps what is recorded among the numbers of the view.
LEMMA StepTagsInv == TypeOK /\ TagsInv /\ [Next]_vars => TagsInv'
<1> SUFFICES ASSUME TypeOK, TagsInv, [Next]_vars PROVE TagsInv'
  BY Zenon
<1>1. CASE Tick \/ (\E be \in Backends : HealthChanges(be)) \/ UNCHANGED vars
  BY <1>1, Zenon DEF Tick, HealthChanges, vars, updateVars, roundVars, TagsInv
<1> QED BY <1>1, UpdateTagsInv, GroupTagsInv, Zenon DEF Next

-----------------------------------------------------------------------------
(* Steps that readers do not see. *)

Publishing == {"setLatest", "setSafe", "setFinalized", "setGroup"}

\* A step that publishes nothing is not seen in the view.
LEMMA HiddenStep ==
  ASSUME UNCHANGED <<tracker, consensusGroup>>,
         \/ UNCHANGED <<gpc, candidates, snapshot, proposed>>
         \/ gpc \notin Publishing /\ gpc' \notin Publishing
  PROVE  UNCHANGED View!viewVars
  BY Zenon DEF View!viewVars, PollerRound, Publishing

\* Polling a backend is not seen in the view.
LEMMA UpdateHidden ==
  ASSUME \/ \E be \in Backends : UpdateBackend(be)
         \/ Tick
         \/ \E be \in Backends : HealthChanges(be)
  PROVE  UNCHANGED View!viewVars
<1>1. UNCHANGED <<tracker, consensusGroup, gpc, candidates, snapshot, proposed>>
  BY Zenon DEF UpdateBackend, BanUnhealthy, StartPolling, PollFails, SetBackendState,
         BanUnexpectedTags, Tick, HealthChanges, roundVars
<1> QED BY <1>1, HiddenStep, Zenon

\* The steps of a round before it publishes are not seen in the view.
LEMMA ResolvingHidden ==
  ASSUME \/ BeginRound \/ TurnToFallbacks \/ DropLagging
         \/ \E be \in Backends : \/ Inspect(be) \/ CompareLowest(be) \/ AskFails(be)
                                 \/ \E answer \in Answers(proposed.number) : Ask(be, answer)
  PROVE  UNCHANGED View!viewVars
<1>1. UNCHANGED <<tracker, consensusGroup>>
  BY Zenon DEF BeginRound, TurnToFallbacks, DropLagging, Inspect, CompareLowest, AskFails, Ask
<1>2. gpc \notin Publishing /\ gpc' \notin Publishing
  BY Zenon DEF BeginRound, TurnToFallbacks, DropLagging, Inspect, CompareLowest, AskFails, Ask,
         Publishing
<1> QED BY <1>1, <1>2, HiddenStep, Zenon

-----------------------------------------------------------------------------
(* Steps that readers see. *)

RoundMembers == [be \in Backends |->
                   IF be \in candidates THEN TagsOf(snapshot[be]) ELSE ZeroTracker]

\* The members of a round have numbers of the view.
LEMMA MembersType ==
  ASSUME TypeOK, TagsInv PROVE RoundMembers \in [Backends -> PollerTags]
  BY Zenon DEF RoundMembers, TagsInv, PollerTags

\* The numbers of a member are numbers of the view.
LEMMA ReportedNumbers ==
  ASSUME TypeOK, TagsInv, NEW be \in Backends
  PROVE  /\ snapshot[be].latest \in View!NumbersOf
         /\ snapshot[be].safe \in View!NumbersOf
         /\ snapshot[be].finalized \in View!NumbersOf
<1> DEFINE t == TagsOf(snapshot[be])
<1>1. t \in PollerTags /\ {t.latest, t.safe, t.finalized} \subseteq View!NumbersOf
  BY Zenon DEF TagsInv, View!NumbersOf
<1>2. t.latest = snapshot[be].latest /\ t.safe = snapshot[be].safe
        /\ t.finalized = snapshot[be].finalized
  BY Zenon DEF TagsOf
<1> QED BY <1>1, <1>2, Zenon

\* The lowest numbers are numbers of the view.
LEMMA LowestNumbers ==
  ASSUME TypeOK, TagsInv, LowestOver(candidates)
  PROVE  /\ lowest.latest \in View!NumbersOf
         /\ lowest.safe \in View!NumbersOf
         /\ lowest.finalized \in View!NumbersOf
<1>1. CASE candidates = {}
  BY <1>1, Zenon DEF LowestOver, View!NumbersOf
<1>2. CASE candidates # {}
  BY <1>2, ReportedNumbers, Zenon DEF LowestOver, TypeOK
<1> QED BY <1>1, <1>2, Zenon

\* The round is resolved.
LEMMA ResolveStep ==
  ASSUME TypeOK, TypeOK', TagsInv, LowestOver(candidates),
         gpc \notin Publishing, gpc' = "setLatest",
         proposed'.number <= lowest.latest,
         UNCHANGED <<tracker, consensusGroup, candidates, snapshot>>
  PROVE  View!ViewNext
<1> DEFINE n == proposed'.number
<1>1. n \in Nat /\ lowest.latest \in Nat
  BY Zenon DEF TypeOK, BackendState
<1>2. n \in View!Below(View!NumbersOf)
  <2>1. n \in 0..lowest.latest
    BY <1>1
  <2> QED BY <2>1, LowestNumbers, Zenon DEF View!Below
<1>3. View!Resolve(candidates, RoundMembers, n)
  <2>1. PollerRound.phase = "resolving"
    BY Zenon DEF PollerRound, Publishing
  <2>2. \A be \in candidates : n <= RoundMembers[be].latest
    <3> SUFFICES ASSUME NEW be \in candidates PROVE n <= snapshot[be].latest
      BY Zenon DEF RoundMembers, TagsOf, TypeOK
    <3>1. be \in Backends /\ snapshot[be].latest \in Nat /\ lowest.latest <= snapshot[be].latest
      BY Zenon DEF TypeOK, BackendState, LowestOver
    <3> QED BY <1>1, <3>1
  <2>3. candidates = {} => n = 0
    BY <1>1 DEF LowestOver
  <2>4. \A be \in Backends \ candidates : RoundMembers[be] = View!ZeroTags
    BY Zenon DEF RoundMembers, View!ZeroTags, ZeroTracker
  <2>5. PollerRound' = [phase |-> "setLatest", group |-> candidates, latest |-> n,
                        members |-> RoundMembers]
    BY Zenon DEF PollerRound, RoundMembers
  <2> QED BY <2>1, <2>2, <2>3, <2>4, <2>5, Zenon DEF View!Resolve
<1>4. candidates \in SUBSET Backends
  BY Zenon DEF TypeOK
<1> QED BY <1>2, <1>3, <1>4, MembersType, Zenon DEF View!ViewNext

\* A lowest number of the poller is a lowest one of the view.
LEMMA LowestOfMembers ==
  ASSUME TypeOK, LowestOver(candidates)
  PROVE  /\ View!Lowest(lowest.safe, {RoundMembers[be].safe : be \in candidates})
         /\ View!Lowest(lowest.finalized, {RoundMembers[be].finalized : be \in candidates})
<1>1. \A be \in candidates : /\ RoundMembers[be].safe = snapshot[be].safe
                             /\ RoundMembers[be].finalized = snapshot[be].finalized
  BY Zenon DEF RoundMembers, TagsOf, TypeOK
<1>2. CASE candidates = {}
  BY <1>2, Zenon DEF LowestOver, View!Lowest
<1>3. CASE candidates # {}
  BY <1>1, <1>3 DEF LowestOver, View!Lowest
<1> QED BY <1>2, <1>3, Zenon

\* Each of the four assignments that publish a round is a step of the view.
LEMMA PublishStep ==
  ASSUME TypeOK, TypeOK', TagsInv, LowestOver(candidates),
         SetLatest \/ SetSafe \/ SetFinalized \/ SetGroup
  PROVE  View!ViewNext
<1>1. PollerRound = [phase |-> gpc, group |-> candidates, latest |-> proposed.number,
                     members |-> RoundMembers]
  BY Zenon DEF SetLatest, SetSafe, SetFinalized, SetGroup, PollerRound, RoundMembers
<1>2. ASSUME UNCHANGED <<candidates, snapshot, proposed>>, gpc' \in Publishing
      PROVE  PollerRound' = [PollerRound EXCEPT !.phase = gpc']
  BY <1>1, <1>2 DEF PollerRound, RoundMembers, Publishing
<1>3. CASE SetLatest
  <2>1. View!PublishLatest
    BY <1>1, <1>2, <1>3, Zenon DEF SetLatest, View!PublishLatest, Publishing
  <2> QED BY <2>1, Zenon DEF View!ViewNext
<1>4. CASE SetSafe
  <2>1. View!PublishSafe(lowest.safe)
    BY <1>1, <1>2, <1>4, LowestOfMembers DEF SetSafe, View!PublishSafe, Publishing
  <2> QED BY <2>1, LowestNumbers, Zenon DEF View!ViewNext
<1>5. CASE SetFinalized
  <2>1. View!PublishFinalized(lowest.finalized)
    BY <1>1, <1>2, <1>5, LowestOfMembers DEF SetFinalized, View!PublishFinalized, Publishing
  <2> QED BY <2>1, LowestNumbers, Zenon DEF View!ViewNext
<1>6. CASE SetGroup
  <2>1. PollerRound' = View!NoRound
    BY <1>6, Zenon DEF SetGroup, PollerRound, View!NoRound, View!ZeroTags, ZeroTracker
  <2>2. View!PublishGroup
    BY <1>1, <1>6, <2>1, Zenon DEF SetGroup, View!PublishGroup
  <2> QED BY <2>2, Zenon DEF View!ViewNext
<1> QED BY <1>3, <1>4, <1>5, <1>6, Zenon

\* Every step is a step of the view or not seen in it.
LEMMA ViewStep ==
  ASSUME TypeOK, TypeOK', WalkInv, LowestInv, TagsInv, Next
  PROVE  UNCHANGED View!viewVars \/ View!ViewNext
<1>1. CASE SetLatest \/ SetSafe \/ SetFinalized \/ SetGroup
  <2>1. LowestOver(candidates)
    BY <1>1, Zenon DEF SetLatest, SetSafe, SetFinalized, SetGroup, LowestInv, Choosing
  <2> QED BY <1>1, <2>1, PublishStep, Zenon
<1>2. CASE AllAgreed
  <2>1. LowestOver(candidates)
    BY <1>2, Zenon DEF AllAgreed, LowestInv, Choosing
  <2>2. proposed'.number <= lowest.latest
    BY <1>2, Zenon DEF AllAgreed, WalkInv
  <2> QED BY <1>2, <2>1, <2>2, ResolveStep, Zenon DEF AllAgreed, Publishing
<1>3. CASE Propose
  <2>1. UNCHANGED <<tracker, consensusGroup, candidates, snapshot>> /\ gpc = "lowest"
    BY <1>3, Zenon DEF Propose
  <2>2. CASE lowest.latest > 0
    <3>1. gpc' = "agree"
      BY <1>3, <2>2, Zenon DEF Propose
    <3> QED BY <2>1, <3>1, HiddenStep, Zenon DEF Publishing
  <2>3. CASE ~(lowest.latest > 0)
    <3>1. gpc' = "setLatest" /\ proposed'.number = lowest.latest
      BY <1>3, <2>3, Zenon DEF Propose
    <3>2. LowestOver(candidates)
      BY <1>3, Zenon DEF Propose, LowestInv
    <3>3. lowest.latest <= lowest.latest
      BY DEF TypeOK, BackendState
    <3> QED BY <2>1, <3>1, <3>2, <3>3, ResolveStep, Zenon DEF Publishing
  <2> QED BY <2>2, <2>3, Zenon
<1> QED BY <1>1, <1>2, <1>3, UpdateHidden, ResolvingHidden, Zenon
        DEF Next, UpdateBackendGroupConsensus

\* Readers of the poller see the rounds of ConsensusView and nothing else, if
\* every backend is past the first MaxBlockLag blocks.
THEOREM PollerImplementsView ==
  ASSUME MatureChain
  PROVE  Spec => ImplementsView
<1>1. Init => View!ViewInit
  BY Zenon DEF Init, View!ViewInit, View!ZeroTags, View!NoRound, PollerRound, ZeroTracker
<1>2. TypeOK /\ TypeOK' /\ WalkInv /\ LowestInv /\ TagsInv /\ [Next]_vars
        => [UNCHANGED View!viewVars \/ View!ViewNext]_vars
  BY ViewStep, Zenon
<1>3. Spec => [](TypeOK /\ WalkInv /\ LowestInv /\ TagsInv)
  BY InitTypeOK, StepTypeOK, InitWalkInv, StepWalkInv, InitLowestInv, StepLowestInv,
     InitTagsInv, StepTagsInv, MatureChain, PTL DEF Spec
<1> QED BY <1>1, <1>2, <1>3, PTL DEF Spec, ImplementsView

-----------------------------------------------------------------------------
(***************************************************************************)
(* ConsensusChain: the poller over chains is the poller, and the group     *)
(* agrees.  A proposal that survived a comparison had that hash at every   *)
(* candidate compared; this stays true to the end of the round as long as  *)
(* no chain changes, which stable says.                                    *)
(***************************************************************************)

\* What HashAt can be: block 0 is the same everywhere.
LEMMA HashType ==
  ASSUME chain \in [Backends -> Chain], NEW be \in Backends, NEW n \in Nat
  PROVE /\ n <= chain[be].head => HashAt(be, n) \in 0..MaxHead
        /\ HashAt(be, 0) = 0
        /\ chain[be].head \in MinHead..MaxHead /\ chain[be].head \in Nat
<1>1. /\ chain[be].head \in MinHead..MaxHead /\ chain[be].fork \in 1..(MaxHead + 1)
  BY Zenon DEF Chain
<1>2. MinHead \in Nat /\ MaxHead \in Nat
  BY ChainAssumption, Zenon
<1> QED
  BY <1>1, <1>2 DEF HashAt

\* What a poll finds is a report.
LEMMA PollIsReport ==
  ASSUME chain \in [Backends -> Chain], NEW be \in Backends
  PROVE PollOf(be) \in Reports /\ PollOf(be).latest = chain[be].head
<1>1. chain[be].head \in MinHead..MaxHead /\ HashAt(be, chain[be].head) \in 0..MaxHead
  <2>1. chain[be].head \in Nat
    BY HashType, Zenon
  <2> QED
    BY <2>1, HashType
<1> DEFINE final == IF chain[be].ok THEN 1 ELSE 2
<1>2. final \in {1, 2}
  BY Zenon
<1> HIDE DEF final
<1> DEFINE poll == [latest |-> chain[be].head, hash |-> HashAt(be, chain[be].head), safe |-> 1,
                    finalized |-> final, peerCount |-> MinPeerCount, inSync |-> TRUE]
<1>3. poll \in [latest : MinHead..MaxHead, hash : 0..MaxHead, safe : {1}, finalized : {1, 2},
                 peerCount : {MinPeerCount}, inSync : {TRUE}]
  BY <1>1, <1>2, Zenon
<1>4. PollOf(be) = poll
  BY Zenon DEF PollOf, final
<1>5. poll.latest = chain[be].head
  BY Zenon
<1> HIDE DEF poll
<1>6. poll \in Reports
  BY <1>3, ChainAssumption, Zenon
<1> QED
  BY <1>4, <1>5, <1>6, Zenon

\* What a backend answers of its chain is an answer that the poller expects.
LEMMA QueryAnswered ==
  ASSUME TypeOK, chain \in [Backends -> Chain], NEW be \in Backends, proposed.number <= chain[be].head
  PROVE [number |-> proposed.number, hash |-> HashAt(be, proposed.number)] \in Answers(proposed.number)
<1>1. proposed.number \in Nat
  BY Zenon DEF TypeOK
<1>2. HashAt(be, proposed.number) \in Hashes
  BY <1>1, HashType, ChainAssumption, Zenon
<1>3. proposed.number = 0 => HashAt(be, proposed.number) = Genesis
  BY HashType, ChainAssumption, Zenon
<1> QED
  BY <1>2, <1>3, Zenon DEF Answers

\* The chains.
LEMMA ChainsStay ==
  ASSUME chain \in [Backends -> Chain], [ChainNext]_allVars
  PROVE chain' \in [Backends -> Chain]
<1>1. CASE UNCHANGED chain
  BY <1>1, Zenon
<1>2. CASE \E be \in Backends, new \in Chain : Change(be, new)
  BY <1>2, Zenon DEF Change
<1>3. ASSUME NEW be \in Backends, Repair(be) PROVE chain' \in [Backends -> Chain]
  <2>1. chain' = [chain EXCEPT ![be] = [chain[be] EXCEPT !.ok = TRUE]] /\ chain[be] \in Chain
    BY <1>3, Zenon DEF Repair
  <2>2. [chain[be] EXCEPT !.ok = TRUE] \in Chain
    BY <2>1, Zenon DEF Chain
  <2> QED
    BY <2>1, <2>2, Zenon
<1>4. CASE \E be \in Backends : PollBackend(be)
  BY <1>1, <1>4, Zenon DEF PollBackend, Poll, chainVars
<1>5. CASE GroupStep
  BY <1>1, <1>5, Zenon DEF GroupStep, Query, chainVars
<1>6. CASE TimelyTick
  BY <1>1, <1>6, Zenon DEF TimelyTick, chainVars
<1> QED
  BY <1>1, <1>2, <1>3, <1>4, <1>5, <1>6, Zenon DEF ChainNext, allVars, chainVars

\* Every step is one of the poller, or leaves it alone.
LEMMA ChainStep ==
  ASSUME TypeOK, chain \in [Backends -> Chain], [ChainNext]_allVars
  PROVE [Next]_vars
<1>1. ASSUME NEW be \in Backends, PollBackend(be) PROVE Next
  BY <1>1, PollIsReport, Zenon DEF PollBackend, Poll, Next, UpdateBackend
<1>2. ASSUME NEW be \in Backends, Query(be) PROVE Next
  <2>1. proposed.number \in Nat /\ chain[be].head \in Nat
    BY HashType, Zenon DEF TypeOK
  <2>2. CASE AskFails(be)
    BY <2>2, Zenon DEF Next, UpdateBackendGroupConsensus
  <2>3. CASE /\ proposed.number <= chain[be].head
             /\ Ask(be, [number |-> proposed.number, hash |-> HashAt(be, proposed.number)])
    BY <2>3, QueryAnswered, Zenon DEF Next, UpdateBackendGroupConsensus
  <2> QED
    BY <1>2, <2>1, <2>2, <2>3 DEF Query
<1>3. CASE GroupStep
  BY <1>2, <1>3, Zenon DEF GroupStep, Next, UpdateBackendGroupConsensus
<1>4. CASE TimelyTick
  BY <1>4, Zenon DEF TimelyTick, Next
<1>5. CASE \E be \in Backends, new \in Chain : Change(be, new)
  BY <1>5, Zenon DEF Change
<1>6. CASE \E be \in Backends : Repair(be)
  BY <1>6, Zenon DEF Repair
<1>7. CASE UNCHANGED allVars
  BY <1>7, Zenon DEF allVars
<1> QED
  BY <1>1, <1>3, <1>4, <1>5, <1>6, <1>7, Zenon DEF ChainNext

ChainTypes == TypeOK /\ chain \in [Backends -> Chain]

\* The chain's poller is the poller, with its inputs fixed: what is proved of
\* ConsensusPoller holds of it.
THEOREM ChainRefinesPoller == ChainSpec => Spec
<1>1. ChainInit => Init /\ ChainTypes
  BY InitTypeOK, Zenon DEF ChainInit, ChainTypes
<1>2. ChainTypes /\ [ChainNext]_allVars => ChainTypes' /\ [Next]_vars
  BY ChainStep, ChainsStay, StepTypeOK, Zenon DEF ChainTypes
<1> QED
  BY <1>1, <1>2, PTL DEF ChainSpec, Spec

-----------------------------------------------------------------------------
AgreePublishing == {"setLatest", "setSafe", "setFinalized", "setGroup"}

\* Without reorganisations that shorten a chain no backend is behind what it
\* reported.  Those that have been asked hold the proposed block.
AgreeInv ==
  /\ \A be \in Backends : /\ backendState[be].latest <= chain[be].head
                          /\ snapshot[be].latest <= chain[be].head
  /\ gpc = "agree" => pending \subseteq candidates
  /\ gpc = "agree" /\ stable =>
       \A a \in candidates \ pending : proposed.hash # NoHash /\ HashAt(a, proposed.number) = proposed.hash
  /\ gpc \in AgreePublishing /\ stable => Agree(candidates, proposed.number)

\* What is known in every state, from the proofs about the poller.
Known == TypeOK /\ WalkInv /\ LowestInv /\ chain \in [Backends -> Chain]

\* Nothing is agreed before the first round.
LEMMA AgreeInitially == ASSUME ChainInit, Known PROVE AgreeInv
<1>1. \A be \in Backends : chain[be].head \in Nat
  BY HashType, Zenon DEF Known
<1> QED
  BY <1>1 DEF ChainInit, Init, ZeroState, AgreeInv, AgreePublishing

\* The candidates hold a block of the proposed number.
LEMMA ProposedHeld ==
  ASSUME Known, AgreeInv, gpc = "agree", NEW be \in candidates
  PROVE proposed.number \in Nat /\ proposed.number <= chain[be].head /\ chain[be].head \in Nat
<1>1. be \in Backends /\ proposed.number \in Nat /\ lowest.latest \in Nat /\ snapshot[be].latest \in Nat
  BY Zenon DEF Known, TypeOK, BackendState
<1>2. chain[be].head \in Nat
  BY <1>1, HashType, Zenon DEF Known
<1>3. proposed.number <= lowest.latest
  BY Zenon DEF Known, WalkInv
<1>4. lowest.latest <= snapshot[be].latest
  BY Zenon DEF Known, LowestInv, LowestOver, Choosing
<1>5. snapshot[be].latest <= chain[be].head
  BY <1>1, Zenon DEF AgreeInv
<1> QED
  BY <1>1, <1>2, <1>3, <1>4, <1>5

\* A chain grows or is repaired under the poller.
LEMMA ChangeAgree ==
  ASSUME Known, AgreeInv, ~Faults,
         (\E be \in Backends, new \in Chain : Change(be, new)) \/ (\E be \in Backends : Repair(be)),
         chain' \in [Backends -> Chain]
  PROVE AgreeInv'
<1>1. /\ UNCHANGED <<backendState, snapshot, gpc, pending, candidates, proposed>>
      /\ \A be \in Backends : chain[be].head \in Nat /\ chain'[be].head \in Nat
      /\ \A be \in Backends : backendState[be].latest \in Nat /\ snapshot[be].latest \in Nat
  <2>1. UNCHANGED <<backendState, snapshot, gpc, pending, candidates, proposed>>
    BY Zenon DEF Change, Repair, vars, updateVars, roundVars
  <2>2. MinHead \in Nat
    BY ChainAssumption, Zenon
  <2>3. \A be \in Backends : chain[be].head \in Nat /\ chain'[be].head \in Nat
    BY <2>2 DEF Known, Chain
  <2>4. \A be \in Backends : backendState[be].latest \in Nat /\ snapshot[be].latest \in Nat
    BY Zenon DEF Known, TypeOK, BackendState
  <2> QED
    BY <2>1, <2>3, <2>4, Zenon
<1>2. CASE \E be \in Backends, new \in Chain : Change(be, new)
  <2>1. PICK be \in Backends, new \in Chain : Change(be, new)
    BY <1>2, Zenon
  <2>2. chain' = [chain EXCEPT ![be] = new] /\ new.head >= chain[be].head /\ stable' = FALSE
    BY <2>1, Zenon DEF Change
  <2>3. \A b \in Backends : chain'[b].head >= chain[b].head
    BY <1>1, <2>2 DEF Known
  <2> QED
    BY <1>1, <2>2, <2>3 DEF AgreeInv
<1>3. CASE \E be \in Backends : Repair(be)
  <2>1. PICK be \in Backends : Repair(be)
    BY <1>3, Zenon
  <2>2. /\ chain' = [chain EXCEPT ![be] = [chain[be] EXCEPT !.ok = TRUE]] /\ chain[be] \in Chain
        /\ stable' = stable
    BY <2>1, Zenon DEF Repair, Known
  <2>3. \A b \in Backends : chain'[b].head = chain[b].head /\ chain'[b].fork = chain[b].fork
    BY <2>2, Zenon DEF Known, Chain
  <2>4. candidates \subseteq Backends
    BY Zenon DEF Known, TypeOK
  <2> QED
    BY <1>1, <2>2, <2>3, <2>4 DEF AgreeInv, Agree, HashAt
<1> QED
  BY <1>2, <1>3, Zenon

\* A backend is polled.
LEMMA PollAgree ==
  ASSUME Known, AgreeInv, NEW be \in Backends, PollBackend(be)
  PROVE AgreeInv'
<1>1. UNCHANGED <<chain, stable, snapshot, gpc, pending, candidates, proposed>>
  BY Zenon DEF PollBackend, Poll, StartPolling, SetBackendState, BanUnexpectedTags, roundVars, chainVars
<1>2. \A b \in Backends : backendState'[b].latest <= chain[b].head
  <2>1. CASE UNCHANGED backendState
    BY <2>1, Zenon DEF AgreeInv
  <2>2. CASE Ban(be)
    <3>1. chain[be].head \in Nat
      BY HashType, Zenon DEF Known
    <3>2. backendState'[be].latest = 0 /\ \A b \in Backends \ {be} : backendState'[b] = backendState[b]
      BY <2>2, BanEffect, Zenon DEF Known
    <3> QED
      BY <3>1, <3>2 DEF AgreeInv
  <2>3. CASE SetBackendState(be, PollOf(be))
    <3>1. PollOf(be) \in Reports /\ PollOf(be).latest = chain[be].head /\ chain[be].head \in Nat
      BY PollIsReport, HashType, Zenon DEF Known
    <3>2. Recorded(be, PollOf(be)).latest = chain[be].head
      BY <3>1, RecordedType, Zenon
    <3>3. backendState' = [backendState EXCEPT ![be] = Recorded(be, PollOf(be))]
      BY <2>3, Zenon DEF SetBackendState
    <3> QED
      BY <3>1, <3>2, <3>3 DEF AgreeInv, Known, TypeOK
  <2> QED
    BY <2>1, <2>2, <2>3, Zenon DEF PollBackend, Poll, StartPolling, BanUnexpectedTags
<1> QED
  BY <1>1, <1>2, Zenon DEF AgreeInv, Agree, HashAt

\* A candidate is asked.  It has the block; when its hash is another, or the
\* first one, all are asked again for the block before, or it sets the hash.
LEMMA QueryAgree ==
  ASSUME Known, AgreeInv, ~Faults, NEW be \in Backends, Query(be)
  PROVE AgreeInv'
<1> DEFINE answer == [number |-> proposed.number, hash |-> HashAt(be, proposed.number)]
<1> DEFINE hash == IF proposed.hash = NoHash THEN answer.hash ELSE proposed.hash
<1>1. gpc = "agree" /\ be \in pending /\ be \in candidates
  BY Zenon DEF Query, AskFails, Ask, AgreeInv
<1>2. proposed.number \in Nat /\ proposed.number <= chain[be].head /\ chain[be].head \in Nat
  BY <1>1, ProposedHeld, Zenon
<1>3. ~(proposed.number > chain[be].head)
  BY <1>2
<1>4. Ask(be, answer) /\ UNCHANGED <<chain, stable>>
  BY <1>3, Zenon DEF Query, chainVars
<1>5. UNCHANGED <<backendState, snapshot, gpc, candidates>>
  BY <1>4, Zenon DEF Ask, updateVars
<1>6. answer.hash \in 0..MaxHead /\ answer.hash = HashAt(be, proposed.number) /\ answer.number = proposed.number
  BY <1>2, HashType, Zenon DEF Known
<1>7. answer.hash # NoHash
  BY <1>6, ChainAssumption, ConfigAssumption, Zenon
<1> HIDE DEF answer
<1>8. CASE answer.hash = hash
  <2>1. pending' = pending \ {be} /\ proposed' = [proposed EXCEPT !.hash = hash]
    BY <1>4, <1>6, <1>8, Zenon DEF Ask
  <2>2. hash # NoHash /\ (proposed.hash = NoHash \/ proposed.hash = hash)
    BY <1>7, Zenon
  <2> HIDE DEF hash
  <2>3. proposed'.number = proposed.number /\ proposed'.hash = hash
    BY <2>1, Zenon DEF Known, TypeOK
  <2>4. ASSUME stable, NEW a \in candidates \ pending' PROVE proposed'.hash # NoHash /\ HashAt(a, proposed'.number) = proposed'.hash
    <3>1. CASE a = be
      BY <1>6, <1>8, <2>2, <2>3, <3>1, Zenon
    <3>2. CASE a # be
      BY <1>1, <2>1, <2>2, <2>3, <2>4, <3>2, Zenon DEF AgreeInv
    <3> QED
      BY <3>1, <3>2, Zenon
  <2> QED
    BY <1>1, <1>4, <1>5, <2>1, <2>4, Zenon DEF AgreeInv, HashAt, AgreePublishing
<1>9. CASE answer.hash # hash
  <2>1. pending' = candidates
    BY <1>4, <1>9, Zenon DEF Ask
  <2> QED
    BY <1>1, <1>4, <1>5, <2>1, Zenon DEF AgreeInv, AgreePublishing
<1> QED
  BY <1>8, <1>9, Zenon

\* The other steps of the round.
LEMMA GroupAgree ==
  ASSUME Known, AgreeInv, ~Faults, GroupStep
  PROVE AgreeInv'
<1> USE DEF updateVars, chainVars
<1>1. CASE BeginRound /\ stable' = TRUE /\ UNCHANGED <<chain, changes>>
  BY <1>1, Zenon DEF BeginRound, AgreeInv, AgreePublishing
<1>2. ASSUME NEW be \in Backends, Query(be) PROVE AgreeInv'
  BY <1>2, QueryAgree, Zenon
<1>3. ASSUME UNCHANGED chainVars, NEW be \in Backends, Inspect(be) PROVE AgreeInv'
  <2>1. /\ UNCHANGED <<chain, stable, backendState, gpc, proposed>> /\ gpc \in {"primaries", "fallbacks"}
        /\ snapshot' = snapshot \/ snapshot' = [snapshot EXCEPT ![be] = backendState[be]]
    BY <1>3, Zenon DEF Inspect
  <2>2. \A b \in Backends : snapshot'[b].latest <= chain[b].head
    BY <2>1 DEF Known, TypeOK, AgreeInv
  <2> QED
    BY <2>1, <2>2, Zenon DEF AgreeInv, AgreePublishing
<1>4. CASE (TurnToFallbacks \/ DropLagging) /\ UNCHANGED chainVars
  BY <1>4, Zenon DEF TurnToFallbacks, DropLagging, AgreeInv, AgreePublishing
<1>5. ASSUME UNCHANGED chainVars, NEW be \in Backends, CompareLowest(be) PROVE AgreeInv'
  BY <1>5, Zenon DEF CompareLowest, AgreeInv, AgreePublishing
<1>6. CASE Propose /\ UNCHANGED chainVars
  <2>1. /\ UNCHANGED <<chain, stable, backendState, snapshot, candidates>> /\ gpc' \in {"agree", "setLatest"}
        /\ gpc' = "agree" => pending' = candidates
        /\ gpc' = "setLatest" => ~(lowest.latest > 0)
        /\ proposed'.number = lowest.latest
    BY <1>6, Zenon DEF Propose
  <2>2. lowest.latest \in Nat /\ candidates \subseteq Backends
    BY Zenon DEF Known, TypeOK, BackendState
  <2>3. gpc' = "setLatest" => proposed'.number = 0
    BY <2>1, <2>2
  <2>4. Agree(candidates, 0)
    BY <2>2, HashType DEF Agree, Known
  <2> QED
    BY <2>1, <2>3, <2>4 DEF AgreeInv, Agree, HashAt, AgreePublishing
<1>7. CASE AllAgreed /\ UNCHANGED chainVars
  <2>1. gpc = "agree" /\ pending = {} /\ gpc' = "setLatest" /\ UNCHANGED <<chain, stable, backendState, snapshot, candidates, proposed>>
    BY <1>7, Zenon DEF AllAgreed
  <2>2. stable => Agree(candidates, proposed.number)
    BY <2>1, ProposedHeld, Zenon DEF Agree, AgreeInv
  <2> QED
    BY <2>1, <2>2, Zenon DEF AgreeInv, Agree, HashAt, AgreePublishing
<1>8. CASE (SetLatest \/ SetSafe \/ SetFinalized) /\ UNCHANGED chainVars
  <2>1. gpc \in AgreePublishing /\ gpc' \in AgreePublishing /\ UNCHANGED <<chain, stable, backendState, snapshot, candidates, proposed>>
    BY <1>8, Zenon DEF SetLatest, SetSafe, SetFinalized, AgreePublishing
  <2> QED
    BY <2>1, Zenon DEF AgreeInv, Agree, HashAt, AgreePublishing
<1>9. CASE SetGroup /\ UNCHANGED chainVars
  <2>1. \A be \in Backends : ZeroState.latest <= chain[be].head
    BY HashType DEF ZeroState, Known
  <2> QED
    BY <1>9, <2>1, Zenon DEF SetGroup, AgreeInv, AgreePublishing
<1> QED
  BY <1>1, <1>2, <1>3, <1>4, <1>5, <1>6, <1>7, <1>8, <1>9, Zenon DEF GroupStep

\* The group UpdateBackendGroupConsensus installs has one hash for the block it
\* publishes as latest, for any backends and chains past their first blocks, when
\* no query fails and no chain changes during the round.
THEOREM GroupAgreesHolds ==
  ASSUME MatureChain, ~Faults
  PROVE ChainSpec => []GroupAgrees
<1>1. ChainInit => Known /\ AgreeInv
  BY InitTypeOK, InitWalkInv, InitLowestInv, AgreeInitially, Zenon DEF ChainInit, Known
<1>2. Known /\ [ChainNext]_allVars => Known'
  BY ChainStep, ChainsStay, StepTypeOK, StepWalkInv, StepLowestInv, MatureChain, Zenon DEF Known
<1>3. Known /\ AgreeInv /\ [ChainNext]_allVars => AgreeInv'
  <2> SUFFICES ASSUME Known, AgreeInv, [ChainNext]_allVars PROVE AgreeInv'
    BY Zenon
  <2>1. chain' \in [Backends -> Chain]
    BY ChainsStay, Zenon DEF Known
  <2>2. CASE \E be \in Backends : PollBackend(be)
    BY <2>2, PollAgree, Zenon
  <2>3. CASE GroupStep
    BY <2>3, GroupAgree, Zenon
  <2>4. CASE TimelyTick \/ UNCHANGED allVars
    <3>1. UNCHANGED <<backendState, snapshot, gpc, pending, candidates, proposed, chain, stable>>
      BY <2>4, Zenon DEF TimelyTick, Tick, allVars, vars, updateVars, roundVars, chainVars
    <3> QED
      BY <3>1, Zenon DEF AgreeInv, Agree, HashAt
  <2>5. CASE (\E be \in Backends, new \in Chain : Change(be, new)) \/ (\E be \in Backends : Repair(be))
    BY <2>1, <2>5, ChangeAgree, Zenon
  <2> QED
    BY <2>2, <2>3, <2>4, <2>5, Zenon DEF ChainNext
<1>4. Known /\ AgreeInv => GroupAgrees
  BY Zenon DEF Known, AgreeInv, WalkInv, GroupAgrees, AgreePublishing, Published
<1> QED
  BY <1>1, <1>2, <1>3, <1>4, PTL DEF ChainSpec
=============================================================================
