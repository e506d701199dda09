-------------------------- MODULE ConsensusServing --------------------------
(***************************************************************************)
(* A client request of proxyd served while rounds of consensus are being   *)
(* published: ConsensusRequest composed with ConsensusView, which the      *)
(* consensus poller implements (ConsensusPollerView).                      *)
(***************************************************************************)
EXTENDS ConsensusView

CONSTANTS BlockTags, Numbers, NoBackend

ViewTags == [latest : Nat, safe : Nat, finalized : Nat]

\* Block numbers are unsigned, those reported and those asked for.
ASSUME NumbersAreNaturals == TagSet \subseteq ViewTags /\ Numbers \subseteq Nat

VARIABLES
  inflight,   \* the request being served
  installed,  \* history: what the members had reported to the round
  quiet       \* history: nothing was published since the request was accepted

INSTANCE ConsensusRequest

allVars == <<viewVars, inflight, installed, quiet>>

ServingInit ==
  /\ ViewInit
  /\ inflight = NoRequest
  /\ installed = NoRound.members
  /\ quiet = FALSE

\* The numbers of a round are written, but not all of them or not its group.
Publishing == round.phase \in {"setSafe", "setFinalized", "setGroup"}

RequestStep ==
  /\ RequestNext
  /\ quiet' = IF inflight.pc = "idle" THEN ~Publishing ELSE quiet
  /\ UNCHANGED <<viewVars, installed>>

PublisherStep ==
  /\ ViewNext
  /\ installed' = IF round.phase = "setGroup" THEN round.members ELSE installed
  /\ quiet' = (quiet /\ tracker' = tracker /\ consensusGroup' = consensusGroup)
  /\ UNCHANGED inflight

ServingNext == RequestStep \/ PublisherStep

ServingSpec == ServingInit /\ [][ServingNext]_allVars

-----------------------------------------------------------------------------
(* Properties. *)

\* Unless the poller publishes while Forward prepares the request, a backend
\* that is sent it had reached the block the request asks for when the group
\* was installed: the copy of the group fits the numbers read after it.
TargetHasBlock ==
  inflight.pc = "sent" /\ quiet =>
    LET s == installed[inflight.target] IN
    inflight.block <= CASE inflight.asked = "safe"      -> s.safe
                        [] inflight.asked = "finalized" -> s.finalized
                        [] OTHER                        -> s.latest
=============================================================================
