---------------------------- MODULE ConsensusView ----------------------------
(***************************************************************************)
(* What the consensus poller of proxyd promises to those who read it: the  *)
(* consensus group and the latest, safe and finalized numbers, renewed     *)
(* round after round.  A round fixes a group, what its members reported,   *)
(* and a latest block; it then publishes the three numbers and the group   *)
(* in four steps, in that order, and readers may run between any two.      *)
(***************************************************************************)
EXTENDS Integers

CONSTANTS
  GroupBackends,  \* the backends of the group
  TagSet          \* the numbers [latest, safe, finalized] a member can report

VARIABLES
  tracker,        \* the published numbers
  consensusGroup, \* the published group
  round           \* the round being published

ZeroTags == [latest |-> 0, safe |-> 0, finalized |-> 0]

NoRound == [phase |-> "resolving", group |-> {}, latest |-> 0,
            members |-> [be \in GroupBackends |-> ZeroTags]]

ViewInit ==
  /\ tracker = ZeroTags
  /\ consensusGroup = {}
  /\ round = NoRound

\* n is the lowest of the numbers, or 0 if there are none.
Lowest(n, numbers) ==
  \/ numbers = {} /\ n = 0
  \/ n \in numbers /\ \A m \in numbers : n <= m

\* A round ends with a latest block that no member's head is below.
Resolve(group, members, latest) ==
  /\ round.phase = "resolving"
  /\ \A be \in group : latest <= members[be].latest
  /\ group = {} => latest = 0
  /\ \A be \in GroupBackends \ group : members[be] = ZeroTags
  /\ round' = [phase |-> "setLatest", group |-> group, latest |-> latest,
               members |-> members]
  /\ UNCHANGED <<tracker, consensusGroup>>

PublishLatest ==
  /\ round.phase = "setLatest"
  /\ tracker' = [tracker EXCEPT !.latest = round.latest]
  /\ round' = [round EXCEPT !.phase = "setSafe"]
  /\ UNCHANGED consensusGroup

PublishSafe(n) ==
  /\ round.phase = "setSafe"
  /\ Lowest(n, {round.members[be].safe : be \in round.group})
  /\ tracker' = [tracker EXCEPT !.safe = n]
  /\ round' = [round EXCEPT !.phase = "setFinalized"]
  /\ UNCHANGED consensusGroup

PublishFinalized(n) ==
  /\ round.phase = "setFinalized"
  /\ Lowest(n, {round.members[be].finalized : be \in round.group})
  /\ tracker' = [tracker EXCEPT !.finalized = n]
  /\ round' = [round EXCEPT !.phase = "setGroup"]
  /\ UNCHANGED consensusGroup

PublishGroup ==
  /\ round.phase = "setGroup"
  /\ consensusGroup' = round.group
  /\ round' = NoRound
  /\ UNCHANGED tracker

\* Every number of TagSet, and 0.
NumbersOf == {0} \cup UNION {{t.latest, t.safe, t.finalized} : t \in TagSet}
Below(numbers) == UNION {0..n : n \in numbers}

ViewNext ==
  \/ \E group \in SUBSET GroupBackends, members \in [GroupBackends -> TagSet],
        latest \in Below(NumbersOf) : Resolve(group, members, latest)
  \/ PublishLatest
  \/ \E n \in NumbersOf : PublishSafe(n)
  \/ \E n \in NumbersOf : PublishFinalized(n)
  \/ PublishGroup

viewVars == <<tracker, consensusGroup, round>>

ViewSpec == ViewInit /\ [][ViewNext]_viewVars
=============================================================================
