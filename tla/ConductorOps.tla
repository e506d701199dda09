---------------------------- MODULE ConductorOps ----------------------------
(* op-conductor-ops, the command line tool that operates a cluster of         *)
(* sequencers: every command first reads the state of all of them, then sends *)
(* its calls on the strength of what it read.  The conductors elect leaders   *)
(* and start and stop the sequencers on their own while it does so, unless    *)
(* they are paused, and a call of the tool may be refused, or be lost before  *)
(* or after it took effect.                                                   *)
EXTENDS Integers, Sequences, FiniteSets

CONSTANTS
  OpsSeqs,       \* the ids of the network's sequencers, in the config's order
  VotingIds,     \* those the config marks as voting
  MaxOpsFaults,  \* bound: reads and calls that fail
  MaxOpsEvents,  \* bound: elections
  MaxOpsRuns     \* bound: commands run

ASSUME OpsAssumption ==
  /\ OpsSeqs \in Seq(STRING)
  /\ \A i, j \in DOMAIN OpsSeqs : OpsSeqs[i] = OpsSeqs[j] => i = j
  /\ \A i \in DOMAIN OpsSeqs : OpsSeqs[i] # ""
  /\ VotingIds \subseteq {OpsSeqs[i] : i \in DOMAIN OpsSeqs}
  /\ {MaxOpsFaults, MaxOpsEvents, MaxOpsRuns} \subseteq Nat

VARIABLES
  running,     \* the conductors that are not paused
  raftLeader,  \* the leader of the cluster
  member,      \* suffrage of each sequencer, "out" for none
  overridden,  \* conductors and nodes told to answer that they lead
  sequencing,  \* the nodes that build blocks
  ops,         \* the command at work
  opsFaults, opsEvents, opsRuns

opsVars == <<running, raftLeader, member, overridden, sequencing, ops, opsFaults, opsEvents, opsRuns>>
opsWorld == <<running, raftLeader, member, overridden, sequencing>>

----------------------------------------------------------------------------
OpsIds == {OpsSeqs[i] : i \in DOMAIN OpsSeqs}

\* What is asked of a sequencer's conductor and of its node.
AskedOfSide ==
  [conductor |-> {"conductor_active", "conductor_leader", "sequencer_healthy"},
   node |-> {"sequencer_active", "unsafe_l2_hash"}]
OpsFields == AskedOfSide.conductor \union AskedOfSide.node
OpsReads == OpsIds \X {"conductor", "node"}

\* JSON booleans as the tool compares them, None being neither.
Json(b) == IF b THEN "true" ELSE "false"

\* The command line, the values read (each "true", "false" or "None"), the
\* reads still to come, and the place in the command's loop.  The last three
\* fields are history: the cluster as the command began.
NoCommand ==
  [cmd |-> "none", id |-> "", force |-> FALSE, pc |-> "idle",
   seen |-> [s \in OpsIds |-> [f \in OpsFields |-> "None"]],
   unread |-> {}, i |-> 1, leader |-> "", membership |-> << >>,
   led |-> FALSE, alone |-> FALSE, before |-> <<0, 0>>]

\* What the operator can type: the command, the sequencer named and --force.
CommandLines ==
  ({"transfer_leader", "force_active_sequencer"} \X OpsIds \X BOOLEAN)
  \union ({"override_leader", "remove_override", "remove_server"} \X OpsIds \X {FALSE})
  \union ({"pause", "resume"} \X (OpsIds \union {""}) \X {FALSE})
  \union ({"update_cluster_membership"} \X {""} \X {FALSE})
  \union ({"halt_sequencer"} \X {""} \X BOOLEAN)

Suffrage(s) == IF s \in VotingIds THEN "voter" ELSE "nonvoter"

OpsInit ==
  /\ running = OpsIds
  /\ raftLeader \in VotingIds
  /\ member \in [OpsIds -> {"voter", "nonvoter"}] /\ member[raftLeader] = "voter"
  /\ overridden = {}
  /\ sequencing = {raftLeader}
  /\ ops = NoCommand
  /\ opsFaults = 0 /\ opsEvents = 0 /\ opsRuns = 0

----------------------------------------------------------------------------
(* Reading: get_network calls update on every sequencer, in parallel.         *)

Command(line) ==
  /\ ops.pc = "idle" /\ opsRuns < MaxOpsRuns
  /\ ops' = [NoCommand EXCEPT !.cmd = line[1], !.id = line[2], !.force = line[3], !.pc = "update", !.unread = OpsReads,
                            !.led = raftLeader \in VotingIds /\ overridden = {},
                            !.alone = Cardinality(sequencing) <= 1,
                            !.before = <<opsFaults, opsEvents>>]
  /\ opsRuns' = opsRuns + 1
  /\ UNCHANGED <<opsWorld, opsFaults, opsEvents>>

Actual(s, healthy) ==
  [conductor_active |-> Json(s \in running),
   conductor_leader |-> Json(raftLeader = s \/ <<"conductor", s>> \in overridden),
   sequencer_active |-> Json(s \in sequencing),
   sequencer_healthy |-> Json(healthy),
   unsafe_l2_hash |-> "true"]

OpsFault == opsFaults < MaxOpsFaults /\ opsFaults' = opsFaults + 1

\* Sequencer.update: the five calls run in parallel, those of one sequencer to
\* the conductor and to the node included.  What one side answers is taken at
\* one instant, as only one of its answers, conductor_leader or
\* sequencer_active, can change under a command.  Any of them may fail, all of
\* them where it cannot be reached, and leaves its field as it was.  Only
\* transfer_leader looks at the health, and of the sequencer it names.
Update(s, side) ==
  /\ ops.pc \in {"update", "update again"} /\ <<s, side>> \in ops.unread
  /\ \E healthy \in IF s = ops.id /\ ops.cmd = "transfer_leader" THEN BOOLEAN ELSE {TRUE}, lost \in SUBSET AskedOfSide[side] :
       /\ IF lost = {} THEN UNCHANGED opsFaults ELSE OpsFault
       /\ ops' = [ops EXCEPT
            !.seen[s] = [f \in OpsFields |-> IF f \in AskedOfSide[side] \ lost THEN Actual(s, healthy)[f] ELSE @[f]],
            !.unread = @ \ {<<s, side>>},
            !.pc = IF ops.unread # {<<s, side>>} THEN @ ELSE IF @ = "update" THEN "check" ELSE "remove"]
  /\ UNCHANGED <<opsWorld, opsEvents, opsRuns>>

\* next(... if sequencer.field, None): the first the field is true of.
First(field) ==
  LET at == {i \in DOMAIN OpsSeqs : ops.seen[OpsSeqs[i]][field] = "true"}
  IN IF at = {} THEN "" ELSE OpsSeqs[CHOOSE i \in at : \A j \in at : i <= j]

find_conductor_leader == First("conductor_leader")
find_active_sequencer == First("sequencer_active")

\* not conductor_active is true of None as well.
AllPaused == \A s \in OpsIds : ops.seen[s].conductor_active # "true"

OpsGoto(pc) == ops' = [ops EXCEPT !.pc = pc]
Exit == ops' = NoCommand

\* A call of the tool: it takes effect if the other side can, it is refused,
\* or no answer comes, which raises and ends the command.
Post(able, effect, after, refused) ==
  /\ \/ able /\ effect /\ after /\ UNCHANGED opsFaults
     \/ able /\ OpsFault /\ UNCHANGED opsWorld /\ refused
     \/ ~able /\ UNCHANGED <<opsWorld, opsFaults>> /\ refused
     \/ OpsFault /\ Exit /\ (UNCHANGED opsWorld \/ (able /\ effect))
  /\ UNCHANGED <<opsEvents, opsRuns>>

OpsLocal == UNCHANGED <<opsWorld, opsFaults, opsEvents, opsRuns>>

----------------------------------------------------------------------------
(* The commands, after they have read.                                        *)

transfer_leader ==
  LET to == ops.seen[ops.id]
      may == /\ find_conductor_leader # "" /\ ops.id \in VotingIds
             /\ ops.force \/ (to.sequencer_healthy = "true" /\ to.conductor_active = "true")
  IN /\ ops.pc = "check" /\ ops.cmd = "transfer_leader"
     /\ \/ ~may /\ Exit /\ OpsLocal
        \/ /\ may
           /\ Post(raftLeader = find_conductor_leader /\ member[ops.id] = "voter",
                   raftLeader' = ops.id /\ UNCHANGED <<running, member, overridden, sequencing>>,
                   Exit, Exit)

\* pause and resume: one call per conductor, or to the one named.  A refusal
\* is printed and the loop goes on.
Advance ==
  ops' = IF ops.id # "" \/ ops.i = Len(OpsSeqs) THEN NoCommand ELSE [ops EXCEPT !.i = @ + 1]

pause_resume ==
  LET s == IF ops.id = "" THEN OpsSeqs[ops.i] ELSE ops.id
  IN /\ ops.pc = "check" /\ ops.cmd \in {"pause", "resume"}
     /\ Post(TRUE,
             /\ running' = IF ops.cmd = "pause" THEN running \ {s} ELSE running \union {s}
             /\ UNCHANGED <<raftLeader, member, overridden, sequencing>>,
             Advance, Advance)

\* override_leader: the conductor, then, unless --remove, the node.
Override(who) ==
  /\ overridden' = IF ops.cmd = "override_leader" THEN overridden \union {<<who, ops.id>>}
                   ELSE overridden \ {<<who, ops.id>>}
  /\ UNCHANGED <<running, raftLeader, member, sequencing>>

override_leader ==
  /\ ops.cmd \in {"override_leader", "remove_override"}
  /\ \/ /\ ops.pc = "check"
        /\ Post(TRUE, Override("conductor"),
                IF ops.cmd = "override_leader" THEN OpsGoto("node") ELSE Exit, Exit)
     \/ ops.pc = "node" /\ Post(TRUE, Override("node"), Exit, Exit)

\* conductor_removeServer at the leader found; without one the tool raises.
Remove(s, after) ==
  \/ find_conductor_leader = "" /\ Exit /\ OpsLocal
  \/ /\ find_conductor_leader # ""
     /\ Post(raftLeader = find_conductor_leader,
             /\ member' = [member EXCEPT ![s] = "out"]
             /\ raftLeader' = IF raftLeader = s THEN "" ELSE raftLeader
             /\ UNCHANGED <<running, overridden, sequencing>>,
             after, Exit)

remove_server == ops.pc = "check" /\ ops.cmd = "remove_server" /\ Remove(ops.id, Exit)

\* update_cluster_membership keeps the leader it found and the membership it
\* answered for the whole loop; remove_server, which it calls for a sequencer
\* with another suffrage, reads everything again and asks the leader it finds.
read_membership ==
  /\ ops.pc = "check" /\ ops.cmd = "update_cluster_membership"
  /\ \/ find_conductor_leader = "" /\ Exit /\ UNCHANGED opsFaults
     \/ find_conductor_leader # "" /\ Exit /\ OpsFault
     \/ /\ find_conductor_leader # "" /\ UNCHANGED opsFaults
        /\ ops' = [ops EXCEPT !.pc = "member", !.leader = find_conductor_leader, !.membership = member]
  /\ UNCHANGED <<opsWorld, opsEvents, opsRuns>>

WrongSuffrage(s) == ops.membership[s] \notin {"out", Suffrage(s)}

compare_suffrage ==
  /\ ops.pc = "member"
  /\ ops' = IF WrongSuffrage(OpsSeqs[ops.i])
            THEN [ops EXCEPT !.pc = "update again", !.unread = OpsReads]
            ELSE [ops EXCEPT !.pc = "add"]
  /\ OpsLocal

remove_for_update == ops.pc = "remove" /\ Remove(OpsSeqs[ops.i], OpsGoto("add"))

\* Mutant of NextMember: the loop stops before the last sequencer.
NextMemberShort ==
  ops' = IF ops.i + 1 >= Len(OpsSeqs) THEN [ops EXCEPT !.pc = "done"]
         ELSE [ops EXCEPT !.pc = "member", !.i = @ + 1]

NextMember ==
  ops' = IF ops.i = Len(OpsSeqs) THEN [ops EXCEPT !.pc = "done"]
         ELSE [ops EXCEPT !.pc = "member", !.i = @ + 1]

\* conductor_addServerAsVoter or AsNonvoter, which demotes no voter.
add_server ==
  LET s == OpsSeqs[ops.i]
  IN /\ ops.pc = "add"
     /\ Post(raftLeader = ops.leader,
             /\ member' = [member EXCEPT ![s] = IF @ = "voter" THEN @ ELSE Suffrage(s)]
             /\ UNCHANGED <<running, raftLeader, overridden, sequencing>>,
             NextMember, NextMember)

finish == ops.pc = "done" /\ Exit /\ OpsLocal

\* halt_sequencer and the first half of force_active_sequencer: with every
\* conductor seen paused, or --force, the active sequencer is stopped.
preflight ==
  LET may == AllPaused \/ ops.force
      found == find_active_sequencer # ""
  IN /\ ops.pc = "check" /\ ops.cmd \in {"halt_sequencer", "force_active_sequencer"}
     /\ CASE may /\ found -> OpsGoto("stop")
          [] may /\ ~found /\ ops.cmd = "force_active_sequencer"
               /\ ops.seen[ops.id].unsafe_l2_hash = "true" -> OpsGoto("start")
          [] OTHER -> Exit
     /\ OpsLocal

\* Mutant of stop_sequencer: a refused stop does not end the command.
stop_sequencer_anyway ==
  LET next == IF ops.cmd = "halt_sequencer" THEN Exit ELSE OpsGoto("start")
  IN /\ ops.pc = "stop"
     /\ Post(TRUE,
             /\ sequencing' = sequencing \ {find_active_sequencer}
             /\ UNCHANGED <<running, raftLeader, member, overridden>>,
             next, next)

stop_sequencer ==
  /\ ops.pc = "stop"
  /\ Post(TRUE,
          /\ sequencing' = sequencing \ {find_active_sequencer}
          /\ UNCHANGED <<running, raftLeader, member, overridden>>,
          IF ops.cmd = "halt_sequencer" THEN Exit ELSE OpsGoto("start"),
          Exit)

\* The node refuses a hash that is not its head, as it does when it lags.
start_sequencer ==
  /\ ops.pc = "start"
  /\ Post(TRUE,
          /\ sequencing' = sequencing \union {ops.id}
          /\ UNCHANGED <<running, raftLeader, member, overridden>>,
          Exit, Exit)

----------------------------------------------------------------------------
(* The cluster on its own (op-conductor, not part of the repository).         *)

OpsElect(s) ==
  /\ s # raftLeader /\ member[s] = "voter" /\ opsEvents < MaxOpsEvents
  /\ raftLeader' = s /\ opsEvents' = opsEvents + 1
  /\ UNCHANGED <<running, member, overridden, sequencing, ops, opsFaults, opsRuns>>

\* A running conductor starts its node when it leads and nobody sequences,
\* and stops it when it does not lead.
Conduct(s) ==
  /\ s \in running
  /\ \/ raftLeader = s /\ sequencing = {} /\ sequencing' = {s}
     \/ raftLeader # s /\ s \in sequencing /\ sequencing' = sequencing \ {s}
  /\ UNCHANGED <<running, raftLeader, member, overridden, ops, opsFaults, opsEvents, opsRuns>>

OpsNext ==
  \/ \E line \in CommandLines : Command(line)
  \/ \E read \in OpsReads : Update(read[1], read[2])
  \/ \E s \in OpsIds : OpsElect(s) \/ Conduct(s)
  \/ transfer_leader \/ pause_resume \/ override_leader \/ remove_server
  \/ read_membership \/ compare_suffrage \/ remove_for_update \/ add_server \/ finish
  \/ preflight \/ stop_sequencer \/ start_sequencer

OpsSpec == OpsInit /\ [][OpsNext]_opsVars

----------------------------------------------------------------------------
ReadAll == \A s \in OpsIds, f \in OpsFields : ops.seen[s][f] # "None"

\* When force_active_sequencer starts its sequencer nobody else sequences: the
\* one found active was stopped first, and a stop that was refused or lost
\* ended the command.  This needs every read answered, no --force, and a
\* cluster with at most one active sequencer to begin with.
StartsAlone ==
  ops.pc = "start" /\ ~ops.force /\ ReadAll /\ ops.alone => sequencing = {}

\* update_cluster_membership that ran through, over a cluster that kept its
\* leader, leaves every sequencer of the config in the cluster with its
\* configured suffrage, but for one for each read or call that failed under it:
\* one failure costs at most one sequencer its place.
Misplaced == {i \in DOMAIN OpsSeqs : member[OpsSeqs[i]] # Suffrage(OpsSeqs[i])}

MembershipMatches ==
  ops.pc = "done" /\ ops.led /\ ops.before[2] = opsEvents => Cardinality(Misplaced) <= opsFaults - ops.before[1]
=============================================================================
