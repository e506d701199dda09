-------------------------- MODULE ConsensusTracker --------------------------
(***************************************************************************)
(* proxyd/consensus_tracker.go: RedisConsensusTracker, by which several    *)
(* proxyd instances share one consensus state.  The instance that holds a  *)
(* lock in Redis is the leader and posts the state of its own pollers      *)
(* under a key made from the value of the lock; the others copy it.        *)
(*                                                                         *)
(* stateHeartbeat is split at every call to Redis.  A call may fail, and   *)
(* when it fails it may or may not have taken effect.  The lock and the    *)
(* posted states expire; heartbeats may be late.                           *)
(***************************************************************************)
EXTENDS Integers

CONSTANTS
  Instances,   \* the proxyd processes
  States,      \* [latest, safe, finalized] that pollers can produce
  LockPeriod,  \* ct.lockPeriod, in ticks
  MaxLocks,    \* bound: how many lock values are issued
  MaxRestarts, \* bound: how many instances are restarted
  MaxWrites,   \* bound: how often local states change
  Errors,      \* whether calls to Redis can fail
  Nobody       \* the author of a lock value nobody knows

Zero == [latest |-> 0, safe |-> 0, finalized |-> 0]
State == [latest : Nat, safe : Nat, finalized : Nat]
Tags == {"latest", "safe", "finalized"}
CopyOf == [latest |-> "copyLatest", safe |-> "copySafe", finalized |-> "copyFinalized"]
Values == 0..MaxLocks   \* lock values in the order of issue; 0 for ""
Missing == [latest |-> -1, safe |-> -1, finalized |-> -1]

ASSUME TrackerAssumption ==
  /\ States \subseteq State /\ Zero \in States
  /\ LockPeriod \in Nat \ {0} /\ MaxLocks \in Nat /\ MaxRestarts \in Nat
  /\ MaxWrites \in Nat
  /\ Errors \in BOOLEAN
  /\ Nobody \notin Instances

VARIABLES
  lock,      \* Redis: the value of the key mutex
  lockTTL,   \* Redis: ticks until it expires
  posted,    \* Redis: the keys state:<value>
  postedTTL, \* Redis: ticks until each expires
  issued,    \* the lock values issued so far
  author,    \* history: who acquired the lock with a value
  restarts,  \* how many instances were restarted
  writes,    \* how often local states changed
  pc,        \* control point of each instance's stateHeartbeat
  leader,    \* ct.leader
  redlock,   \* ct.redlock: the value of the mutex last acquired
  val,       \* the local val
  payload,   \* the marshalled state on its way to Redis
  local,     \* ct.local
  remote     \* ct.remote

redisVars == <<lock, lockTTL, posted, postedTTL>>
ghostVars == <<issued, author, restarts, writes>>
procVars  == <<pc, leader, redlock, val, payload, local, remote>>
vars == <<redisVars, ghostVars, procVars>>

Init ==
  /\ lock = 0 /\ lockTTL = 0
  /\ posted = [v \in Values |-> Missing]
  /\ postedTTL = [v \in Values |-> 0]
  /\ issued = 0
  /\ author = [v \in Values |-> Nobody]
  /\ restarts = 0 /\ writes = 0
  /\ pc = [i \in Instances |-> "idle"]
  /\ leader = [i \in Instances |-> FALSE]
  /\ redlock = [i \in Instances |-> 0]
  /\ val = [i \in Instances |-> 0]
  /\ payload = [i \in Instances |-> Zero]
  /\ local = [i \in Instances |-> Zero]
  /\ remote = [i \in Instances |-> Zero]

-----------------------------------------------------------------------------
(* InMemoryConsensusTracker. *)

Valid(s) == s.latest > 0 /\ s.safe > 0 /\ s.finalized > 0
Behind(s, other) == \/ s.latest < other.latest
                    \/ s.safe < other.safe
                    \/ s.finalized < other.finalized

\* The local pollers publish: one or more of SetLatestBlockNumber and its
\* siblings between two steps of the heartbeat.
PollerWrites(i, s) ==
  /\ s # local[i] /\ writes < MaxWrites
  /\ writes' = writes + 1
  /\ local' = [local EXCEPT ![i] = s]
  /\ UNCHANGED <<redisVars, issued, author, restarts, pc, leader, redlock, val, payload, remote>>

-----------------------------------------------------------------------------
(* stateHeartbeat. *)

Goto(i, label) == pc' = [pc EXCEPT ![i] = label]

\* The heartbeat returns; its locals go out of scope.
Return(i) ==
  /\ Goto(i, "idle")
  /\ val' = [val EXCEPT ![i] = 0]
  /\ payload' = [payload EXCEPT ![i] = Zero]

\* Whether an instance that finds no lock tries to take it.
MayLead(i) ==
  /\ Valid(local[i])
  /\ ~(Valid(remote[i]) /\ Behind(local[i], remote[i]))

\* Mutant of ReadLock: only an instance that has followed may lead.
ReadLockFollower(i) ==
  /\ pc[i] = "idle"
  /\ lock # 0 \/ (MayLead(i) /\ Valid(remote[i]))
  /\ Goto(i, IF lock = 0 THEN "lock" ELSE IF leader[i] THEN "extend" ELSE "readLeader")
  /\ val' = [val EXCEPT ![i] = lock]
  /\ UNCHANGED <<redisVars, ghostVars, leader, redlock, payload, local, remote>>

\* GET mutex.
ReadLock(i) ==
  /\ pc[i] = "idle"
  /\ lock # 0 \/ MayLead(i)
  /\ Goto(i, IF lock = 0 THEN "lock" ELSE IF leader[i] THEN "extend" ELSE "readLeader")
  /\ val' = [val EXCEPT ![i] = lock]
  /\ UNCHANGED <<redisVars, ghostVars, leader, redlock, payload, local, remote>>

\* GET mutex fails: a leader gives up the lock.
ReadLockFails(i) ==
  /\ Errors
  /\ pc[i] = "idle" /\ leader[i]
  /\ Goto(i, "unlock")
  /\ UNCHANGED <<redisVars, ghostVars, leader, redlock, val, payload, local, remote>>

\* Mutant of Extend: only an error is looked at, not the result.
ExtendUnchecked(i) ==
  /\ pc[i] = "extend"
  /\ lockTTL' = IF lock = redlock[i] THEN LockPeriod ELSE lockTTL
  /\ Goto(i, "latest")
  /\ UNCHANGED <<lock, posted, postedTTL, ghostVars, leader, redlock, val, payload,
                 local, remote>>

\* redlock.Extend succeeds only if the lock still has the value.
Extend(i) ==
  /\ pc[i] = "extend"
  /\ IF lock = redlock[i]
       THEN lockTTL' = LockPeriod /\ Goto(i, "latest")
       ELSE UNCHANGED lockTTL /\ Goto(i, "unlock")
  /\ UNCHANGED <<lock, posted, postedTTL, ghostVars, leader, redlock, val, payload,
                 local, remote>>

ExtendFails(i) ==
  /\ Errors
  /\ pc[i] = "extend"
  /\ \/ UNCHANGED lockTTL
     \/ lock = redlock[i] /\ lockTTL' = LockPeriod
  /\ Goto(i, "unlock")
  /\ UNCHANGED <<lock, posted, postedTTL, ghostVars, leader, redlock, val, payload,
                 local, remote>>

\* redlock.Unlock deletes the lock if it still has the value; otherwise the
\* instance returns and goes on calling itself the leader.
Unlock(i) ==
  /\ pc[i] = "unlock"
  /\ IF lock = redlock[i]
       THEN /\ lock' = 0 /\ lockTTL' = 0
            /\ leader' = [leader EXCEPT ![i] = FALSE]
       ELSE UNCHANGED <<lock, lockTTL, leader>>
  /\ Return(i)
  /\ UNCHANGED <<posted, postedTTL, ghostVars, redlock, local, remote>>

UnlockFails(i) ==
  /\ Errors
  /\ pc[i] = "unlock"
  /\ \/ UNCHANGED <<lock, lockTTL>>
     \/ lock = redlock[i] /\ lock' = 0 /\ lockTTL' = 0
  /\ Return(i)
  /\ UNCHANGED <<posted, postedTTL, ghostVars, leader, redlock, local, remote>>

\* mutex.Lock with one try: it fails if the lock is taken.
Lock(i) ==
  /\ pc[i] = "lock"
  /\ lock = 0 /\ issued < MaxLocks
  /\ issued' = issued + 1
  /\ lock' = issued' /\ lockTTL' = LockPeriod
  /\ author' = [author EXCEPT ![issued'] = i]
  /\ redlock' = [redlock EXCEPT ![i] = issued']
  /\ val' = [val EXCEPT ![i] = issued']
  /\ leader' = [leader EXCEPT ![i] = TRUE]
  /\ Goto(i, "latest")
  /\ UNCHANGED <<posted, postedTTL, restarts, writes, payload, local, remote>>

\* Mutant of LockFails: leader is set before the lock is tried.
LockFailsLeading(i) ==
  /\ pc[i] = "lock"
  /\ lock # 0 \/ Errors
  /\ leader' = [leader EXCEPT ![i] = TRUE]
  /\ Return(i)
  /\ UNCHANGED <<redisVars, ghostVars, redlock, local, remote>>

\* The lock is taken, or the call fails; a call that took the lock and could
\* not release it again leaves a lock with a value that nobody knows.
LockFails(i) ==
  /\ pc[i] = "lock"
  /\ \/ (lock # 0 \/ Errors) /\ UNCHANGED <<lock, lockTTL, issued>>
     \/ /\ Errors /\ lock = 0 /\ issued < MaxLocks
        /\ issued' = issued + 1
        /\ lock' = issued' /\ lockTTL' = LockPeriod
  /\ leader' = [leader EXCEPT ![i] = FALSE]
  /\ Return(i)
  /\ UNCHANGED <<posted, postedTTL, author, restarts, writes, redlock, local, remote>>

\* A follower: GET leader:<val>, for its name only.
ReadLeader(i) ==
  /\ pc[i] = "readLeader"
  /\ Goto(i, "readState")
  /\ UNCHANGED <<redisVars, ghostVars, leader, redlock, val, payload, local, remote>>

ReadLeaderFails(i) ==
  /\ Errors
  /\ pc[i] = "readLeader"
  /\ Return(i)
  /\ UNCHANGED <<redisVars, ghostVars, leader, redlock, local, remote>>

\* GET state:<val>, which is copied unless it is missing.
ReadState(i) ==
  /\ pc[i] = "readState"
  /\ IF posted[val[i]] = Missing
       THEN UNCHANGED remote
       ELSE remote' = [remote EXCEPT ![i] = posted[val[i]]]
  /\ Return(i)
  /\ UNCHANGED <<redisVars, ghostVars, leader, redlock, local>>

ReadStateFails(i) ==
  /\ Errors
  /\ pc[i] = "readState"
  /\ Return(i)
  /\ UNCHANGED <<redisVars, ghostVars, leader, redlock, local, remote>>

\* postPayload(val): the local state is marshalled field by field without
\* its mutex, so that the pollers may write in between,
Marshal(i) ==
  /\ pc[i] \in Tags
  /\ payload' = [payload EXCEPT ![i][pc[i]] = local[i][pc[i]]]
  /\ Goto(i, CASE pc[i] = "latest" -> "safe"
               [] pc[i] = "safe" -> "finalized"
               [] pc[i] = "finalized" -> "setState")
  /\ UNCHANGED <<redisVars, ghostVars, leader, redlock, val, local, remote>>

\* SET state:<val>,
SetState(i) ==
  /\ pc[i] = "setState"
  /\ posted' = [posted EXCEPT ![val[i]] = payload[i]]
  /\ postedTTL' = [postedTTL EXCEPT ![val[i]] = LockPeriod]
  /\ Goto(i, "setLeader")
  /\ UNCHANGED <<lock, lockTTL, ghostVars, leader, redlock, val, payload, local, remote>>

SetStateFails(i) ==
  /\ Errors
  /\ pc[i] = "setState"
  /\ \/ UNCHANGED <<posted, postedTTL>>
     \/ /\ posted' = [posted EXCEPT ![val[i]] = payload[i]]
        /\ postedTTL' = [postedTTL EXCEPT ![val[i]] = LockPeriod]
  /\ leader' = [leader EXCEPT ![i] = FALSE]
  /\ Return(i)
  /\ UNCHANGED <<lock, lockTTL, ghostVars, redlock, local, remote>>

\* SET leader:<val>,
SetLeader(i) ==
  /\ pc[i] = "setLeader"
  /\ Goto(i, CopyOf["latest"])
  /\ UNCHANGED <<redisVars, ghostVars, leader, redlock, val, payload, local, remote>>

SetLeaderFails(i) ==
  /\ Errors
  /\ pc[i] = "setLeader"
  /\ leader' = [leader EXCEPT ![i] = FALSE]
  /\ Return(i)
  /\ UNCHANGED <<redisVars, ghostVars, redlock, local, remote>>

\* and the local state, read a second time and again without its mutex,
\* becomes the leader's remote.
CopyLocal(i) ==
  \E tag \in Tags :
    /\ pc[i] = CopyOf[tag]
    /\ remote' = [remote EXCEPT ![i][tag] = local[i][tag]]
    /\ IF tag = "finalized"
         THEN Return(i)
         ELSE /\ Goto(i, CopyOf[IF tag = "latest" THEN "safe" ELSE "finalized"])
              /\ UNCHANGED <<val, payload>>
    /\ UNCHANGED <<redisVars, ghostVars, leader, redlock, local>>

-----------------------------------------------------------------------------
(* Time, expiry in Redis, and restarts. *)

Tick ==
  /\ lockTTL' = IF lockTTL > 0 THEN lockTTL - 1 ELSE 0
  /\ lock' = IF lockTTL > 1 THEN lock ELSE 0
  /\ postedTTL' = [v \in Values |-> IF postedTTL[v] > 0 THEN postedTTL[v] - 1 ELSE 0]
  /\ posted' = [v \in Values |-> IF postedTTL[v] > 1 THEN posted[v] ELSE Missing]
  /\ UNCHANGED <<ghostVars, procVars>>

\* An instance dies and starts again with NewRedisConsensusTracker.
Restart(i) ==
  /\ restarts < MaxRestarts
  /\ restarts' = restarts + 1
  /\ leader' = [leader EXCEPT ![i] = FALSE]
  /\ redlock' = [redlock EXCEPT ![i] = 0]
  /\ local' = [local EXCEPT ![i] = Zero]
  /\ remote' = [remote EXCEPT ![i] = Zero]
  /\ Return(i)
  /\ UNCHANGED <<redisVars, issued, author, writes>>

StateHeartbeat(i) ==
  \/ ReadLock(i) \/ Extend(i) \/ Unlock(i) \/ Lock(i)
  \/ ReadLeader(i) \/ ReadState(i)
  \/ Marshal(i) \/ SetState(i) \/ SetLeader(i) \/ CopyLocal(i)
  \/ LockFails(i)

HeartbeatFails(i) ==
  \/ ReadLockFails(i) \/ ExtendFails(i) \/ UnlockFails(i)
  \/ ReadLeaderFails(i) \/ ReadStateFails(i)
  \/ SetStateFails(i) \/ SetLeaderFails(i)

Next ==
  \/ \E i \in Instances : \/ StateHeartbeat(i)
                          \/ HeartbeatFails(i)
                          \/ \E s \in States : PollerWrites(i, s)
                          \/ Restart(i)
  \/ Tick

Spec == Init /\ [][Next]_vars

\* A heartbeat is started by a timer, and every call to Redis returns.
FairSpec == Spec /\ \A i \in Instances : WF_vars(StateHeartbeat(i))

\* heartbeatInterval (2s) is far below lockPeriod (30s): neither the lock nor
\* the state of a leader that is alive expires.
TimelyTick ==
  /\ \A i \in Instances :
       leader[i] /\ lock = redlock[i] /\ lock # 0 => lockTTL > 1 /\ postedTTL[lock] # 1
  /\ Tick

TimelyNext ==
  \/ \E i \in Instances : \/ StateHeartbeat(i)
                          \/ \E s \in States : PollerWrites(i, s)
                          \/ Restart(i)
  \/ TimelyTick

TimelySpec ==
  /\ Init /\ [][TimelyNext]_vars
  /\ \A i \in Instances : WF_vars(StateHeartbeat(i))
  /\ WF_vars(TimelyTick)

-----------------------------------------------------------------------------
(* Properties. *)

Control == {"idle", "extend", "unlock", "lock", "readLeader", "readState",
            "setState", "setLeader", "copyLatest", "copySafe", "copyFinalized"} \cup Tags

\* Every variable has the type of the Go variable or Redis key it stands for.
TypeOK ==
  /\ lock \in Values /\ lockTTL \in Nat
  /\ posted \in [Values -> State \cup {Missing}] /\ postedTTL \in [Values -> Nat]
  /\ issued \in Values /\ author \in [Values -> Instances \cup {Nobody}]
  /\ restarts \in Nat /\ writes \in Nat
  /\ pc \in [Instances -> Control]
  /\ leader \in [Instances -> BOOLEAN]
  /\ redlock \in [Instances -> Values] /\ val \in [Instances -> Values]
  /\ payload \in [Instances -> State]
  /\ local \in [Instances -> State] /\ remote \in [Instances -> State]

\* postPayload runs only under a lock value that this very instance acquired,
\* however late its calls are and whoever has taken the lock since: what a
\* follower finds under the value it read from the lock was written by the
\* instance that acquired that value.
PostsUnderOwnValue ==
  \A i \in Instances :
    pc[i] \in Tags \cup {"setState", "setLeader"} => author[val[i]] = i

\* The lock is held by another instance than i, which has posted its state.
FollowsOther(i) ==
  lock # 0 /\ author[lock] \notin {i, Nobody} /\ posted[lock] # Missing

\* "holds a copy of the remote shared state": while the lock stays with other
\* instances, ct.remote is again and again what the leader posted.
RemoteIsCopied ==
  \A i \in Instances : <>[]FollowsOther(i) => []<>(lock # 0 /\ remote[i] = posted[lock])

\* Failover: if some instance can lead from some time on, the lock is in the
\* end held for good, whichever instances died with it before.
LockIsHeld ==
  \A i \in Instances : <>[](MayLead(i)) => <>[](lock # 0)
=============================================================================
