-------------------------- MODULE LeadershipProofs --------------------------
(***************************************************************************)
(* Who leads, for any number of instances and servers: the leader of the   *)
(* proxyd instances in Redis, op-conductor-ops, which moves the leader of  *)
(* a cluster of sequencers, and op-conductor-mon, which shows it.          *)
(***************************************************************************)
EXTENDS ConductorOps, ConsensusTracker, ConductorMonitor, FiniteSetTheorems, NumberProofs, TLAPS

-----------------------------------------------------------------------------
(***************************************************************************)
(* What holds of ConsensusTracker for any number of instances, any states  *)
(* and any expiry, with Redis failing and instances restarting at will.    *)
(***************************************************************************)

(* Type correctness. *)

\* The types hold when the instances start.
LEMMA InitTypeOK == Init => TypeOK
  BY TrackerAssumption DEF Init, TypeOK, Values, State, Zero, Missing, Control

\* One field of a state is replaced by another number.
LEMMA FieldType ==
  ASSUME NEW s \in State, NEW t \in State, NEW tag \in Tags
  PROVE  [s EXCEPT ![tag] = t[tag]] \in State
<1>1. CASE tag = "latest"
  BY <1>1, Zenon DEF State
<1>2. CASE tag = "safe"
  BY <1>2, Zenon DEF State
<1>3. CASE tag = "finalized"
  BY <1>3, Zenon DEF State
<1> QED BY <1>1, <1>2, <1>3, Zenon DEF Tags

\* The state before anything is agreed is a state.
LEMMA ZeroType == Zero \in State
  BY Zenon DEF Zero, State

\* The labels of the copying of a field are labels.
LEMMA LabelType ==
  /\ \A tag \in Tags : CopyOf[tag] \in Control
  /\ Tags \subseteq Control
  BY DEF CopyOf, Tags, Control

\* Returning from the heartbeat keeps the types of what it assigns.
LEMMA ReturnType ==
  ASSUME TypeOK, NEW i \in Instances, Return(i)
  PROVE  /\ pc' \in [Instances -> Control]
         /\ val' \in [Instances -> Values]
         /\ payload' \in [Instances -> State]
  BY TrackerAssumption, ZeroType DEF TypeOK, Return, Goto, Control, Values

\* The steps that read and write the lock.
LEMMA LockTypeOK ==
  ASSUME TypeOK, NEW i \in Instances,
         \/ ReadLock(i) \/ Extend(i) \/ Unlock(i) \/ Lock(i) \/ LockFails(i)
         \/ ReadLockFails(i) \/ ExtendFails(i) \/ UnlockFails(i)
  PROVE  TypeOK'
<1> USE TrackerAssumption DEF TypeOK, redisVars, ghostVars
<1>1. CASE ReadLock(i)
  BY <1>1, Zenon DEF ReadLock, Goto, Control
<1>2. CASE Extend(i) \/ ExtendFails(i)
  BY <1>2, Zenon DEF Extend, ExtendFails, Goto, Control, Tags
<1>3. CASE Unlock(i) \/ UnlockFails(i)
  <2>1. 0 \in Values
    BY DEF Values
  <2>2. leader' \in [Instances -> BOOLEAN]
    BY <1>3, Zenon DEF Unlock, UnlockFails
  <2>3. lock' \in Values /\ lockTTL' \in Nat
    BY <1>3, <2>1 DEF Unlock, UnlockFails
  <2> QED BY <1>3, <2>2, <2>3, ReturnType, Zenon DEF Unlock, UnlockFails
<1>4. CASE Lock(i)
  <2>1. issued' \in Values
    BY <1>4 DEF Lock, Values
  <2> QED BY <1>4, <2>1, Zenon DEF Lock, Goto, Control, Tags
<1>5. CASE LockFails(i)
  <2>1. issued' \in Values /\ lock' \in Values /\ lockTTL' \in Nat
    BY <1>5 DEF LockFails, Values
  <2> QED BY <1>5, <2>1, ReturnType, Zenon DEF LockFails
<1>6. CASE ReadLockFails(i)
  BY <1>6, Zenon DEF ReadLockFails, Goto, Control
<1> QED BY <1>1, <1>2, <1>3, <1>4, <1>5, <1>6, Zenon

\* The steps that read and write the shared state.
LEMMA PayloadTypeOK ==
  ASSUME TypeOK, NEW i \in Instances,
         \/ ReadLeader(i) \/ ReadState(i) \/ Marshal(i) \/ SetState(i)
         \/ SetLeader(i) \/ CopyLocal(i)
         \/ ReadLeaderFails(i) \/ ReadStateFails(i)
         \/ SetStateFails(i) \/ SetLeaderFails(i)
  PROVE  TypeOK'
<1> USE TrackerAssumption DEF TypeOK, redisVars, ghostVars
<1>1. CASE ReadLeader(i) \/ SetLeader(i)
  <2>1. CopyOf["latest"] \in Control
    BY LabelType, Zenon DEF Tags
  <2>2. "readState" \in Control
    BY Zenon DEF Control
  <2> QED BY <1>1, <2>1, <2>2 DEF ReadLeader, SetLeader, Goto
<1>2. CASE ReadLeaderFails(i) \/ ReadStateFails(i) \/ SetLeaderFails(i)
  BY <1>2, ReturnType, Zenon DEF ReadLeaderFails, ReadStateFails, SetLeaderFails
<1>3. CASE ReadState(i)
  <2>1. remote' \in [Instances -> State]
    BY <1>3, Zenon DEF ReadState
  <2> QED BY <1>3, <2>1, ReturnType, Zenon DEF ReadState
<1>4. CASE Marshal(i)
  <2>1. pc' \in [Instances -> Control]
    <3>1. {"latest", "safe", "finalized", "setState"} \subseteq Control
      BY Zenon DEF Control, Tags
    <3> QED BY <1>4, <3>1, Zenon DEF Marshal, Goto, Tags
  <2>2. payload' \in [Instances -> State]
    <3>1. [payload[i] EXCEPT ![pc[i]] = local[i][pc[i]]] \in State
      BY <1>4, FieldType, Zenon DEF Marshal
    <3> QED BY <1>4, <3>1, Zenon DEF Marshal
  <2> QED BY <1>4, <2>1, <2>2, Zenon DEF Marshal
<1>5. CASE SetState(i)
  BY <1>5, Zenon DEF SetState, Goto, Control
<1>6. CASE SetStateFails(i)
  BY <1>6, ReturnType DEF SetStateFails
<1>7. CASE CopyLocal(i)
  <2>1. PICK tag \in Tags :
          /\ remote' = [remote EXCEPT ![i][tag] = local[i][tag]]
          /\ IF tag = "finalized"
               THEN Return(i)
               ELSE /\ Goto(i, CopyOf[IF tag = "latest" THEN "safe" ELSE "finalized"])
                    /\ UNCHANGED <<val, payload>>
          /\ UNCHANGED <<redisVars, ghostVars, leader, redlock, local>>
    BY <1>7, Zenon DEF CopyLocal
  <2>2. [remote[i] EXCEPT ![tag] = local[i][tag]] \in State
    BY FieldType, Zenon
  <2>3. remote' \in [Instances -> State]
    BY <2>1, <2>2, Zenon
  <2>4. CASE tag = "finalized"
    BY <2>1, <2>3, <2>4, ReturnType, Zenon
  <2>5. CASE tag # "finalized"
    <3>1. CopyOf[IF tag = "latest" THEN "safe" ELSE "finalized"] \in Control
      BY LabelType, Zenon DEF Tags
    <3> QED BY <2>1, <2>3, <2>5, <3>1, Zenon DEF Goto
  <2> QED BY <2>4, <2>5, Zenon
<1> QED BY <1>1, <1>2, <1>3, <1>4, <1>5, <1>6, <1>7, Zenon

\* The steps beside the heartbeat keep the types.
LEMMA OtherTypeOK ==
  ASSUME TypeOK,
         \/ Tick \/ UNCHANGED vars
         \/ \E i \in Instances : Restart(i) \/ \E s \in States : PollerWrites(i, s)
  PROVE  TypeOK'
<1> USE TrackerAssumption DEF TypeOK
<1>1. CASE Tick
  <2>1. lock' \in Values /\ lockTTL' \in Nat
    BY <1>1 DEF Tick, Values
  <2>2. postedTTL' \in [Values -> Nat] /\ posted' \in [Values -> State \cup {Missing}]
    BY <1>1 DEF Tick
  <2> QED BY <1>1, <2>1, <2>2, Zenon DEF Tick, ghostVars, procVars
<1>2. CASE UNCHANGED vars
  BY <1>2, Zenon DEF vars, redisVars, ghostVars, procVars
<1>3. ASSUME NEW i \in Instances, Restart(i) PROVE TypeOK'
  <2>1. 0 \in Values
    BY DEF Values
  <2> QED BY <1>3, <2>1, ZeroType, ReturnType DEF Restart, redisVars
<1>4. ASSUME NEW i \in Instances, NEW s \in States, PollerWrites(i, s) PROVE TypeOK'
  BY <1>4 DEF PollerWrites, redisVars
<1> QED BY <1>1, <1>2, <1>3, <1>4, Zenon

\* Every step keeps the types.
LEMMA StepTypeOK == TypeOK /\ [Next]_vars => TypeOK'
  BY LockTypeOK, PayloadTypeOK, OtherTypeOK, Zenon DEF Next, StateHeartbeat, HeartbeatFails

\* Every state of the tracker and of Redis is well typed.
THEOREM TypeCorrect == Spec => []TypeOK
  BY InitTypeOK, StepTypeOK, PTL DEF Spec

-----------------------------------------------------------------------------
(* Who posts under a lock value. *)

Posting == Tags \cup {"setState", "setLeader"}

\* What instance i knows of the lock.  A leader about to extend the lock may
\* have read another value than its own; the lock has then moved on for good,
\* because values are never issued twice, and the extension will fail.
OwnsValues(i) ==
  /\ redlock[i] <= issued
  /\ redlock[i] # 0 => author[redlock[i]] = i
  /\ leader[i] => redlock[i] # 0
  /\ pc[i] = "extend" => leader[i] /\ (lock = redlock[i] => val[i] = redlock[i])
  /\ pc[i] \in Posting => val[i] <= issued /\ author[val[i]] = i

OwnInv == lock <= issued /\ \A i \in Instances : OwnsValues(i)

\* Before anything is posted nothing is posted under another's name.
LEMMA InitOwnInv == Init => OwnInv
  BY DEF Init, OwnInv, OwnsValues, Posting, Tags

\* The types of what the lock and its values are kept in.
LockTypes ==
  /\ lock \in Values /\ issued \in Values
  /\ author \in [Values -> Instances \cup {Nobody}]
  /\ pc \in [Instances -> Control] /\ leader \in [Instances -> BOOLEAN]
  /\ redlock \in [Instances -> Values] /\ val \in [Instances -> Values]

\* A well typed tracker has a well typed lock, before and after a heartbeat's
\* step.
LEMMA TypesOfLock == /\ TypeOK => LockTypes
                     /\ TypeOK' => LockTypes'
  BY Zenon DEF TypeOK, LockTypes

\* A step of another instance, or of Redis, that issues at most one new value
\* and changes the lock only to that value or to none.
LEMMA OthersOwnInv ==
  ASSUME TypeOK, TypeOK', OwnInv, NEW j \in Instances,
         UNCHANGED <<pc[j], leader[j], redlock[j], val[j]>>,
         \/ issued' = issued /\ author' = author /\ lock' \in {lock, 0}
         \/ issued' = issued + 1 /\ lock' = issued' /\ \A v \in 0..issued : author'[v] = author[v]
  PROVE  OwnsValues(j)'
<1> LockTypes /\ LockTypes'
  BY TypesOfLock, Zenon
<1> USE DEF LockTypes, Values, OwnInv, OwnsValues
<1>1. issued' >= issued /\ \A v \in 0..issued : author'[v] = author[v]
  OBVIOUS
<1>2. redlock'[j] <= issued'
  BY <1>1
<1>3. redlock'[j] # 0 => author'[redlock'[j]] = j
  BY <1>1
<1>4. pc'[j] = "extend" => (lock' = redlock'[j] => val'[j] = redlock'[j])
  <2> SUFFICES ASSUME pc[j] = "extend", lock' = redlock[j] PROVE val[j] = redlock[j]
    BY Zenon
  <2>1. leader[j] /\ redlock[j] # 0
    BY Zenon
  <2> QED BY <2>1, <1>1
<1>5. pc'[j] \in Posting => val'[j] <= issued' /\ author'[val'[j]] = j
  BY <1>1
<1>6. /\ leader'[j] => redlock'[j] # 0
      /\ pc'[j] = "extend" => leader'[j]
  BY Zenon
<1> QED BY <1>2, <1>3, <1>4, <1>5, <1>6, Zenon

\* The steps on the lock, seen by the instance that takes them.
LEMMA LockOwnInv ==
  ASSUME TypeOK, TypeOK', OwnInv, NEW i \in Instances,
         \/ ReadLock(i) \/ Extend(i) \/ Unlock(i) \/ Lock(i) \/ LockFails(i)
         \/ ReadLockFails(i) \/ ExtendFails(i) \/ UnlockFails(i)
  PROVE  /\ OwnsValues(i)'
         /\ lock' <= issued'
         /\ \/ issued' = issued /\ author' = author /\ lock' \in {lock, 0}
            \/ /\ issued' = issued + 1 /\ lock' = issued'
               /\ \A v \in 0..issued : author'[v] = author[v]
<1> LockTypes /\ LockTypes'
  BY TypesOfLock, Zenon
<1> USE DEF LockTypes, Values, OwnInv, OwnsValues, redisVars, ghostVars
<1>1. CASE ReadLock(i)
  BY <1>1, Zenon DEF ReadLock, Goto, Posting, Tags
<1>2. CASE Extend(i)
  <2>1. pc[i] = "extend" /\ leader[i] /\ redlock[i] # 0 /\ author[redlock[i]] = i
    BY <1>2, Zenon DEF Extend
  <2>2. CASE lock = redlock[i]
    <3>1. val[i] = redlock[i]
      BY <2>1, <2>2, Zenon
    <3>2. pc'[i] = "latest"
      BY <1>2, <2>2, Zenon DEF Extend, Goto
    <3> QED BY <1>2, <2>1, <3>1, <3>2, Zenon DEF Extend
  <2>3. CASE lock # redlock[i]
    <3>1. pc'[i] = "unlock"
      BY <1>2, <2>3 DEF Extend, Goto
    <3> QED BY <1>2, <2>1, <3>1, Zenon DEF Extend, Posting, Tags
  <2> QED BY <2>2, <2>3, Zenon
<1>3. CASE ExtendFails(i) \/ ReadLockFails(i)
  <2>1. pc'[i] = "unlock"
    BY <1>3, Zenon DEF ExtendFails, ReadLockFails, Goto
  <2> QED BY <1>3, <2>1, Zenon DEF ExtendFails, ReadLockFails, Posting, Tags
<1>4. CASE Unlock(i) \/ UnlockFails(i)
  <2>1. pc'[i] = "idle"
    BY <1>4, Zenon DEF Unlock, UnlockFails, Return, Goto
  <2>2. leader'[i] => leader[i]
    BY <1>4, Zenon DEF Unlock, UnlockFails
  <2> QED BY <1>4, <2>1, <2>2 DEF Unlock, UnlockFails, Posting, Tags
<1>5. CASE Lock(i)
  <2>1. /\ issued' = issued + 1 /\ lock' = issued' /\ issued' \in Values
        /\ redlock'[i] = issued' /\ val'[i] = issued' /\ author'[issued'] = i
        /\ pc'[i] = "latest"
        /\ \A v \in 0..issued : author'[v] = author[v]
    BY <1>5 DEF Lock, Goto
  <2> QED BY <2>1
<1>6. CASE LockFails(i)
  <2>1. pc'[i] = "idle" /\ ~leader'[i]
    BY <1>6 DEF LockFails, Return, Goto
  <2>2. UNCHANGED <<redlock, author>>
    BY <1>6, Zenon DEF LockFails
  <2>3. \/ issued' = issued /\ lock' = lock
        \/ issued' = issued + 1 /\ lock' = issued'
    BY <1>6, Zenon DEF LockFails
  <2> QED BY <2>1, <2>2, <2>3 DEF Posting, Tags
<1> QED BY <1>1, <1>2, <1>3, <1>4, <1>5, <1>6, Zenon

\* The steps on the shared state neither touch the lock nor change a value.
LEMMA PayloadOwnInv ==
  ASSUME TypeOK, TypeOK', OwnInv, NEW i \in Instances,
         \/ ReadLeader(i) \/ ReadState(i) \/ Marshal(i) \/ SetState(i)
         \/ SetLeader(i) \/ CopyLocal(i)
         \/ ReadLeaderFails(i) \/ ReadStateFails(i)
         \/ SetStateFails(i) \/ SetLeaderFails(i)
  PROVE  OwnsValues(i)' /\ UNCHANGED <<lock, issued, author>>
<1>0. DOMAIN pc = Instances /\ DOMAIN leader = Instances
  BY Zenon DEF TypeOK
<1>1. ASSUME UNCHANGED <<lock, issued, author, redlock>>,
             pc'[i] \notin Posting \cup {"extend"}, leader'[i] => leader[i]
      PROVE  OwnsValues(i)'
  BY <1>1, Zenon DEF OwnInv, OwnsValues
<1>2. ASSUME UNCHANGED <<lock, issued, author, redlock, leader, val>>,
             pc[i] \in Posting, pc'[i] # "extend"
      PROVE  OwnsValues(i)'
  BY <1>2, Zenon DEF OwnInv, OwnsValues
<1>3. CASE ReadLeader(i) \/ SetLeader(i) \/ ReadLeaderFails(i) \/ ReadState(i) \/ ReadStateFails(i)
  <2>1. UNCHANGED <<lock, issued, author, redlock, leader>>
    BY <1>3, Zenon DEF ReadLeader, SetLeader, ReadLeaderFails, ReadState, ReadStateFails, redisVars, ghostVars
  <2>2. pc'[i] \in {"readState", "copyLatest", "idle"}
    BY <1>0, <1>3, Zenon DEF ReadLeader, SetLeader, ReadLeaderFails, ReadState, ReadStateFails, Return, Goto, CopyOf
  <2> QED BY <1>1, <2>1, <2>2, Zenon DEF Posting, Tags
<1>4. CASE SetStateFails(i) \/ SetLeaderFails(i)
  <2>1. UNCHANGED <<lock, issued, author, redlock>>
    BY <1>4, Zenon DEF SetStateFails, SetLeaderFails, redisVars, ghostVars
  <2>2. pc'[i] = "idle" /\ ~leader'[i]
    BY <1>0, <1>4, Zenon DEF SetStateFails, SetLeaderFails, Return, Goto
  <2> QED BY <1>1, <2>1, <2>2, Zenon DEF Posting, Tags
<1>5. CASE Marshal(i) \/ SetState(i)
  <2>1. UNCHANGED <<lock, issued, author, redlock, leader, val>>
    BY <1>5, Zenon DEF Marshal, SetState, redisVars, ghostVars
  <2>2. pc[i] \in Posting /\ pc'[i] # "extend"
    BY <1>0, <1>5, Zenon DEF Marshal, SetState, Goto, Posting, Tags
  <2> QED BY <1>2, <2>1, <2>2, Zenon
<1>6. CASE CopyLocal(i)
  <2>1. UNCHANGED <<lock, issued, author, redlock, leader>>
    BY <1>6, Zenon DEF CopyLocal, redisVars, ghostVars
  <2>2. Goto(i, "idle") \/ Goto(i, CopyOf["safe"]) \/ Goto(i, CopyOf["finalized"])
    BY <1>6, Zenon DEF CopyLocal, Return
  <2>3. pc'[i] \in {"idle", "copySafe", "copyFinalized"}
    BY <1>0, <2>2, Zenon DEF Goto, CopyOf
  <2> QED BY <1>1, <2>1, <2>3, Zenon DEF Posting, Tags
<1> QED BY <1>3, <1>4, <1>5, <1>6, Zenon

\* A heartbeat changes nothing that another instance keeps in memory.
LEMMA HeartbeatFrame ==
  ASSUME TypeOK, NEW i \in Instances, NEW j \in Instances \ {i},
         StateHeartbeat(i) \/ HeartbeatFails(i)
  PROVE  UNCHANGED <<pc[j], leader[j], redlock[j], val[j]>>
<1> USE DEF TypeOK
<1>1. CASE \/ ReadLock(i) \/ Extend(i) \/ Unlock(i) \/ Lock(i) \/ LockFails(i)
           \/ ReadLockFails(i) \/ ExtendFails(i) \/ UnlockFails(i)
  BY <1>1, Zenon DEF ReadLock, Extend, Unlock, Lock, LockFails, ReadLockFails, ExtendFails,
              UnlockFails, Return, Goto
<1>2. CASE \/ ReadLeader(i) \/ ReadState(i) \/ Marshal(i) \/ SetState(i)
           \/ SetLeader(i) \/ CopyLocal(i)
           \/ ReadLeaderFails(i) \/ ReadStateFails(i)
           \/ SetStateFails(i) \/ SetLeaderFails(i)
  BY <1>2 DEF ReadLeader, ReadState, Marshal, SetState, SetLeader, CopyLocal,
              ReadLeaderFails, ReadStateFails, SetStateFails, SetLeaderFails, Return, Goto
<1> QED BY <1>1, <1>2, Zenon DEF StateHeartbeat, HeartbeatFails

\* The steps of stateHeartbeat keep what is posted the poster's own.
LEMMA HeartbeatOwnInv ==
  ASSUME TypeOK, TypeOK', OwnInv, NEW i \in Instances,
         StateHeartbeat(i) \/ HeartbeatFails(i)
  PROVE  OwnInv'
<1>1. /\ OwnsValues(i)'
      /\ lock' <= issued'
      /\ \/ issued' = issued /\ author' = author /\ lock' \in {lock, 0}
         \/ /\ issued' = issued + 1 /\ lock' = issued'
            /\ \A v \in 0..issued : author'[v] = author[v]
  <2>1. CASE \/ ReadLock(i) \/ Extend(i) \/ Unlock(i) \/ Lock(i) \/ LockFails(i)
             \/ ReadLockFails(i) \/ ExtendFails(i) \/ UnlockFails(i)
    BY <2>1, LockOwnInv, Zenon
  <2>2. CASE \/ ReadLeader(i) \/ ReadState(i) \/ Marshal(i) \/ SetState(i)
             \/ SetLeader(i) \/ CopyLocal(i)
             \/ ReadLeaderFails(i) \/ ReadStateFails(i)
             \/ SetStateFails(i) \/ SetLeaderFails(i)
    BY <2>2, PayloadOwnInv, Zenon DEF OwnInv
  <2> QED BY <2>1, <2>2, Zenon DEF StateHeartbeat, HeartbeatFails
<1>2. ASSUME NEW j \in Instances \ {i} PROVE OwnsValues(j)'
  BY <1>1, <1>2, HeartbeatFrame, OthersOwnInv, Zenon
<1> QED BY <1>1, <1>2, Zenon DEF OwnInv

\* Every step keeps what is posted the poster's own.
LEMMA StepOwnInv == TypeOK /\ TypeOK' /\ OwnInv /\ [Next]_vars => OwnInv'
<1> SUFFICES ASSUME TypeOK, TypeOK', OwnInv, [Next]_vars PROVE OwnInv'
  BY Zenon
<1>1. ASSUME NEW i \in Instances, StateHeartbeat(i) \/ HeartbeatFails(i) PROVE OwnInv'
  BY <1>1, HeartbeatOwnInv, Zenon
<1>2. CASE \/ Tick \/ UNCHANGED vars
           \/ \E i \in Instances, s \in States : PollerWrites(i, s)
  <2>1. UNCHANGED <<pc, leader, redlock, val, issued, author>> /\ lock' \in {lock, 0}
    BY <1>2, Zenon DEF Tick, PollerWrites, vars, procVars, ghostVars, redisVars
  <2>2. \A j \in Instances : OwnsValues(j)'
    BY <2>1, OthersOwnInv, Zenon
  <2> QED BY <2>1, <2>2 DEF OwnInv, TypeOK, Values
<1>3. ASSUME NEW i \in Instances, Restart(i) PROVE OwnInv'
  <2>1. UNCHANGED <<issued, author, lock>>
    BY <1>3, Zenon DEF Restart, redisVars
  <2>2. OwnsValues(i)'
    <3>1. pc'[i] = "idle" /\ ~leader'[i] /\ redlock'[i] = 0
      BY <1>3, Zenon DEF Restart, Return, Goto, TypeOK
    <3> QED BY <2>1, <3>1 DEF OwnsValues, Posting, Tags, TypeOK, Values
  <2>3. ASSUME NEW j \in Instances \ {i} PROVE OwnsValues(j)'
    <3>1. UNCHANGED <<pc[j], leader[j], redlock[j], val[j]>>
      BY <1>3 DEF Restart, Return, Goto, TypeOK
    <3> QED BY <2>1, <3>1, OthersOwnInv, Zenon
  <2> QED BY <2>1, <2>2, <2>3, Zenon DEF OwnInv
<1> QED BY <1>1, <1>2, <1>3, Zenon DEF Next

\* postPayload writes only under lock values that the instance acquired, with
\* any number of instances, expiries, failing calls and restarts.
THEOREM OwnPosts == Spec => []PostsUnderOwnValue
<1>1. OwnInv => PostsUnderOwnValue
  BY Zenon DEF OwnInv, OwnsValues, PostsUnderOwnValue, Posting
<1> QED BY <1>1, InitTypeOK, StepTypeOK, InitOwnInv, StepOwnInv, PTL DEF Spec

-----------------------------------------------------------------------------
(***************************************************************************)
(* ConductorOps: what a command has read is what was so when it began, as  *)
(* long as no call failed and nothing changed behind it (Calm), which the  *)
(* counters of faults and events tell.                                     *)
(***************************************************************************)

Answers3 == {"true", "false", "None"}
OpsRecord == {"cmd", "id", "force", "pc", "seen", "unread", "i", "leader", "membership", "led", "alone", "before"}
OpsPcs == {"idle", "update", "check", "node", "member", "update again", "remove", "add", "done", "stop", "start"}

\* The leader of the cluster, if it has one, is a voter of it.
OpsTypes ==
  /\ sequencing \subseteq OpsIds
  /\ raftLeader \in OpsIds \cup {""}
  /\ member \in [OpsIds -> {"voter", "nonvoter", "out"}]
  /\ raftLeader # "" => member[raftLeader] = "voter"
  /\ opsFaults \in Nat /\ opsEvents \in Nat
  /\ DOMAIN ops = OpsRecord
  /\ ops.pc \in OpsPcs
  /\ ops.id \in OpsIds \cup {""}
  /\ ops.seen \in [OpsIds -> [OpsFields -> Answers3]]
  /\ ops.unread \subseteq OpsReads
  /\ \E f, e \in Nat : ops.before = <<f, e>> /\ f <= opsFaults /\ e <= opsEvents

\* What was read of a paused sequencer, whenever it was, holds still.
PausedAsSeen ==
  \A s \in OpsIds \ running :
    ops.seen[s]["sequencer_active"] # "None" => (ops.seen[s]["sequencer_active"] = "true" <=> s \in sequencing)

\* What force_active_sequencer relies on.  A conductor it saw paused stays
\* paused, as no other command runs, and a paused conductor leaves its
\* sequencer alone.
AloneInv ==
  /\ ops.pc = "stop" => ops.cmd \in {"halt_sequencer", "force_active_sequencer"}
  /\ ops.pc = "start" => ops.cmd = "force_active_sequencer"
  /\ ops.cmd = "force_active_sequencer" =>
    /\ ops.pc \in {"update", "check", "stop", "start"} /\ ops.id # ""
    /\ \A s \in OpsIds : ops.seen[s]["conductor_active"] = "false" => s \notin running
    /\ ops.pc # "start" => PausedAsSeen
    /\ ops.alone => \A s, t \in sequencing : s = t
    /\ ops.pc \in {"stop", "start"} /\ ~ops.force => AllPaused
    /\ ops.pc = "stop" => find_active_sequencer # ""
    /\ StartsAlone

\* No election was held under this command, and it began with a leader that
\* the config lets vote.
Calm == ops.led /\ ops.before[2] = opsEvents

AsConfigured(j) == member[OpsSeqs[j]] = Suffrage(OpsSeqs[j])
AsAnswered(j) == member[OpsSeqs[j]] = ops.membership[OpsSeqs[j]]
LoopPcs == {"member", "update again", "remove", "add"}

\* Those of the sequencers the loop has passed that are not as configured.
LeftWrong == {j \in DOMAIN OpsSeqs : j < ops.i /\ ~AsConfigured(j)}
FewBehind == Cardinality(LeftWrong) <= opsFaults - ops.before[1]

\* The loop of update_cluster_membership: no more of the sequencers before the
\* one at work differ from the config than calls have failed, and those after
\* it are as the leader answered.
MemberCalm ==
  /\ raftLeader \in VotingIds /\ overridden = {}
  /\ \A s \in OpsIds : ops.seen[s]["conductor_leader"] = "true" => s = raftLeader
  /\ ops.pc \in {"update", "check"} \cup LoopPcs \cup {"done"}
  /\ ops.pc \in LoopPcs =>
       /\ ops.leader = raftLeader
       /\ ops.membership \in [OpsIds -> {"voter", "nonvoter", "out"}]
       /\ FewBehind
       /\ \A j \in DOMAIN OpsSeqs : j > ops.i => AsAnswered(j)
  /\ ops.pc \in LoopPcs \ {"add"} => AsAnswered(ops.i)
  /\ ops.pc \in {"update again", "remove"} => WrongSuffrage(OpsSeqs[ops.i])
  /\ ops.pc = "add" => member[OpsSeqs[ops.i]] \in {"out", Suffrage(OpsSeqs[ops.i])}
  /\ ops.pc = "done" => Cardinality(Misplaced) <= opsFaults - ops.before[1]

MemberPlace ==
  /\ ops.pc \in LoopPcs \cup {"done"} => ops.cmd = "update_cluster_membership"
  /\ ops.pc \in LoopPcs => ops.i \in DOMAIN OpsSeqs
  /\ ops.pc \in {"update", "check"} /\ ops.cmd = "update_cluster_membership" => ops.i = 1

MemberInv == MemberPlace /\ (ops.cmd = "update_cluster_membership" /\ Calm => MemberCalm)

\* A sequence is a function.
LEMMA IsFunction ==
  ASSUME NEW S, NEW q \in Seq(S)
  PROVE q = [i \in DOMAIN q |-> q[i]]
OBVIOUS

\* The positions of a sequence.
LEMMA Positions ==
  ASSUME NEW S, NEW q \in Seq(S)
  PROVE DOMAIN q = 1 .. Len(q) /\ Len(q) \in Nat
OBVIOUS

\* Those of the config.
LEMMA OpsPositions == DOMAIN OpsSeqs = 1 .. Len(OpsSeqs) /\ Len(OpsSeqs) \in Nat
<1>1. OpsSeqs \in Seq(STRING)
  BY OpsAssumption, Zenon
<1> QED
  BY <1>1, Positions, Zenon

\* Cardinality counts the active sequencers.
LEMMA AtMostOne ==
  ASSUME NEW S \in SUBSET OpsIds, Cardinality(S) <= 1
  PROVE \A s, t \in S : s = t
<1>1. IsFiniteSet(DOMAIN OpsSeqs)
  BY OpsPositions, FS_Interval
<1>2. OpsSeqs \in Surjection(DOMAIN OpsSeqs, OpsIds)
  <2>1. OpsSeqs = [i \in DOMAIN OpsSeqs |-> OpsSeqs[i]]
    <3>1. OpsSeqs \in Seq(STRING)
      BY OpsAssumption, Zenon
    <3> QED
      BY <3>1, IsFunction, Zenon
  <2> QED
    BY <2>1, Zenon DEF Surjection, OpsIds
<1>3. IsFiniteSet(OpsIds)
  BY <1>1, <1>2, FS_Surjection, Zenon
<1>4. IsFiniteSet(S) /\ Cardinality(S) \in Nat
  BY <1>3, FS_Subset, FS_CardinalityType, Zenon
<1>5. Cardinality(S) = 0 \/ Cardinality(S) = 1
  BY <1>4
<1>6. S = {} \/ \E x : S = {x}
  BY <1>4, <1>5, FS_EmptySet, FS_Singleton, Zenon
<1> QED
  BY <1>6, Zenon

\* The first sequencer of the config of which a field was read as true.
LEMMA FirstFound ==
  ASSUME NEW field \in OpsFields
  PROVE /\ First(field) = "" => \A s \in OpsIds : ops.seen[s][field] # "true"
        /\ First(field) # "" => First(field) \in OpsIds /\ ops.seen[First(field)][field] = "true"
<1> DEFINE at == {i \in DOMAIN OpsSeqs : ops.seen[OpsSeqs[i]][field] = "true"}
<1> DEFINE f == CHOOSE i \in at : \A j \in at : i <= j
<1>1. at \subseteq Nat
  BY OpsPositions
<1>2. First(field) = IF at = {} THEN "" ELSE OpsSeqs[f]
  BY Zenon DEF First
<1>3. CASE at = {}
  BY <1>2, <1>3, Zenon DEF OpsIds
<1>4. CASE at # {}
  <2> HIDE DEF at
  <2>1. \E i \in at : \A j \in at : i <= j
    BY <1>1, <1>4, Least, Zenon
  <2>2. f \in at
    BY <2>1, Zenon
  <2> QED
    BY <1>2, <1>4, <2>2, OpsAssumption, Zenon DEF OpsIds, at
<1> QED
  BY <1>3, <1>4, Zenon

\* While no call fails and the leader does not move, find_conductor_leader
\* finds it.
LEMMA FoundLeader ==
  ASSUME MemberCalm, find_conductor_leader # ""
  PROVE find_conductor_leader = raftLeader
<1>1. \A s \in OpsIds : ops.seen[s]["conductor_leader"] = "true" => s = raftLeader
  BY Zenon DEF MemberCalm
<1> QED
  BY <1>1, FirstFound, Zenon DEF find_conductor_leader, OpsFields, AskedOfSide

-----------------------------------------------------------------------------
\* The types.
LEMMA NoCommandType ==
  /\ DOMAIN NoCommand = OpsRecord
  /\ NoCommand.cmd = "none" /\ NoCommand.pc = "idle" /\ NoCommand.id = "" /\ NoCommand.unread = {}
  /\ NoCommand.seen \in [OpsIds -> [OpsFields -> Answers3]] /\ NoCommand.i = 1
  /\ \A s \in OpsIds, f \in OpsFields : NoCommand.seen[s][f] = "None"
  /\ NoCommand.before = <<0, 0>>
BY Zenon DEF NoCommand, OpsRecord, Answers3

OpsWorldTypes ==
  /\ sequencing \subseteq OpsIds
  /\ raftLeader \in OpsIds \cup {""}
  /\ member \in [OpsIds -> {"voter", "nonvoter", "out"}]
  /\ raftLeader # "" => member[raftLeader] = "voter"

OpsOwnTypes ==
  /\ opsFaults \in Nat /\ opsEvents \in Nat
  /\ DOMAIN ops = OpsRecord
  /\ ops.pc \in OpsPcs
  /\ ops.id \in OpsIds \cup {""}
  /\ ops.seen \in [OpsIds -> [OpsFields -> Answers3]]
  /\ ops.unread \subseteq OpsReads
  /\ \E f, e \in Nat : ops.before = <<f, e>> /\ f <= opsFaults /\ e <= opsEvents

\* Faults and elections are only counted up.
LEMMA CountedUp ==
  ASSUME OpsTypes, OpsNext
  PROVE /\ opsFaults' \in Nat /\ opsFaults <= opsFaults' /\ opsEvents' \in Nat /\ opsEvents <= opsEvents'
<1>1. \/ opsFaults' = opsFaults
      \/ opsFaults' = opsFaults + 1
  BY Zenon DEF OpsNext, Command, Update, OpsElect, Conduct, transfer_leader, pause_resume, override_leader,
         remove_server, read_membership, compare_suffrage, remove_for_update, add_server, finish,
         preflight, stop_sequencer, start_sequencer, Post, OpsFault, OpsLocal, Remove
<1>2. opsEvents' = opsEvents \/ opsEvents' = opsEvents + 1
  BY Zenon DEF OpsNext, Command, Update, OpsElect, Conduct, transfer_leader, pause_resume, override_leader,
         remove_server, read_membership, compare_suffrage, remove_for_update, add_server, finish,
         preflight, stop_sequencer, start_sequencer, Post, OpsFault, OpsLocal, Remove
<1>4. opsFaults \in Nat /\ opsEvents \in Nat
  BY Zenon DEF OpsTypes
<1>5. opsFaults' \in Nat /\ opsFaults <= opsFaults'
  BY <1>1, <1>4
<1> QED
  BY <1>2, <1>4, <1>5

\* What a command leaves behind, in every step but those that begin one or read.
LEMMA ExitTypes ==
  ASSUME OpsTypes, OpsNext, ops' = NoCommand
  PROVE OpsOwnTypes'
<1>1. \E f, e \in Nat : ops'.before = <<f, e>> /\ f <= opsFaults' /\ e <= opsEvents'
  <2>1. ops'.before = <<0, 0>> /\ 0 \in Nat /\ 0 <= opsFaults' /\ 0 <= opsEvents'
    <3>1. opsFaults' \in Nat /\ opsEvents' \in Nat
      BY CountedUp, Zenon
    <3> QED
      <4>1. ops'.before = <<0, 0>>
        BY NoCommandType, Zenon
      <4> QED
        BY <3>1, <4>1
  <2> QED
    BY <2>1, Zenon
<1> QED
  BY <1>1, NoCommandType, CountedUp, Zenon DEF OpsOwnTypes, OpsPcs

\* What was counted at the start of a command stays at most what is counted
\* now.
LEMMA KeptBefore ==
  ASSUME OpsTypes, OpsNext, ops'.before = ops.before
  PROVE \E f, e \in Nat : ops'.before = <<f, e>> /\ f <= opsFaults' /\ e <= opsEvents'
<1>1. PICK f, e \in Nat : ops.before = <<f, e>> /\ f <= opsFaults /\ e <= opsEvents
  BY Zenon DEF OpsTypes
<1>2. opsFaults \in Nat /\ opsEvents \in Nat
  BY Zenon DEF OpsTypes
<1>3. f <= opsFaults' /\ e <= opsEvents'
  BY <1>1, <1>2, CountedUp
<1> QED
  BY <1>1, <1>3, Zenon

\* The steps that go on within a command.
LEMMA GotoTypes ==
  ASSUME OpsTypes, OpsNext,
         \/ \E p \in OpsPcs : ops' = [ops EXCEPT !.pc = p]
         \/ \E n : ops' = [ops EXCEPT !.i = n]
         \/ \E p \in OpsPcs : \E n : ops' = [ops EXCEPT !.pc = p, !.i = n]
         \/ \E p \in OpsPcs : ops' = [ops EXCEPT !.pc = p, !.unread = OpsReads]
         \/ \E p \in OpsPcs : \E n, m : ops' = [ops EXCEPT !.pc = p, !.leader = n, !.membership = m]
         \/ ops' = ops
  PROVE OpsOwnTypes'
<1>1. /\ DOMAIN ops = OpsRecord /\ ops.pc \in OpsPcs /\ ops.id \in OpsIds \cup {""}
      /\ ops.seen \in [OpsIds -> [OpsFields -> Answers3]] /\ ops.unread \subseteq OpsReads
  BY Zenon DEF OpsTypes
<1>2. /\ DOMAIN ops' = OpsRecord /\ ops'.pc \in OpsPcs /\ ops'.id = ops.id /\ ops'.seen = ops.seen
      /\ ops'.unread \subseteq OpsReads /\ ops'.before = ops.before
  BY <1>1, Zenon DEF OpsRecord
<1> QED
  BY <1>1, <1>2, KeptBefore, CountedUp, Zenon DEF OpsOwnTypes

\* A read is of one side of a sequencer.
LEMMA ReadOf == \A read \in OpsReads : read[1] \in OpsIds /\ read[2] \in {"conductor", "node"}
BY Zenon DEF OpsReads

\* update() of one sequencer: what it reads, and of whom it reads nothing.
LEMMA UpdateEffect ==
  ASSUME OpsTypes, NEW s \in OpsIds, NEW side \in {"conductor", "node"}, Update(s, side)
  PROVE /\ ops.pc \in {"update", "update again"}
        /\ DOMAIN ops' = OpsRecord
        /\ ops'.seen \in [OpsIds -> [OpsFields -> Answers3]]
        /\ \A t \in OpsIds : t # s => ops'.seen[t] = ops.seen[t]
        /\ \E healthy \in BOOLEAN : \A f \in OpsFields :
             ops'.seen[s][f] = Actual(s, healthy)[f] \/ ops'.seen[s][f] = ops.seen[s][f]
        /\ ops'.unread \subseteq ops.unread
        /\ ops'.pc = ops.pc \/ (ops'.pc = IF ops.pc = "update" THEN "check" ELSE "remove")
        /\ ops'.cmd = ops.cmd /\ ops'.id = ops.id /\ ops'.force = ops.force /\ ops'.i = ops.i
        /\ ops'.leader = ops.leader /\ ops'.membership = ops.membership
        /\ ops'.led = ops.led /\ ops'.alone = ops.alone /\ ops'.before = ops.before
        /\ UNCHANGED <<opsWorld, opsEvents>>
<1>1. PICK healthy \in IF s = ops.id /\ ops.cmd = "transfer_leader" THEN BOOLEAN ELSE {TRUE}, lost \in SUBSET AskedOfSide[side] :
        /\ IF lost = {} THEN UNCHANGED opsFaults ELSE OpsFault
        /\ ops' = [ops EXCEPT
          !.seen[s] = [f \in OpsFields |-> IF f \in AskedOfSide[side] \ lost THEN Actual(s, healthy)[f] ELSE @[f]],
          !.unread = @ \ {<<s, side>>},
          !.pc = IF ops.unread # {<<s, side>>} THEN @ ELSE IF @ = "update" THEN "check" ELSE "remove"]
  BY Zenon DEF Update
<1>0. healthy \in BOOLEAN
  BY <1>1, Zenon
<1> DEFINE read == AskedOfSide[side] \ lost
<1> DEFINE row == [f \in OpsFields |-> IF f \in read THEN Actual(s, healthy)[f] ELSE ops.seen[s][f]]
<1> DEFINE table == [ops.seen EXCEPT ![s] = row]
<1> DEFINE step == IF ops.unread # {<<s, side>>} THEN ops.pc ELSE IF ops.pc = "update" THEN "check" ELSE "remove"
<1> DEFINE left == ops.unread \ {<<s, side>>}
<1>2. ops' = [ops EXCEPT !.seen = table, !.unread = left, !.pc = step]
  BY <1>1, Zenon
<1>3. DOMAIN ops = OpsRecord /\ ops.seen \in [OpsIds -> [OpsFields -> Answers3]]
  BY Zenon DEF OpsTypes
<1> HIDE DEF read, row, table, step, left
<1>4. /\ DOMAIN ops' = OpsRecord /\ ops'.seen = table /\ ops'.unread = left /\ ops'.pc = step
      /\ ops'.cmd = ops.cmd /\ ops'.id = ops.id /\ ops'.force = ops.force /\ ops'.i = ops.i
      /\ ops'.leader = ops.leader /\ ops'.membership = ops.membership
      /\ ops'.led = ops.led /\ ops'.alone = ops.alone /\ ops'.before = ops.before
  BY <1>2, <1>3, Zenon DEF OpsRecord
<1>5. \A f \in OpsFields : Actual(s, healthy)[f] \in Answers3
  BY DEF Actual, OpsFields, AskedOfSide, Answers3, Json
<1>6. row \in [OpsFields -> Answers3]
  BY <1>3, <1>5, Zenon DEF row
<1>7. table \in [OpsIds -> [OpsFields -> Answers3]] /\ table[s] = row /\ \A t \in OpsIds : t # s => table[t] = ops.seen[t]
  BY <1>3, <1>6, Zenon DEF table
<1>8. \A f \in OpsFields : row[f] = Actual(s, healthy)[f] \/ row[f] = ops.seen[s][f]
  BY Zenon DEF row
<1>9. ops.pc \in {"update", "update again"} /\ UNCHANGED <<opsWorld, opsEvents>>
  BY Zenon DEF Update
<1>10. \E h \in BOOLEAN : \A f \in OpsFields : ops'.seen[s][f] = Actual(s, h)[f] \/ ops'.seen[s][f] = ops.seen[s][f]
  BY <1>0, <1>4, <1>7, <1>8, Zenon
<1> QED
  BY <1>4, <1>7, <1>9, <1>10, Zenon DEF left, step

\* The command at work keeps its types.
LEMMA OwnTypesStep ==
  ASSUME OpsTypes, OpsNext
  PROVE OpsOwnTypes'
<1> USE DEF Exit, OpsGoto, OpsPcs
<1>1. ASSUME NEW line \in CommandLines, Command(line) PROVE OpsOwnTypes'
  <2>1. line[2] \in OpsIds \cup {""}
    BY Zenon DEF CommandLines
  <2> DEFINE led == raftLeader \in VotingIds /\ overridden = {}
  <2> DEFINE alone == Cardinality(sequencing) <= 1
  <2> HIDE DEF led, alone
  <2>2. ops' = [NoCommand EXCEPT !.cmd = line[1], !.id = line[2], !.force = line[3], !.pc = "update", !.unread = OpsReads,
                                 !.led = led, !.alone = alone, !.before = <<opsFaults, opsEvents>>]
    BY <1>1, Zenon DEF Command, led, alone
  <2>3. /\ DOMAIN ops' = OpsRecord /\ ops'.pc = "update" /\ ops'.id = line[2] /\ ops'.unread = OpsReads
        /\ ops'.seen = NoCommand.seen /\ ops'.before = <<opsFaults, opsEvents>>
    BY <2>2, NoCommandType, Zenon DEF OpsRecord
  <2>4. opsFaults' = opsFaults /\ opsEvents' = opsEvents /\ opsFaults \in Nat /\ opsEvents \in Nat
    BY <1>1, Zenon DEF Command, OpsTypes
  <2>5. opsFaults <= opsFaults /\ opsEvents <= opsEvents
    BY <2>4
  <2>6. \E f, e \in Nat : ops'.before = <<f, e>> /\ f <= opsFaults' /\ e <= opsEvents'
    BY <2>3, <2>4, <2>5, Zenon
  <2>7. ops'.seen \in [OpsIds -> [OpsFields -> Answers3]]
    BY <2>3, NoCommandType, Zenon
  <2> QED
    BY <2>1, <2>3, <2>4, <2>6, <2>7, Zenon DEF OpsOwnTypes
<1>2. ASSUME NEW s \in OpsIds, NEW side \in {"conductor", "node"}, Update(s, side) PROVE OpsOwnTypes'
  <2>1. /\ DOMAIN ops' = OpsRecord /\ ops'.pc \in OpsPcs /\ ops'.id = ops.id /\ ops'.before = ops.before
        /\ ops'.seen \in [OpsIds -> [OpsFields -> Answers3]] /\ ops'.unread \subseteq ops.unread
    BY <1>2, UpdateEffect, Zenon
  <2> QED
    BY <2>1, KeptBefore, CountedUp, Zenon DEF OpsOwnTypes, OpsTypes
<1>3. ASSUME NEW s \in OpsIds, OpsElect(s) \/ Conduct(s) PROVE OpsOwnTypes'
  BY <1>3, GotoTypes, Zenon DEF OpsElect, Conduct
<1>4. CASE transfer_leader \/ remove_server \/ start_sequencer \/ finish
  BY <1>4, ExitTypes, Zenon DEF transfer_leader, remove_server, start_sequencer, finish, Remove, Post
<1>5. CASE pause_resume
  <2>1. ops' = NoCommand \/ \E n : ops' = [ops EXCEPT !.i = n]
    BY <1>5, Zenon DEF pause_resume, Post, Advance
  <2> QED
    BY <2>1, ExitTypes, GotoTypes, Zenon
<1>6. CASE override_leader \/ stop_sequencer \/ preflight \/ remove_for_update
  <2>1. ops' = NoCommand \/ \E p \in OpsPcs : ops' = [ops EXCEPT !.pc = p]
    BY <1>6, Zenon DEF override_leader, stop_sequencer, preflight, remove_for_update, Remove, Post
  <2> QED
    BY <2>1, ExitTypes, GotoTypes, Zenon
<1>7. CASE read_membership
  <2>1. ops' = NoCommand \/ \E p \in OpsPcs : \E n, m : ops' = [ops EXCEPT !.pc = p, !.leader = n, !.membership = m]
    BY <1>7, Zenon DEF read_membership
  <2> QED
    BY <2>1, ExitTypes, GotoTypes, Zenon
<1>8. CASE compare_suffrage
  <2>1. \/ \E p \in OpsPcs : ops' = [ops EXCEPT !.pc = p, !.unread = OpsReads]
        \/ \E p \in OpsPcs : ops' = [ops EXCEPT !.pc = p]
    BY <1>8, Zenon DEF compare_suffrage
  <2> QED
    BY <2>1, GotoTypes, Zenon
<1>9. CASE add_server
  <2>1. \/ ops' = NoCommand
        \/ \E p \in OpsPcs : ops' = [ops EXCEPT !.pc = p]
        \/ \E p \in OpsPcs : \E n : ops' = [ops EXCEPT !.pc = p, !.i = n]
    BY <1>9, Zenon DEF add_server, Post, NextMember
  <2> QED
    BY <2>1, ExitTypes, GotoTypes, Zenon
<1> QED
  BY <1>1, <1>2, <1>3, <1>4, <1>5, <1>6, <1>7, <1>8, <1>9, ReadOf, Zenon DEF OpsNext

\* The cluster keeps a leader that votes.
LEMMA WorldTypesStep ==
  ASSUME OpsTypes, AloneInv, MemberInv, OpsNext
  PROVE OpsWorldTypes'
<1>1. CASE UNCHANGED opsWorld
  BY <1>1, Zenon DEF opsWorld, OpsTypes, OpsWorldTypes
<1>2. ASSUME NEW s \in OpsIds, OpsElect(s) \/ Conduct(s) PROVE OpsWorldTypes'
  BY <1>2, Zenon DEF OpsElect, Conduct, OpsTypes, OpsWorldTypes
<1>3. CASE transfer_leader
  <2>1. CASE UNCHANGED opsWorld
    BY <1>1, <2>1, Zenon
  <2>2. CASE /\ member[ops.id] = "voter" /\ find_conductor_leader # "" /\ ops.id \in VotingIds
             /\ raftLeader' = ops.id /\ UNCHANGED <<running, member, overridden, sequencing>>
    <3>1. ops.id \in OpsIds
      BY <2>2, OpsAssumption, Zenon DEF OpsIds
    <3> QED
      BY <2>2, <3>1, Zenon DEF OpsTypes, OpsWorldTypes
  <2> QED
    BY <1>3, <2>1, <2>2, Zenon DEF transfer_leader, Post, OpsLocal
<1>4. CASE pause_resume \/ override_leader
  BY <1>4, Zenon DEF pause_resume, override_leader, Post, Override, opsWorld, OpsTypes, OpsWorldTypes
<1>5. CASE remove_server \/ remove_for_update
  <2>1. \/ UNCHANGED opsWorld
        \/ \E s : /\ member' = [member EXCEPT ![s] = "out"]
                  /\ raftLeader' = IF raftLeader = s THEN "" ELSE raftLeader
                  /\ sequencing' = sequencing
    BY <1>5, Zenon DEF remove_server, remove_for_update, Remove, Post, OpsLocal
  <2>2. ASSUME NEW s, member' = [member EXCEPT ![s] = "out"],
                  raftLeader' = IF raftLeader = s THEN "" ELSE raftLeader, sequencing' = sequencing
        PROVE OpsWorldTypes'
    BY <2>2, Zenon DEF OpsTypes, OpsWorldTypes
  <2> QED
    BY <1>1, <2>1, <2>2, Zenon
<1>6. CASE add_server
  <2>1. \/ UNCHANGED opsWorld
        \/ \E s : /\ member' = [member EXCEPT ![s] = IF member[s] = "voter" THEN member[s] ELSE Suffrage(s)]
                  /\ raftLeader' = raftLeader /\ sequencing' = sequencing
    BY <1>6, Zenon DEF add_server, Post
  <2>2. ASSUME NEW s, member' = [member EXCEPT ![s] = IF member[s] = "voter" THEN member[s] ELSE Suffrage(s)],
                  raftLeader' = raftLeader, sequencing' = sequencing
        PROVE OpsWorldTypes'
    <3>1. Suffrage(s) \in {"voter", "nonvoter", "out"}
      BY Zenon DEF Suffrage
    <3> QED
      BY <2>2, <3>1, Zenon DEF OpsTypes, OpsWorldTypes
  <2> QED
    BY <1>1, <2>1, <2>2, Zenon
<1>7. CASE stop_sequencer
  BY <1>7, Zenon DEF stop_sequencer, Post, opsWorld, OpsTypes, OpsWorldTypes
<1>8. CASE start_sequencer
  <2>1. ops.id \in OpsIds
    BY <1>8, Zenon DEF start_sequencer, AloneInv, OpsTypes
  <2> QED
    BY <1>8, <2>1, Zenon DEF start_sequencer, Post, opsWorld, OpsTypes, OpsWorldTypes
<1>9. CASE \/ \E line \in CommandLines : Command(line)
           \/ \E read \in OpsReads : Update(read[1], read[2])
           \/ read_membership \/ compare_suffrage \/ finish \/ preflight
  BY <1>1, <1>9, Zenon DEF Command, Update, read_membership, compare_suffrage, finish, preflight, OpsLocal
<1> QED
  BY <1>2, <1>3, <1>4, <1>5, <1>6, <1>7, <1>8, <1>9 DEF OpsNext

\* Every step keeps the types.
LEMMA OpsTypesStep ==
  ASSUME OpsTypes, AloneInv, MemberInv, OpsNext
  PROVE OpsTypes'
BY WorldTypesStep, OwnTypesStep, Zenon DEF OpsTypes, OpsOwnTypes, OpsWorldTypes

-----------------------------------------------------------------------------
\* Fields that a step of force_active_sequencer leaves alone.
SameRead == /\ ops'.cmd = ops.cmd /\ ops'.id = ops.id /\ ops'.force = ops.force /\ ops'.seen = ops.seen
            /\ ops'.unread = ops.unread /\ ops'.alone = ops.alone

\* The first sequencer with an answer is the same while nothing is read.
LEMMA FirstSame ==
  ASSUME NEW field, ops'.seen = ops.seen
  PROVE First(field)' = First(field)
<1> DEFINE at == {i \in DOMAIN OpsSeqs : ops.seen[OpsSeqs[i]][field] = "true"}
<1> DEFINE atNext == {i \in DOMAIN OpsSeqs : ops'.seen[OpsSeqs[i]][field] = "true"}
<1> DEFINE first(x) == IF x = {} THEN "" ELSE OpsSeqs[CHOOSE i \in x : \A j \in x : i <= j]
<1>1. First(field) = first(at) /\ First(field)' = first(atNext)
  BY Zenon DEF First
<1>2. at = atNext
  BY Zenon
<1> HIDE DEF at, atNext, first
<1> QED
  BY <1>1, <1>2, Zenon

\* A step that only goes on keeps what was read.
LEMMA PcOnly ==
  ASSUME OpsTypes, NEW p, ops' = [ops EXCEPT !.pc = p]
  PROVE SameRead /\ ops'.pc = p
BY Zenon DEF OpsTypes, OpsRecord, SameRead

\* Paused conductors that were read.
LEMMA PausedSeen ==
  ASSUME OpsTypes, AllPaused, ReadAll, NEW s \in OpsIds
  PROVE ops.seen[s]["conductor_active"] = "false"
        /\ ops.seen[s]["sequencer_active"] \in {"true", "false"}
<1>1. /\ ops.seen[s]["conductor_active"] \in Answers3 /\ ops.seen[s]["sequencer_active"] \in Answers3
      /\ ops.seen[s]["conductor_active"] # "None" /\ ops.seen[s]["sequencer_active"] # "None"
  BY Zenon DEF OpsTypes, OpsFields, AskedOfSide, ReadAll
<1>2. ops.seen[s]["conductor_active"] # "true"
  BY Zenon DEF AllPaused
<1> QED
  BY <1>1, <1>2, Zenon DEF Answers3

\* A command is typed.
LEMMA CommandAlone ==
  ASSUME OpsTypes, NEW line \in CommandLines, Command(line)
  PROVE AloneInv'
<1> DEFINE led == raftLeader \in VotingIds /\ overridden = {}
<1> DEFINE alone == Cardinality(sequencing) <= 1
<1>1. alone => \A s, t \in sequencing : s = t
  BY AtMostOne, Zenon DEF OpsTypes
<1> HIDE DEF led, alone
<1>2. ops' = [NoCommand EXCEPT !.cmd = line[1], !.id = line[2], !.force = line[3], !.pc = "update", !.unread = OpsReads,
                               !.led = led, !.alone = alone, !.before = <<opsFaults, opsEvents>>]
  BY Zenon DEF Command, led, alone
<1>3. /\ ops'.cmd = line[1] /\ ops'.id = line[2] /\ ops'.pc = "update" /\ ops'.unread = OpsReads
      /\ ops'.seen = NoCommand.seen
  BY <1>2, NoCommandType, Zenon DEF OpsRecord
<1>4. ops'.alone = alone
  BY <1>2, NoCommandType, Zenon DEF OpsRecord
<1>5. line[1] = "force_active_sequencer" => line[2] # ""
  BY OpsAssumption, Zenon DEF CommandLines, OpsIds
<1>6. \A s \in OpsIds, f \in OpsFields : ops'.seen[s][f] = "None"
  <2>1. \A s \in OpsIds, f \in OpsFields : NoCommand.seen[s][f] = "None"
    BY NoCommandType, Zenon
  <2> QED
    BY <1>3, <2>1
<1>7. sequencing' = sequencing
  BY Zenon DEF Command, opsWorld
<1>8. ops'.alone => \A s, t \in sequencing' : s = t
  BY <1>1, <1>4, <1>7, Zenon
<1> QED
  BY <1>3, <1>5, <1>6, <1>8, Zenon DEF AloneInv, PausedAsSeen, StartsAlone, OpsFields, AskedOfSide

\* The conductors act on their own: only those that run.
LEMMA ConductAlone ==
  ASSUME OpsTypes, AloneInv, NEW s \in OpsIds, Conduct(s)
  PROVE AloneInv'
<1>1. /\ s \in running /\ UNCHANGED <<running, ops>>
      /\ (sequencing = {} /\ sequencing' = {s}) \/ sequencing' = sequencing \ {s}
  BY Zenon DEF Conduct
<1>2. CASE ops.cmd # "force_active_sequencer"
  BY <1>1, <1>2, Zenon DEF AloneInv
<1>3. CASE ops.cmd = "force_active_sequencer"
  <2>1. \A t \in OpsIds : ops.seen[t]["conductor_active"] = "false" => t \notin running
    BY <1>3, Zenon DEF AloneInv
  <2>2. ops.pc # "start" => PausedAsSeen'
    <3>1. \A t \in OpsIds \ running : t \in sequencing' <=> t \in sequencing
      BY <1>1, Zenon
    <3> QED
      BY <1>1, <1>3, <3>1, Zenon DEF AloneInv, PausedAsSeen
  <2>3. (\A t, u \in sequencing : t = u) => (\A t, u \in sequencing' : t = u)
    BY <1>1, Zenon
  <2>4. StartsAlone'
    <3> SUFFICES ASSUME ops.pc = "start", ~ops.force, ReadAll, ops.alone PROVE FALSE
      BY <1>1, Zenon DEF StartsAlone, ReadAll
    <3>1. AllPaused
      BY <1>3, Zenon DEF AloneInv
    <3> QED
      BY <1>1, <2>1, <3>1, PausedSeen, Zenon
  <2> QED
    BY <1>1, <1>3, <2>1, <2>2, <2>3, <2>4, FirstSame, Zenon DEF AloneInv, AllPaused, find_active_sequencer
<1> QED
  BY <1>2, <1>3, Zenon

\* A sequencer is read.
LEMMA UpdateAlone ==
  ASSUME OpsTypes, AloneInv, NEW s \in OpsIds, NEW side \in {"conductor", "node"}, Update(s, side)
  PROVE AloneInv'
<1>1. /\ ops'.cmd = ops.cmd /\ ops'.id = ops.id /\ ops'.alone = ops.alone
      /\ ops.pc \in {"update", "update again"}
      /\ ops'.pc \in {"update", "update again", "check", "remove"}
      /\ ops.pc = "update" => ops'.pc \in {"update", "check"}
      /\ UNCHANGED <<running, sequencing>>
      /\ \A t \in OpsIds : t # s => ops'.seen[t] = ops.seen[t]
  BY UpdateEffect, Zenon DEF opsWorld
<1>2. CASE ops.cmd # "force_active_sequencer"
  BY <1>1, <1>2, Zenon DEF AloneInv
<1>3. CASE ops.cmd = "force_active_sequencer"
  <2>1. ops.pc = "update"
    BY <1>1, <1>3, Zenon DEF AloneInv
  <2>2. PICK healthy \in BOOLEAN :
          \A f \in OpsFields : ops'.seen[s][f] = Actual(s, healthy)[f] \/ ops'.seen[s][f] = ops.seen[s][f]
    BY UpdateEffect, Zenon
  <2>3. /\ Actual(s, healthy)["conductor_active"] = Json(s \in running)
        /\ Actual(s, healthy)["sequencer_active"] = Json(s \in sequencing)
    BY Zenon DEF Actual
  <2>4. /\ \A t \in OpsIds : ops.seen[t]["conductor_active"] = "false" => t \notin running
        /\ \A t \in OpsIds \ running :
             ops.seen[t]["sequencer_active"] # "None" => (ops.seen[t]["sequencer_active"] = "true" <=> t \in sequencing)
    BY <1>3, <2>1, Zenon DEF AloneInv, PausedAsSeen
  <2>5. ops'.seen[s]["conductor_active"] = "false" => s \notin running
    BY <2>2, <2>3, <2>4, Zenon DEF Json, OpsFields, AskedOfSide
  <2>6. s \notin running /\ ops'.seen[s]["sequencer_active"] # "None"
          => (ops'.seen[s]["sequencer_active"] = "true" <=> s \in sequencing)
    BY <2>2, <2>3, <2>4, Zenon DEF Json, OpsFields, AskedOfSide
  <2>7. ops'.id # "" /\ ops'.pc \in {"update", "check"} /\ (ops'.alone => \A t, u \in sequencing' : t = u)
    BY <1>1, <1>3, <2>1, Zenon DEF AloneInv
  <2>8. \A t \in OpsIds : ops'.seen[t]["conductor_active"] = "false" => t \notin running'
    BY <1>1, <2>4, <2>5, Zenon
  <2>9. PausedAsSeen'
    BY <1>1, <2>4, <2>6, Zenon DEF PausedAsSeen
  <2> QED
    BY <1>1, <1>3, <2>7, <2>8, <2>9, Zenon DEF AloneInv, StartsAlone
<1> QED
  BY <1>2, <1>3, Zenon

\* preflight, with every conductor seen paused: nobody is active, or the one
\* that is gets stopped.
LEMMA PreflightAlone ==
  ASSUME OpsTypes, AloneInv, preflight
  PROVE AloneInv'
<1>1. /\ ops.pc = "check" /\ UNCHANGED <<running, sequencing>>
      /\ \/ ops' = NoCommand
         \/ /\ AllPaused \/ ops.force
            /\ ops.cmd \in {"halt_sequencer", "force_active_sequencer"}
            /\ \/ find_active_sequencer # "" /\ ops' = [ops EXCEPT !.pc = "stop"]
               \/ /\ ops.cmd = "force_active_sequencer" /\ find_active_sequencer = ""
                  /\ ops' = [ops EXCEPT !.pc = "start"]
  BY Zenon DEF preflight, OpsGoto, Exit, OpsLocal, opsWorld
<1>2. CASE ops' = NoCommand
  BY <1>2, NoCommandType, Zenon DEF AloneInv
<1>3. CASE ops' # NoCommand
  <2>1. /\ SameRead /\ ops'.pc \in {"stop", "start"}
        /\ ops'.pc = "stop" => find_active_sequencer # ""
        /\ ops'.pc = "start" => ops.cmd = "force_active_sequencer" /\ find_active_sequencer = ""
        /\ ops.cmd \in {"halt_sequencer", "force_active_sequencer"}
        /\ ~ops.force => AllPaused
    BY <1>1, <1>3, PcOnly, Zenon
  <2>2. CASE ops.cmd = "halt_sequencer"
    BY <2>1, <2>2, Zenon DEF AloneInv, SameRead
  <2>3. CASE ops.cmd = "force_active_sequencer"
    <3>1. /\ \A s \in OpsIds : ops.seen[s]["conductor_active"] = "false" => s \notin running
          /\ PausedAsSeen
      BY <1>1, <2>3, Zenon DEF AloneInv
    <3>2. StartsAlone'
      <4> SUFFICES ASSUME ops'.pc = "start", ~ops.force, ReadAll PROVE sequencing = {}
        BY <1>1, <2>1, Zenon DEF StartsAlone, ReadAll, SameRead
      <4>1. \A s \in OpsIds : ops.seen[s]["sequencer_active"] # "true"
        BY <2>1, FirstFound, Zenon DEF find_active_sequencer, OpsFields, AskedOfSide
      <4>2. \A s \in OpsIds : s \notin sequencing
        BY <2>1, <3>1, <4>1, PausedSeen, Zenon DEF PausedAsSeen
      <4> QED
        BY <4>2, Zenon DEF OpsTypes
    <3>3. (AllPaused => AllPaused') /\ find_active_sequencer' = find_active_sequencer
      BY <2>1, FirstSame, Zenon DEF AllPaused, find_active_sequencer, SameRead
    <3>4. /\ ops'.id # ""
          /\ ops'.alone => \A s, t \in sequencing' : s = t
      <4>1. /\ ops.id # ""
            /\ ops.alone => \A s, t \in sequencing : s = t
        BY <2>3, Zenon DEF AloneInv
      <4>2. sequencing' = sequencing
        BY <1>1, Zenon
      <4> QED
        BY <2>1, <4>1, <4>2, Zenon DEF SameRead
    <3>5. ~ops'.force => AllPaused'
      BY <2>1, <3>3, Zenon DEF SameRead
    <3>6. /\ \A s \in OpsIds : ops'.seen[s]["conductor_active"] = "false" => s \notin running'
          /\ PausedAsSeen'
      BY <1>1, <2>1, <3>1, Zenon DEF SameRead, PausedAsSeen
    <3> QED
      BY <2>1, <2>3, <3>2, <3>3, <3>4, <3>5, <3>6, Zenon DEF AloneInv, SameRead
  <2> QED
    BY <2>1, <2>2, <2>3, Zenon
<1> QED
  BY <1>2, <1>3, Zenon

\* The one that was found is stopped, or the command ends.
LEMMA StopAlone ==
  ASSUME OpsTypes, AloneInv, stop_sequencer
  PROVE AloneInv'
<1>1. /\ ops.pc = "stop"
      /\ \/ ops' = NoCommand
         \/ /\ ops.cmd # "halt_sequencer" /\ ops' = [ops EXCEPT !.pc = "start"]
            /\ sequencing' = sequencing \ {find_active_sequencer} /\ running' = running
  BY Zenon DEF stop_sequencer, Post, OpsGoto, Exit
<1>2. CASE ops' = NoCommand
  BY <1>2, NoCommandType, Zenon DEF AloneInv
<1>3. CASE ops' # NoCommand
  <2>1. /\ SameRead /\ ops'.pc = "start" /\ ops.cmd = "force_active_sequencer"
        /\ sequencing' = sequencing \ {find_active_sequencer} /\ running' = running
    BY <1>1, <1>3, PcOnly, Zenon DEF AloneInv
  <2>2. StartsAlone'
    <3> SUFFICES ASSUME ~ops.force, ReadAll, ops.alone PROVE sequencing \subseteq {find_active_sequencer}
      BY <2>1, Zenon DEF StartsAlone, ReadAll, SameRead
    <3>1. AllPaused /\ find_active_sequencer # ""
      BY <1>1, <2>1, Zenon DEF AloneInv
    <3>2. find_active_sequencer \in OpsIds /\ ops.seen[find_active_sequencer]["sequencer_active"] = "true"
      BY <3>1, FirstFound, Zenon DEF find_active_sequencer, OpsFields, AskedOfSide
    <3>3. find_active_sequencer \in sequencing
      BY <1>1, <2>1, <3>1, <3>2, PausedSeen, Zenon DEF AloneInv, PausedAsSeen
    <3> QED
      BY <2>1, <3>3, Zenon DEF AloneInv
  <2>3. AllPaused => AllPaused'
    BY <2>1, Zenon DEF AllPaused, SameRead
  <2>4. /\ ops'.id # ""
        /\ ops'.alone => \A s, t \in sequencing' : s = t
    <3>1. /\ ops.id # ""
          /\ ops.alone => \A s, t \in sequencing : s = t
      BY <2>1, Zenon DEF AloneInv
    <3>2. ops'.id = ops.id /\ ops'.unread = ops.unread /\ ops'.seen = ops.seen /\ ops'.alone = ops.alone
      BY <2>1, Zenon DEF SameRead
    <3>3. sequencing' \subseteq sequencing
      BY <2>1, Zenon
    <3> QED
      BY <3>1, <3>2, <3>3, Zenon
  <2>5. ~ops'.force => AllPaused'
    BY <1>1, <2>1, <2>3, Zenon DEF AloneInv, SameRead
  <2>6. \A s \in OpsIds : ops'.seen[s]["conductor_active"] = "false" => s \notin running'
    BY <2>1, Zenon DEF AloneInv, SameRead
  <2> QED
    BY <2>1, <2>2, <2>4, <2>5, <2>6, Zenon DEF AloneInv, SameRead
<1> QED
  BY <1>2, <1>3, Zenon

\* Every step keeps that a sequencer is started when no other was active.
LEMMA AloneStep ==
  ASSUME OpsTypes, AloneInv, OpsNext
  PROVE AloneInv'
<1> USE DEF OpsGoto, Exit
<1>1. CASE ops' = NoCommand
  BY <1>1, NoCommandType, Zenon DEF AloneInv
<1>2. CASE ops.cmd # "force_active_sequencer" /\ ops'.cmd = ops.cmd /\ ops'.pc \notin {"stop", "start"}
  BY <1>2, Zenon DEF AloneInv
<1>3. ASSUME NEW s \in OpsIds, OpsElect(s) PROVE AloneInv'
  BY <1>3, FirstSame, Zenon DEF OpsElect, AloneInv, PausedAsSeen, StartsAlone, ReadAll, AllPaused, find_active_sequencer
<1>4. CASE transfer_leader \/ remove_server \/ start_sequencer \/ finish
  BY <1>1, <1>4, Zenon DEF transfer_leader, remove_server, start_sequencer, finish, Remove, Post
<1>5. DOMAIN ops = OpsRecord
  BY Zenon DEF OpsTypes
<1>6. CASE pause_resume
  <2>1. /\ ops.pc = "check" /\ ops.cmd \in {"pause", "resume"}
        /\ ops' = NoCommand \/ \E n : ops' = [ops EXCEPT !.i = n]
    BY <1>6, Zenon DEF pause_resume, Post, Advance
  <2>2. ops' = NoCommand \/ (ops'.cmd = ops.cmd /\ ops'.pc = "check")
    BY <1>5, <2>1, Zenon DEF OpsRecord
  <2> QED
    BY <1>1, <1>2, <2>1, <2>2, Zenon
<1>7. CASE override_leader
  <2>1. /\ ops.cmd \in {"override_leader", "remove_override"}
        /\ ops' = NoCommand \/ ops' = [ops EXCEPT !.pc = "node"]
    BY <1>7, Zenon DEF override_leader, Post
  <2>2. ops' = NoCommand \/ (ops'.cmd = ops.cmd /\ ops'.pc = "node")
    BY <2>1, PcOnly, Zenon DEF SameRead
  <2> QED
    BY <1>1, <1>2, <2>1, <2>2, Zenon
<1>8. CASE read_membership
  <2>1. /\ ops.cmd = "update_cluster_membership"
        /\ ops' = NoCommand \/ \E n, m : ops' = [ops EXCEPT !.pc = "member", !.leader = n, !.membership = m]
    BY <1>8, Zenon DEF read_membership
  <2>2. ops' = NoCommand \/ (ops'.cmd = ops.cmd /\ ops'.pc = "member")
    BY <1>5, <2>1, Zenon DEF OpsRecord
  <2> QED
    BY <1>1, <1>2, <2>1, <2>2, Zenon
<1>9. CASE compare_suffrage \/ remove_for_update \/ add_server
  <2>1. /\ ops.pc \in LoopPcs
        /\ \/ ops' = NoCommand
           \/ ops' = [ops EXCEPT !.pc = "update again", !.unread = OpsReads]
           \/ \E p \in {"add", "done"} : ops' = [ops EXCEPT !.pc = p]
           \/ \E n : ops' = [ops EXCEPT !.pc = "member", !.i = n]
    BY <1>9, Zenon DEF compare_suffrage, remove_for_update, add_server, Remove, Post, NextMember, LoopPcs
  <2>2. ops.cmd # "force_active_sequencer"
    BY <2>1, Zenon DEF AloneInv, LoopPcs
  <2>3. ops' = NoCommand \/ (ops'.cmd = ops.cmd /\ ops'.pc \notin {"stop", "start"})
    BY <1>5, <2>1, Zenon DEF OpsRecord
  <2> QED
    BY <1>1, <1>2, <2>2, <2>3, Zenon
<1> QED
  BY <1>3, <1>4, <1>6, <1>7, <1>8, <1>9, CommandAlone, ConductAlone, UpdateAlone, PreflightAlone, StopAlone, ReadOf, Zenon DEF OpsNext

-----------------------------------------------------------------------------
\* The parts of a pair.
LEMMA PairOf ==
  ASSUME NEW b, NEW f, NEW e, b = <<f, e>>
  PROVE b[1] = f /\ b[2] = e
OBVIOUS

\* A count is not below what it was.
LEMMA Counted ==
  ASSUME NEW n \in Nat, NEW m \in Nat, n <= m
  PROVE 0 <= m - n
OBVIOUS

\* A command that is still calm was so before the step.
LEMMA CalmBefore ==
  ASSUME OpsTypes, OpsNext, ops'.led = ops.led, ops'.before = ops.before, Calm'
  PROVE Calm /\ opsEvents' = opsEvents
<1>1. PICK f, e \in Nat : ops.before = <<f, e>> /\ f <= opsFaults /\ e <= opsEvents
  BY Zenon DEF OpsTypes
<1>2. e = opsEvents'
  <2>1. ops.before[2] = e
    BY <1>1, PairOf, Zenon
  <2> QED
    BY <2>1, Zenon DEF Calm
<1>3. opsEvents' \in Nat /\ opsEvents <= opsEvents' /\ opsEvents \in Nat
  BY CountedUp, Zenon DEF OpsTypes
<1>4. opsEvents' = opsEvents
  BY <1>1, <1>2, <1>3
<1> QED
  BY <1>4, Zenon DEF Calm

\* Positions are finitely many.
LEMMA FewPositions ==
  ASSUME NEW S \in SUBSET DOMAIN OpsSeqs
  PROVE IsFiniteSet(S) /\ Cardinality(S) \in Nat
<1>1. IsFiniteSet(DOMAIN OpsSeqs)
  BY OpsPositions, FS_Interval
<1> QED
  BY <1>1, FS_Subset, FS_CardinalityType, Zenon

\* What the failures allow they allow later as well.
LEMMA FewStay ==
  ASSUME OpsTypes, OpsNext, ops'.before = ops.before,
         NEW S \in SUBSET DOMAIN OpsSeqs, Cardinality(S) <= opsFaults - ops.before[1],
         NEW T \in SUBSET S
  PROVE Cardinality(T) <= opsFaults' - ops'.before[1]
<1>1. PICK f, e \in Nat : ops.before = <<f, e>>
  BY Zenon DEF OpsTypes
<1>2. ops.before[1] = f /\ ops'.before[1] = f
  BY <1>1, PairOf, Zenon
<1>3. Cardinality(T) \in Nat /\ Cardinality(S) \in Nat /\ Cardinality(T) <= Cardinality(S)
  BY FewPositions, FS_Subset, Zenon
<1>4. opsFaults \in Nat /\ opsFaults' \in Nat /\ opsFaults <= opsFaults'
  BY CountedUp, Zenon DEF OpsTypes
<1> QED
  BY <1>2, <1>3, <1>4

\* A call that fails allows for one more.
LEMMA OneMore ==
  ASSUME OpsTypes, opsFaults' = opsFaults + 1, ops'.before = ops.before,
         NEW S \in SUBSET DOMAIN OpsSeqs, Cardinality(S) <= opsFaults - ops.before[1],
         NEW i \in DOMAIN OpsSeqs, NEW T \in SUBSET (S \cup {i})
  PROVE Cardinality(T) <= opsFaults' - ops'.before[1]
<1>1. PICK f, e \in Nat : ops.before = <<f, e>>
  BY Zenon DEF OpsTypes
<1>2. ops.before[1] = f /\ ops'.before[1] = f
  BY <1>1, PairOf, Zenon
<1>3. S \cup {i} \in SUBSET DOMAIN OpsSeqs
  BY Zenon
<1>4. /\ Cardinality(T) \in Nat /\ Cardinality(S) \in Nat /\ Cardinality(S \cup {i}) \in Nat
      /\ Cardinality(T) <= Cardinality(S \cup {i})
  BY <1>3, FewPositions, FS_Subset, Zenon
<1>5. Cardinality(S \cup {i}) = Cardinality(S) \/ Cardinality(S \cup {i}) = Cardinality(S) + 1
  BY FewPositions, FS_AddElement, Zenon
<1>6. opsFaults \in Nat
  BY Zenon DEF OpsTypes
<1> QED
  BY <1>2, <1>4, <1>5, <1>6

\* Those passed are left alone.
LEMMA SameLeft ==
  ASSUME OpsTypes, OpsNext, ops'.before = ops.before, ops'.i = ops.i, FewBehind,
         \A j \in DOMAIN OpsSeqs : j < ops.i => member'[OpsSeqs[j]] = member[OpsSeqs[j]]
  PROVE FewBehind'
<1>1. LeftWrong \in SUBSET DOMAIN OpsSeqs /\ LeftWrong' \in SUBSET LeftWrong
  BY Zenon DEF LeftWrong, AsConfigured
<1> QED
  BY <1>1, FewStay, Zenon DEF FewBehind

\* update_cluster_membership is typed.
LEMMA CommandMember ==
  ASSUME OpsTypes, NEW line \in CommandLines, Command(line)
  PROVE MemberInv'
<1> DEFINE led == raftLeader \in VotingIds /\ overridden = {}
<1> DEFINE alone == Cardinality(sequencing) <= 1
<1> HIDE DEF led, alone
<1>2. ops' = [NoCommand EXCEPT !.cmd = line[1], !.id = line[2], !.force = line[3], !.pc = "update", !.unread = OpsReads,
                               !.led = led, !.alone = alone, !.before = <<opsFaults, opsEvents>>]
  BY Zenon DEF Command, led, alone
<1>3. /\ ops'.pc = "update" /\ ops'.unread = OpsReads /\ ops'.seen = NoCommand.seen /\ ops'.i = 1
  BY <1>2, NoCommandType, Zenon DEF OpsRecord
<1>4. ops'.led = led
  BY <1>2, NoCommandType, Zenon DEF OpsRecord
<1>5. \A s \in OpsIds : ops'.seen[s]["conductor_leader"] = "None"
  <2>1. \A s \in OpsIds, f \in OpsFields : NoCommand.seen[s][f] = "None"
    BY NoCommandType, Zenon
  <2> QED
    BY <1>3, <2>1, Zenon DEF OpsFields, AskedOfSide
<1>6. UNCHANGED <<raftLeader, overridden>>
  BY Zenon DEF Command, opsWorld
<1>7. MemberPlace'
  BY <1>3, Zenon DEF MemberPlace, LoopPcs
<1>8. led => raftLeader \in VotingIds /\ overridden = {} /\ raftLeader \in OpsIds
  BY OpsAssumption, Zenon DEF led, OpsIds
<1>9. led => MemberCalm'
  BY <1>3, <1>5, <1>6, <1>8, Zenon DEF MemberCalm, LoopPcs
<1> QED
  BY <1>4, <1>7, <1>9, Zenon DEF MemberInv, Calm

\* What it reads of the leader is true.
LEMMA UpdateMember ==
  ASSUME OpsTypes, MemberInv, NEW s \in OpsIds, NEW side \in {"conductor", "node"}, Update(s, side), OpsNext
  PROVE MemberInv'
<1>1. /\ ops.pc \in {"update", "update again"}
      /\ \A t \in OpsIds : t # s => ops'.seen[t] = ops.seen[t]
      /\ ops'.pc = ops.pc \/ (ops'.pc = IF ops.pc = "update" THEN "check" ELSE "remove")
      /\ ops'.cmd = ops.cmd /\ ops'.i = ops.i /\ ops'.leader = ops.leader /\ ops'.membership = ops.membership
      /\ ops'.before = ops.before /\ UNCHANGED <<raftLeader, overridden, member>>
  BY UpdateEffect, Zenon DEF opsWorld
<1>2. ops'.led = ops.led
  BY UpdateEffect, Zenon
<1>3. MemberPlace'
  BY <1>1, Zenon DEF MemberInv, MemberPlace, LoopPcs
<1>4. ASSUME ops.cmd = "update_cluster_membership", Calm' PROVE MemberCalm'
  <2>1. Calm
    BY <1>1, <1>2, <1>4, CalmBefore, Zenon
  <2>2. MemberCalm
    BY <1>4, <2>1, Zenon DEF MemberInv
  <2>3. PICK healthy \in BOOLEAN :
          \A f \in OpsFields : ops'.seen[s][f] = Actual(s, healthy)[f] \/ ops'.seen[s][f] = ops.seen[s][f]
    BY UpdateEffect, Zenon
  <2>4. Actual(s, healthy)["conductor_leader"] = Json(raftLeader = s \/ <<"conductor", s>> \in overridden)
    BY Zenon DEF Actual
  <2>5. \A t \in OpsIds : ops.seen[t]["conductor_leader"] = "true" => t = raftLeader
    BY <2>2, Zenon DEF MemberCalm
  <2>6. ops'.seen[s]["conductor_leader"] = "true" => raftLeader = s
    BY <2>2, <2>3, <2>4, <2>5, Zenon DEF MemberCalm, Json, OpsFields, AskedOfSide
  <2>7. \A t \in OpsIds : ops'.seen[t]["conductor_leader"] = "true" => t = raftLeader'
    BY <1>1, <2>5, <2>6, Zenon
  <2>8. CASE ops.pc = "update"
    <3>1. ops'.pc \in {"update", "check"}
      BY <1>1, <2>8, Zenon
    <3> QED
      BY <1>1, <2>2, <2>7, <3>1, Zenon DEF MemberCalm, LoopPcs
  <2>9. CASE ops.pc = "update again"
    <3>1. ops'.pc \in {"update again", "remove"}
      BY <1>1, <2>9, Zenon
    <3>2. FewBehind'
      BY <1>1, <2>2, <2>9, SameLeft, Zenon DEF MemberCalm, LoopPcs
    <3> QED
      BY <1>1, <2>2, <2>7, <2>9, <3>1, <3>2, Zenon DEF MemberCalm, LoopPcs, AsAnswered, WrongSuffrage
  <2> QED
    BY <1>1, <2>8, <2>9, Zenon
<1> QED
  BY <1>1, <1>3, <1>4, Zenon DEF MemberInv

\* The membership is read from the leader that was found, which is the leader.
LEMMA ReadMember ==
  ASSUME OpsTypes, MemberInv, read_membership, OpsNext, ops' # NoCommand
  PROVE MemberInv'
<1>1. /\ ops.pc = "check" /\ ops.cmd = "update_cluster_membership" /\ find_conductor_leader # ""
      /\ ops' = [ops EXCEPT !.pc = "member", !.leader = find_conductor_leader, !.membership = member]
      /\ UNCHANGED <<raftLeader, overridden, member>>
  BY Zenon DEF read_membership, Exit, opsWorld
<1>2. DOMAIN ops = OpsRecord /\ member \in [OpsIds -> {"voter", "nonvoter", "out"}]
  BY Zenon DEF OpsTypes
<1>3. /\ ops'.pc = "member" /\ ops'.leader = find_conductor_leader /\ ops'.membership = member
      /\ ops'.cmd = ops.cmd /\ ops'.seen = ops.seen /\ ops'.unread = ops.unread /\ ops'.i = ops.i /\ ops'.before = ops.before
  BY <1>1, <1>2, Zenon DEF OpsRecord
<1>4. ops'.led = ops.led
  BY <1>1, <1>2, Zenon DEF OpsRecord
<1>5. ops.i = 1
  BY <1>1, Zenon DEF MemberInv, MemberPlace
<1>6. find_conductor_leader \in OpsIds
  BY <1>1, FirstFound, Zenon DEF find_conductor_leader, OpsFields, AskedOfSide
<1>7. 1 \in DOMAIN OpsSeqs
  <2>1. DOMAIN OpsSeqs # {}
    BY <1>6, Zenon DEF OpsIds
  <2> QED
    BY <2>1, OpsPositions
<1>8. MemberPlace'
  BY <1>1, <1>3, <1>5, <1>7, Zenon DEF MemberPlace, LoopPcs
<1>9. ASSUME Calm' PROVE MemberCalm'
  <2>1. Calm
    BY <1>3, <1>4, <1>9, CalmBefore, Zenon
  <2>2. MemberCalm
    BY <1>1, <2>1, Zenon DEF MemberInv
  <2>3. find_conductor_leader = raftLeader
    BY <1>1, <2>2, FoundLeader, Zenon
  <2>4. FewBehind'
    <3>1. \A j \in DOMAIN OpsSeqs : ~(j < 1)
      BY OpsPositions
    <3>2. LeftWrong' = {}
      BY <1>3, <1>5, <3>1, Zenon DEF LeftWrong
    <3>3. Cardinality(LeftWrong') = 0
      BY <3>2, FS_EmptySet, Zenon
    <3>4. PICK f, e \in Nat : ops'.before = <<f, e>> /\ f <= opsFaults' /\ opsFaults' \in Nat
      BY <1>3, KeptBefore, CountedUp, Zenon
    <3>5. ops'.before[1] = f
      BY <3>4, PairOf, Zenon
    <3>6. f <= opsFaults' /\ opsFaults' \in Nat
      BY <3>4, Zenon
    <3>7. 0 <= opsFaults' - f
      BY <3>4, <3>6, Counted, Zenon
    <3> QED
      BY <3>3, <3>5, <3>7, Zenon DEF FewBehind
  <2>5. /\ raftLeader' \in VotingIds /\ overridden' = {}
        /\ \A s \in OpsIds : ops'.seen[s]["conductor_leader"] = "true" => s = raftLeader'
    BY <1>1, <1>3, <2>2, Zenon DEF MemberCalm
  <2>6. \A j \in DOMAIN OpsSeqs : AsAnswered(j)'
    BY <1>1, <1>3, Zenon DEF AsAnswered
  <2> QED
    BY <1>1, <1>2, <1>3, <1>5, <1>7, <2>3, <2>4, <2>5, <2>6, Zenon DEF MemberCalm, LoopPcs
<1> QED
  BY <1>8, <1>9, Zenon DEF MemberInv

\* The loop compares, removes and adds.
LEMMA CompareMember ==
  ASSUME OpsTypes, MemberInv, compare_suffrage, OpsNext
  PROVE MemberInv'
<1> DEFINE wrong == WrongSuffrage(OpsSeqs[ops.i])
<1>1. /\ ops.pc = "member" /\ UNCHANGED <<raftLeader, overridden, member>>
      /\ \/ wrong /\ ops' = [ops EXCEPT !.pc = "update again", !.unread = OpsReads]
         \/ ~wrong /\ ops' = [ops EXCEPT !.pc = "add"]
  BY Zenon DEF compare_suffrage, OpsLocal, opsWorld
<1>2. DOMAIN ops = OpsRecord
  BY Zenon DEF OpsTypes
<1>3. /\ \/ wrong /\ ops'.pc = "update again"
         \/ ~wrong /\ ops'.pc = "add"
      /\ ops'.leader = ops.leader /\ ops'.membership = ops.membership
      /\ ops'.cmd = ops.cmd /\ ops'.seen = ops.seen /\ ops'.i = ops.i /\ ops'.before = ops.before
  BY <1>1, <1>2, Zenon DEF OpsRecord
<1>4. ops'.led = ops.led
  BY <1>1, <1>2, Zenon DEF OpsRecord
<1>5. MemberPlace' /\ ops.i \in DOMAIN OpsSeqs
  BY <1>1, <1>3, Zenon DEF MemberInv, MemberPlace, LoopPcs
<1>6. ASSUME Calm' PROVE MemberCalm'
  <2>1. Calm
    BY <1>3, <1>4, <1>6, CalmBefore, Zenon
  <2>2. MemberCalm
    BY <1>1, <2>1, Zenon DEF MemberInv, MemberPlace, LoopPcs
  <2>3. AsAnswered(ops.i) /\ ops.leader = raftLeader /\ ops.membership \in [OpsIds -> {"voter", "nonvoter", "out"}]
    BY <1>1, <2>2, Zenon DEF MemberCalm, LoopPcs
  <2>4. wrong => WrongSuffrage(OpsSeqs[ops.i])'
    BY <1>3, Zenon DEF WrongSuffrage
  <2>5. ~wrong => member[OpsSeqs[ops.i]] \in {"out", Suffrage(OpsSeqs[ops.i])}
    BY <2>3, Zenon DEF WrongSuffrage, AsAnswered
  <2>6. FewBehind'
    BY <1>1, <1>3, <2>2, SameLeft, Zenon DEF MemberCalm, LoopPcs
  <2> HIDE DEF wrong
  <2> QED
    BY <1>1, <1>3, <2>2, <2>3, <2>4, <2>5, <2>6, Zenon DEF MemberCalm, LoopPcs, AsAnswered
<1> QED
  BY <1>1, <1>5, <1>6, Zenon DEF MemberInv

\* The leader has the suffrage it should have: it is never removed.
LEMMA RemoveMember ==
  ASSUME OpsTypes, MemberInv, remove_for_update, OpsNext, ops' # NoCommand
  PROVE MemberInv'
<1> DEFINE s == OpsSeqs[ops.i]
<1>1. /\ ops.pc = "remove" /\ ops' = [ops EXCEPT !.pc = "add"] /\ overridden' = overridden
      /\ member' = [member EXCEPT ![s] = "out"]
      /\ raftLeader' = IF raftLeader = s THEN "" ELSE raftLeader
  BY Zenon DEF remove_for_update, Remove, Post, OpsGoto, Exit
<1>2. DOMAIN ops = OpsRecord /\ member \in [OpsIds -> {"voter", "nonvoter", "out"}]
  BY Zenon DEF OpsTypes
<1>3. /\ ops'.pc = "add" /\ ops'.leader = ops.leader /\ ops'.membership = ops.membership
      /\ ops'.cmd = ops.cmd /\ ops'.seen = ops.seen /\ ops'.i = ops.i /\ ops'.before = ops.before
  BY <1>1, <1>2, Zenon DEF OpsRecord
<1>4. ops'.led = ops.led
  BY <1>1, <1>2, Zenon DEF OpsRecord
<1>5. MemberPlace' /\ ops.i \in DOMAIN OpsSeqs /\ ops.cmd = "update_cluster_membership"
  BY <1>1, <1>3, Zenon DEF MemberInv, MemberPlace, LoopPcs
<1>6. s \in OpsIds
  BY <1>5, Zenon DEF OpsIds
<1>7. ASSUME Calm' PROVE MemberCalm'
  <2>1. Calm
    BY <1>3, <1>4, <1>7, CalmBefore, Zenon
  <2>2. MemberCalm
    BY <1>5, <2>1, Zenon DEF MemberInv
  <2>3. /\ raftLeader \in VotingIds /\ raftLeader # "" /\ member[raftLeader] = "voter"
        /\ member[s] = ops.membership[s] /\ ops.membership[s] \notin {"out", Suffrage(s)}
    <3>1. raftLeader \in VotingIds /\ member[s] = ops.membership[s] /\ ops.membership[s] \notin {"out", Suffrage(s)}
      BY <1>1, <2>2, Zenon DEF MemberCalm, LoopPcs, AsAnswered, WrongSuffrage
    <3>2. raftLeader # ""
      BY <3>1, OpsAssumption, Zenon
    <3> QED
      BY <3>1, <3>2, Zenon DEF OpsTypes
  <2>4. raftLeader # s
    BY <2>3, Zenon DEF Suffrage
  <2>5. \A j \in DOMAIN OpsSeqs : j # ops.i => member'[OpsSeqs[j]] = member[OpsSeqs[j]]
    <3>1. \A j \in DOMAIN OpsSeqs : OpsSeqs[j] \in OpsIds /\ (j # ops.i => OpsSeqs[j] # s)
      BY <1>5, OpsAssumption, Zenon DEF OpsIds
    <3> HIDE DEF s
    <3> QED
      BY <1>1, <1>2, <3>1, Zenon
  <2>6. FewBehind' /\ \A j \in DOMAIN OpsSeqs : j > ops.i => AsAnswered(j)'
    <3>1. FewBehind /\ \A j \in DOMAIN OpsSeqs : j > ops.i => AsAnswered(j)
      BY <1>1, <2>2, Zenon DEF MemberCalm, LoopPcs
    <3>2. \A j \in DOMAIN OpsSeqs : j < ops.i \/ j > ops.i => j # ops.i
      BY <1>5, OpsPositions
    <3>3. FewBehind'
      BY <1>3, <2>5, <3>1, <3>2, SameLeft, Zenon
    <3> QED
      BY <1>3, <2>5, <3>1, <3>2, <3>3, Zenon DEF AsAnswered
  <2>7. member'[s] = "out" /\ raftLeader' = raftLeader
    BY <1>1, <1>2, <1>6, <2>4, Zenon
  <2>8. ops.leader = raftLeader /\ ops.membership \in [OpsIds -> {"voter", "nonvoter", "out"}]
    BY <1>1, <2>2, Zenon DEF MemberCalm, LoopPcs
  <2> HIDE DEF s
  <2>9. member'[OpsSeqs[ops'.i]] = "out"
    BY <1>3, <2>7, Zenon DEF s
  <2> QED
    BY <1>1, <1>3, <2>2, <2>6, <2>7, <2>8, <2>9, Zenon DEF MemberCalm, LoopPcs
<1> QED
  BY <1>5, <1>7, Zenon DEF MemberInv

\* add_server keeps the invariant about the membership.
LEMMA AddMember ==
  ASSUME OpsTypes, MemberInv, add_server, OpsNext, ops' # NoCommand
  PROVE MemberInv'
<1> DEFINE s == OpsSeqs[ops.i]
<1>1. /\ ops.pc = "add" /\ NextMember /\ UNCHANGED <<raftLeader, overridden>>
      /\ \/ member' = [member EXCEPT ![s] = IF member[s] = "voter" THEN member[s] ELSE Suffrage(s)]
         \/ member' = member /\ (raftLeader # ops.leader \/ opsFaults' = opsFaults + 1)
  BY Zenon DEF add_server, Post, Exit, OpsFault, opsWorld
<1>2. DOMAIN ops = OpsRecord /\ member \in [OpsIds -> {"voter", "nonvoter", "out"}] /\ opsFaults \in Nat
  BY Zenon DEF OpsTypes
<1>3. ops.i \in DOMAIN OpsSeqs /\ ops.cmd = "update_cluster_membership"
  BY <1>1, Zenon DEF MemberInv, MemberPlace, LoopPcs
<1>4. /\ ops'.leader = ops.leader /\ ops'.membership = ops.membership
      /\ ops'.cmd = ops.cmd /\ ops'.seen = ops.seen /\ ops'.before = ops.before
      /\ \/ ops.i = Len(OpsSeqs) /\ ops'.pc = "done"
         \/ ops.i # Len(OpsSeqs) /\ ops'.pc = "member" /\ ops'.i = ops.i + 1
  BY <1>1, <1>2, Zenon DEF OpsRecord, NextMember
<1>5. ops'.led = ops.led
  BY <1>1, <1>2 DEF OpsRecord, NextMember
<1>6. ops.i # Len(OpsSeqs) => ops.i + 1 \in DOMAIN OpsSeqs
  BY <1>3, OpsPositions
<1>7. MemberPlace'
  BY <1>3, <1>4, <1>6, Zenon DEF MemberPlace, LoopPcs
<1>8. s \in OpsIds
  BY <1>3, Zenon DEF OpsIds
<1>9. ASSUME Calm' PROVE MemberCalm'
  <2>1. Calm
    BY <1>4, <1>5, <1>9, CalmBefore, Zenon
  <2>2. MemberCalm
    BY <1>3, <2>1, Zenon DEF MemberInv
  <2>3. /\ ops.leader = raftLeader /\ ops.membership \in [OpsIds -> {"voter", "nonvoter", "out"}]
        /\ member[s] \in {"out", Suffrage(s)} /\ FewBehind
        /\ \A j \in DOMAIN OpsSeqs : j > ops.i => AsAnswered(j)
    BY <1>1, <2>2, Zenon DEF MemberCalm, LoopPcs
  <2>4. \A j \in DOMAIN OpsSeqs : j # ops.i => member'[OpsSeqs[j]] = member[OpsSeqs[j]]
    <3>1. \A j \in DOMAIN OpsSeqs : OpsSeqs[j] \in OpsIds /\ (j # ops.i => OpsSeqs[j] # s)
      BY <1>3, OpsAssumption, Zenon DEF OpsIds
    <3> HIDE DEF s
    <3> QED
      BY <1>1, <1>2, <3>1, Zenon
  <2>5. \A j \in DOMAIN OpsSeqs : j > ops.i => AsAnswered(j)'
    <3>1. \A j \in DOMAIN OpsSeqs : j > ops.i => j # ops.i
      BY <1>3, OpsPositions
    <3> QED
      BY <1>4, <2>3, <2>4, <3>1, Zenon DEF AsAnswered
  <2> DEFINE Passed == {j \in DOMAIN OpsSeqs : j <= ops.i /\ member'[OpsSeqs[j]] # Suffrage(OpsSeqs[j])}
  <2>6. \A T \in SUBSET Passed : Cardinality(T) <= opsFaults' - ops'.before[1]
    <3>1. LeftWrong \in SUBSET DOMAIN OpsSeqs /\ Cardinality(LeftWrong) <= opsFaults - ops.before[1]
      BY <2>3, Zenon DEF LeftWrong, FewBehind
    <3>2. \A j \in DOMAIN OpsSeqs : j <= ops.i => j < ops.i \/ j = ops.i
      BY <1>3, OpsPositions
    <3>3. \A j \in Passed : j \in LeftWrong \/ j = ops.i
      BY <2>4, <3>2, Zenon DEF LeftWrong, AsConfigured
    <3>4. CASE opsFaults' = opsFaults + 1
      <4>1. \A T \in SUBSET Passed : T \in SUBSET (LeftWrong \cup {ops.i})
        BY <3>3, Zenon
      <4> HIDE DEF Passed
      <4> QED
        BY <1>3, <1>4, <3>1, <3>4, <4>1, OneMore, Zenon
    <3>5. CASE opsFaults' # opsFaults + 1
      <4>1. member' = [member EXCEPT ![s] = IF member[s] = "voter" THEN member[s] ELSE Suffrage(s)]
        BY <1>1, <2>3, <3>5, Zenon
      <4>2. member'[s] = Suffrage(s)
        <5>1. member'[s] = IF member[s] = "voter" THEN member[s] ELSE Suffrage(s)
          BY <1>2, <1>8, <4>1, Zenon
        <5>2. member[s] = "voter" => member[s] = Suffrage(s)
          BY <2>3, Zenon
        <5> QED
          BY <5>1, <5>2, Zenon
      <4>3. ops.i \notin Passed
        BY <4>2, Zenon
      <4>4. \A T \in SUBSET Passed : T \in SUBSET LeftWrong
        BY <3>3, <4>3, Zenon
      <4> HIDE DEF Passed
      <4> QED
        BY <1>4, <3>1, <4>4, FewStay, Zenon
    <3> QED
      BY <3>4, <3>5, Zenon
  <2>7. CASE ops'.pc = "done"
    <3>1. \A j \in DOMAIN OpsSeqs : j <= ops.i
      BY <1>4, <2>7, OpsPositions
    <3>2. Misplaced' \in SUBSET Passed
      BY <3>1, Zenon DEF Misplaced
    <3>3. Cardinality(Misplaced') <= opsFaults' - ops'.before[1]
      BY <2>6, <3>2, Zenon
    <3> QED
      BY <1>1, <1>4, <2>2, <2>7, <3>3, Zenon DEF MemberCalm, LoopPcs
  <2>8. CASE ops'.pc = "member" /\ ops'.i = ops.i + 1 /\ ops.i # Len(OpsSeqs)
    <3>1. PICK k \in DOMAIN OpsSeqs : k = ops.i + 1
      BY <1>6, <2>8, Zenon
    <3>2. k > ops.i /\ \A j \in DOMAIN OpsSeqs : (j < k => j <= ops.i) /\ (j > k => j > ops.i)
      BY <1>3, <3>1, OpsPositions
    <3>3. AsAnswered(k)' /\ \A j \in DOMAIN OpsSeqs : j > k => AsAnswered(j)'
      BY <2>5, <3>1, <3>2, Zenon
    <3>4. ops'.pc = "member" /\ ops'.i = k
      BY <2>8, <3>1, Zenon
    <3>5. LeftWrong' \in SUBSET Passed
      BY <3>2, <3>4, Zenon DEF LeftWrong, AsConfigured
    <3>6. FewBehind'
      BY <2>6, <3>5, Zenon DEF FewBehind
    <3> QED
      BY <1>1, <1>4, <2>2, <2>3, <3>3, <3>4, <3>6, Zenon DEF MemberCalm, LoopPcs, AsAnswered
  <2> QED
    BY <1>4, <2>7, <2>8, Zenon
<1> QED
  BY <1>3, <1>7, <1>9, Zenon DEF MemberInv

\* Every step keeps the invariant about the membership.
LEMMA MemberStep ==
  ASSUME OpsTypes, AloneInv, MemberInv, OpsNext
  PROVE MemberInv'
<1> USE DEF OpsGoto, Exit
<1>1. CASE ops' = NoCommand
  BY <1>1, NoCommandType, Zenon DEF MemberInv, MemberPlace, LoopPcs
<1>2. CASE ops.cmd # "update_cluster_membership" /\ ops'.cmd = ops.cmd /\ ops'.pc \in {"check", "node", "stop", "start"}
  BY <1>2, Zenon DEF MemberInv, MemberPlace, LoopPcs
<1>3. ASSUME NEW s \in OpsIds, OpsElect(s) PROVE MemberInv'
  <2>1. ops' = ops /\ opsEvents' = opsEvents + 1 /\ opsEvents \in Nat
    BY <1>3, Zenon DEF OpsElect, OpsTypes
  <2>2. ~Calm'
    BY <2>1, CalmBefore
  <2> QED
    BY <2>1, <2>2, Zenon DEF MemberInv, MemberPlace
<1>4. ASSUME NEW s \in OpsIds, Conduct(s) PROVE MemberInv'
  BY <1>4, Zenon DEF Conduct, MemberInv, MemberPlace, MemberCalm, Calm, FewBehind, LeftWrong, Misplaced,
                           AsConfigured, AsAnswered, WrongSuffrage
<1>5. CASE transfer_leader \/ remove_server \/ start_sequencer \/ finish
  BY <1>1, <1>5, Zenon DEF transfer_leader, remove_server, start_sequencer, finish, Remove, Post
<1>6. DOMAIN ops = OpsRecord
  BY Zenon DEF OpsTypes
<1>7. CASE pause_resume
  <2>1. /\ ops.pc = "check" /\ ops.cmd \in {"pause", "resume"}
        /\ ops' = NoCommand \/ \E n : ops' = [ops EXCEPT !.i = n]
    BY <1>7, Zenon DEF pause_resume, Post, Advance
  <2>2. ops' = NoCommand \/ (ops'.cmd = ops.cmd /\ ops'.pc = "check")
    BY <1>6, <2>1, Zenon DEF OpsRecord
  <2> QED
    BY <1>1, <1>2, <2>1, <2>2, Zenon
<1>8. CASE override_leader
  <2>1. /\ ops.cmd \in {"override_leader", "remove_override"}
        /\ ops' = NoCommand \/ ops' = [ops EXCEPT !.pc = "node"]
    BY <1>8, Zenon DEF override_leader, Post
  <2>2. ops' = NoCommand \/ (ops'.cmd = ops.cmd /\ ops'.pc = "node")
    BY <2>1, PcOnly DEF SameRead
  <2> QED
    BY <1>1, <1>2, <2>1, <2>2, Zenon
<1>9. CASE preflight
  <2>1. /\ ops.cmd \in {"halt_sequencer", "force_active_sequencer"}
        /\ ops' = NoCommand \/ \E p \in {"stop", "start"} : ops' = [ops EXCEPT !.pc = p]
    BY <1>9, Zenon DEF preflight
  <2>2. ops' = NoCommand \/ (ops'.cmd = ops.cmd /\ ops'.pc \in {"stop", "start"})
    BY <2>1, PcOnly, Zenon DEF SameRead
  <2> QED
    BY <1>1, <1>2, <2>1, <2>2, Zenon
<1>10. CASE stop_sequencer
  <2>1. /\ ops.cmd \in {"halt_sequencer", "force_active_sequencer"}
        /\ ops' = NoCommand \/ ops' = [ops EXCEPT !.pc = "start"]
    BY <1>10, Zenon DEF stop_sequencer, Post, AloneInv
  <2>2. ops' = NoCommand \/ (ops'.cmd = ops.cmd /\ ops'.pc \in {"stop", "start"})
    BY <2>1, PcOnly, Zenon DEF SameRead
  <2> QED
    BY <1>1, <1>2, <2>1, <2>2
<1> QED
  BY <1>1, <1>3, <1>4, <1>5, <1>7, <1>8, <1>9, <1>10, CommandMember, UpdateMember, ReadMember, CompareMember,
     RemoveMember, AddMember, ReadOf, Zenon DEF OpsNext

OpsInv == OpsTypes /\ AloneInv /\ MemberInv

\* The invariant of the tool and the cluster.
LEMMA OpsInvariant == OpsSpec => []OpsInv
<1>1. OpsInit => OpsInv
  <2> SUFFICES ASSUME OpsInit PROVE OpsInv
    BY Zenon
  <2>1. raftLeader \in OpsIds /\ raftLeader # ""
    BY OpsAssumption, Zenon DEF OpsInit, OpsIds
  <2>2. \E f, e \in Nat : ops.before = <<f, e>> /\ f <= opsFaults /\ e <= opsEvents
    <3>1. ops.before = <<0, 0>> /\ opsFaults = 0 /\ opsEvents = 0
      BY NoCommandType, Zenon DEF OpsInit
    <3> QED
      BY <3>1
  <2>3. OpsTypes
    <3>1. /\ sequencing \subseteq OpsIds /\ member \in [OpsIds -> {"voter", "nonvoter", "out"}]
          /\ member[raftLeader] = "voter" /\ opsFaults \in Nat /\ opsEvents \in Nat /\ ops = NoCommand
      BY <2>1, Zenon DEF OpsInit
    <3> QED
      BY <2>1, <2>2, <3>1, NoCommandType, Zenon DEF OpsTypes, OpsPcs
  <2>4. ops.cmd = "none" /\ ops.pc = "idle"
    BY NoCommandType, Zenon DEF OpsInit
  <2> QED
    BY <2>3, <2>4, Zenon DEF OpsInv, AloneInv, MemberInv, MemberPlace, LoopPcs
<1>2. OpsInv /\ [OpsNext]_opsVars => OpsInv'
  <2>1. OpsInv /\ OpsNext => OpsInv'
    BY OpsTypesStep, AloneStep, MemberStep, Zenon DEF OpsInv
  <2>2. OpsInv /\ UNCHANGED opsVars => OpsInv'
    <3> SUFFICES ASSUME OpsInv, UNCHANGED opsVars PROVE OpsInv'
      BY Zenon
    <3>1. OpsTypes'
      BY Zenon DEF OpsInv, opsVars, OpsTypes
    <3>2. AloneInv'
      BY FirstSame, Zenon DEF OpsInv, opsVars, AloneInv, PausedAsSeen, StartsAlone, ReadAll, AllPaused, find_active_sequencer
    <3>3. MemberInv'
      BY Zenon DEF OpsInv, opsVars, MemberInv, MemberPlace, MemberCalm, Calm, FewBehind, LeftWrong, Misplaced,
                   AsConfigured, AsAnswered, WrongSuffrage
    <3> QED
      BY <3>1, <3>2, <3>3, Zenon DEF OpsInv
  <2> QED
    BY <2>1, <2>2, Zenon
<1> QED
  BY <1>1, <1>2, PTL DEF OpsSpec

\* force_active_sequencer starts its sequencer alone, whatever calls of it are
\* refused or lost and whatever happens in the cluster before it.
THEOREM StartsAloneHolds == OpsSpec => []StartsAlone
<1>1. OpsInv => StartsAlone
  BY Zenon DEF OpsInv, AloneInv, StartsAlone
<1> QED
  BY <1>1, OpsInvariant, PTL

\* update_cluster_membership leaves every sequencer in the cluster with its
\* configured suffrage, but for at most one for each call that failed meanwhile,
\* for any configuration.
THEOREM MembershipHolds == OpsSpec => []MembershipMatches
<1>1. OpsInv => MembershipMatches
  BY Zenon DEF OpsInv, MemberInv, MemberPlace, MemberCalm, MembershipMatches, Calm
<1> QED
  BY <1>1, OpsInvariant, PTL

-----------------------------------------------------------------------------
(***************************************************************************)
(* ConductorMonitor: how long ago a node led at most, by the state kept of *)
(* it and the age of that state.                                           *)
(***************************************************************************)

NodeState == [leader : BOOLEAN, leaderWithID : RaftServers \union {""},
              members : SUBSET RaftServers, age : Nat]

MonTypes ==
  /\ monAt \in {"off", "tick", "poll"} \union MonNodes /\ monTodo \subseteq MonNodes /\ isLeader \in BOOLEAN
  /\ DOMAIN state \subseteq MonNodes /\ \A n \in DOMAIN state : state[n] \in NodeState
  /\ lead \in RaftServers \union {""} /\ view \in [MonNodes -> RaftServers \union {""}]
  /\ servers \subseteq RaftServers /\ sinceLed \in [MonNodes -> Nat]
  /\ leaderCount \in Nat /\ leaderID \in RaftServers \union {"", "unasked"}

\* The nodes that led within the expiration of a state and the tick.
RecentlyLed == {n \in MonNodes : sinceLed[n] <= MonExpiration + 1}

\* How long ago a node led at most, by what the monitor knows of it.
LedBy ==
  /\ monAt # "off" => \A n \in MonNodes : view[n] = n => sinceLed[n] = 0
  /\ isLeader => monAt \in MonNodes /\ sinceLed[monAt] = 0
  /\ \A n \in DOMAIN state : state[n].leader => sinceLed[n] <= state[n].age

MonInv ==
  /\ MonTypes /\ LedBy /\ LeadersShown
  /\ monAt = "off" => DOMAIN state = {} /\ leaderCount = 0
  /\ monAt \notin {"tick", "off"} => \A n \in DOMAIN state : state[n].age <= MonExpiration

\* The monitor starts with nothing known.
LEMMA MonInitially == MonInit => MonInv
<1> SUFFICES ASSUME MonInit PROVE MonInv
  BY Zenon
<1>1. DOMAIN state = {} /\ monAt = "off" /\ leaderCount = 0
  <2>1. state = <<>> /\ monAt = "off" /\ leaderCount = 0
    BY Zenon DEF MonInit
  <2>2. DOMAIN <<>> = {}
    OBVIOUS
  <2> QED
    BY <2>1, <2>2, Zenon
<1>2. MonTypes
  <2>1. isLeader = FALSE /\ leaderID = "unasked" /\ monTodo = {} /\ servers = RaftServers /\ lead = ""
    BY Zenon DEF MonInit
  <2>2. view \in [MonNodes -> RaftServers \union {""}] /\ sinceLed \in [MonNodes -> Nat]
    <3>1. MonExpiration \in Nat
      BY MonitorAssumption, Zenon
    <3>2. Long \in Nat
      BY <3>1 DEF Long
    <3> QED
      BY <3>2, Zenon DEF MonInit
  <2> QED
    BY <1>1, <2>1, <2>2, Zenon DEF MonTypes
<1>3. LedBy
  BY <1>1, Zenon DEF MonInit, LedBy
<1> QED
  BY <1>1, <1>2, <1>3, Zenon DEF MonInv, LeadersShown

\* Nodes that lead, or led more recently than before, are no fewer.
LEMMA MoreLed ==
  ASSUME sinceLed \in [MonNodes -> Nat], sinceLed' \in [MonNodes -> Nat],
         \A n \in MonNodes : sinceLed'[n] <= sinceLed[n]
  PROVE Cardinality(RecentlyLed) <= Cardinality(RecentlyLed')
<1>1. IsFiniteSet(MonNodes)
  BY MonitorAssumption, FS_Subset, Zenon
<1>2. RecentlyLed \subseteq RecentlyLed' /\ RecentlyLed' \subseteq MonNodes
  BY MonitorAssumption DEF RecentlyLed
<1> QED
  BY <1>1, <1>2, FS_Subset, FS_CardinalityType, Zenon

\* A step that changes neither what is known of the nodes nor the gauges.
LEMMA KnownUnchanged ==
  ASSUME MonInv, MonTypes', UNCHANGED <<state, leaderGauge, leaderCount, monAt, isLeader>>, monAt # "off",
         \A n \in MonNodes : sinceLed'[n] = sinceLed[n] \/ sinceLed'[n] = 0,
         \A n \in MonNodes : view'[n] = n => sinceLed'[n] = 0
  PROVE MonInv'
<1>1. sinceLed \in [MonNodes -> Nat] /\ sinceLed' \in [MonNodes -> Nat] /\ DOMAIN state \subseteq MonNodes
  BY Zenon DEF MonInv, MonTypes
<1>2. \A n \in MonNodes : sinceLed'[n] <= sinceLed[n]
  BY <1>1
<1>3. LedBy'
  <2>1. isLeader => monAt \in MonNodes /\ sinceLed[monAt] = 0
    BY Zenon DEF MonInv, LedBy
  <2>2. ASSUME NEW n \in DOMAIN state, state[n].leader PROVE sinceLed'[n] <= state[n].age
    <3>1. sinceLed[n] <= state[n].age /\ state[n].age \in Nat
      BY <2>2, Zenon DEF MonInv, LedBy, MonTypes, NodeState
    <3> QED
      BY <1>1, <1>2, <3>1
  <2> QED
    BY <1>1, <2>1, <2>2, Zenon DEF LedBy
<1>4. LeadersShown'
  <2>1. RecentlyLed \subseteq MonNodes /\ RecentlyLed' \subseteq MonNodes /\ IsFiniteSet(MonNodes)
    BY MonitorAssumption, FS_Subset, Zenon DEF RecentlyLed
  <2>2. Cardinality(RecentlyLed) <= Cardinality(RecentlyLed')
    BY <1>1, <1>2, MoreLed, Zenon
  <2>3. Cardinality(RecentlyLed) \in Nat /\ Cardinality(RecentlyLed') \in Nat
    BY <2>1, FS_Subset, FS_CardinalityType, Zenon
  <2>4. leaderCount \in Nat
    BY Zenon DEF MonInv, MonTypes
  <2> QED
    BY <2>2, <2>3, <2>4 DEF MonInv, LeadersShown, RecentlyLed
<1> QED
  BY <1>3, <1>4, Zenon DEF MonInv

\* An election, a server that leaves, a node that learns of the leader.
LEMMA ClusterKeeps ==
  ASSUME MonInv, (\E s \in RaftServers : Elect(s) \/ Leave(s)) \/ (\E n \in MonNodes : Learn(n))
  PROVE MonInv'
<1>1. /\ UNCHANGED <<monAt, monTodo, isLeader, leaderID, state, leaderGauge, leaderCount>> /\ monAt # "off"
  BY Zenon DEF Elect, Leave, Learn, Event, gauges
<1>2. /\ MonTypes /\ sinceLed \in [MonNodes -> Nat] /\ lead \in RaftServers \union {""}
      /\ view \in [MonNodes -> RaftServers \union {""}]
      /\ \A n \in MonNodes : view[n] = n => sinceLed[n] = 0
  BY <1>1, Zenon DEF MonInv, MonTypes, LedBy
<1>0. 0 \in Nat
  OBVIOUS
<1> DEFINE MonCluster ==
             /\ lead' \in RaftServers \union {""} /\ servers' \subseteq RaftServers
             /\ view' \in [MonNodes -> RaftServers \union {""}] /\ sinceLed' \in [MonNodes -> Nat]
             /\ \A n \in MonNodes : sinceLed'[n] = sinceLed[n] \/ sinceLed'[n] = 0
             /\ \A n \in MonNodes : view'[n] = n => sinceLed'[n] = 0
<1>3. MonCluster
  <2>1. ASSUME NEW s \in RaftServers, Elect(s) PROVE MonCluster
    <3>1. sinceLed' = [n \in MonNodes |-> IF view'[n] = n THEN 0 ELSE sinceLed[n]] /\ lead' = s
      BY <2>1, Zenon DEF Elect, Ago
    <3>2. view' = [n \in MonNodes |-> IF n = s THEN s ELSE view[n]] /\ servers' = servers
      BY <2>1, Zenon DEF Elect
    <3>3. view' \in [MonNodes -> RaftServers \union {""}]
      BY <1>2, <3>2, Zenon
    <3> QED
      BY <1>2, <3>1, <3>2, <3>3, <1>0, Zenon DEF MonTypes
  <2>2. ASSUME NEW s \in RaftServers, Leave(s) PROVE MonCluster
    BY <1>2, <2>2, Zenon DEF Leave, MonTypes
  <2>3. ASSUME NEW n \in MonNodes, Learn(n) PROVE MonCluster
    <3>1. sinceLed' = [m \in MonNodes |-> IF view'[m] = m THEN 0 ELSE sinceLed[m]] /\ UNCHANGED <<lead, servers>>
      BY <2>3, Zenon DEF Learn, Ago
    <3>2. view' \in [MonNodes -> RaftServers \union {""}]
      BY <1>2, <2>3, Zenon DEF Learn
    <3> QED
      BY <1>0, <1>2, <3>1, <3>2, Zenon DEF MonTypes
  <2> QED
    BY <2>1, <2>2, <2>3, Zenon
<1>4. MonTypes'
  BY <1>1, <1>2, <1>3, Zenon DEF MonTypes
<1> QED
  BY <1>1, <1>3, <1>4, KnownUnchanged, Zenon

\* The monitor starts: nothing is known yet.
LEMMA StartKeeps ==
  ASSUME MonInv, StartMonitor
  PROVE MonInv'
<1>1. /\ monAt = "off" /\ monAt' = "tick" /\ lead' \in RaftServers /\ view' = [n \in MonNodes |-> lead']
      /\ sinceLed' = [n \in MonNodes |-> IF view'[n] = n THEN 0 ELSE sinceLed[n]]
      /\ UNCHANGED <<monTodo, isLeader, leaderID, state, leaderCount, servers>>
  BY Zenon DEF StartMonitor, Ago, gauges
<1>2. DOMAIN state = {} /\ leaderCount = 0 /\ ~isLeader
  BY <1>1, MonitorAssumption, Zenon DEF MonInv, LedBy
<1>3. MonTypes'
  BY <1>1, <1>2, Zenon DEF MonInv, MonTypes
<1>4. Cardinality(RecentlyLed') \in Nat
  <2>1. RecentlyLed' \subseteq RaftServers
    BY MonitorAssumption, Zenon DEF RecentlyLed
  <2> QED
    BY <2>1, MonitorAssumption, FS_Subset, FS_CardinalityType, Zenon
<1>5. LeadersShown'
  BY <1>1, <1>2, <1>4 DEF LeadersShown, RecentlyLed
<1> QED
  BY <1>1, <1>2, <1>3, <1>5, Zenon DEF MonInv, LedBy

\* cleanup drops the states that are too old.
LEMMA CleanupKeeps ==
  ASSUME MonInv, MonCleanup
  PROVE MonInv'
<1> DEFINE young == {m \in DOMAIN state : state[m].age <= MonExpiration}
<1>1. /\ monAt = "tick" /\ monAt' = "poll" /\ monTodo' = MonNodes /\ state' = [n \in young |-> state[n]]
      /\ UNCHANGED <<isLeader, leaderID, leaderCount, lead, view, servers, sinceLed>>
  BY Zenon DEF MonCleanup, gauges, cluster
<1>2. DOMAIN state' = young /\ \A n \in young : state'[n] = state[n]
  BY <1>1, Zenon
<1>3. MonTypes'
  BY <1>1, <1>2, Zenon DEF MonInv, MonTypes
<1>4. ~isLeader
  BY <1>1, MonitorAssumption, Zenon DEF MonInv, LedBy
<1>5. LedBy'
  BY <1>1, <1>2, <1>4, Zenon DEF MonInv, LedBy
<1> QED
  BY <1>1, <1>2, <1>3, <1>5, Zenon DEF MonInv, LeadersShown

\* A node is asked whether it leads.
LEMMA PollLeaderKeeps ==
  ASSUME MonInv, NEW n \in MonNodes, PollLeader(n)
  PROVE MonInv'
<1>1. /\ monAt = "poll" /\ monAt' = n /\ monTodo' = monTodo \ {n} /\ isLeader' = (view[n] = n)
      /\ UNCHANGED <<leaderID, state, leaderCount, lead, view, servers, sinceLed>>
  BY Zenon DEF PollLeader, gauges, cluster
<1>2. isLeader' \in BOOLEAN /\ (isLeader' => view[n] = n)
  BY <1>1, Zenon
<1>3. MonTypes'
  BY <1>1, <1>2, Zenon DEF MonInv, MonTypes
<1>4. n \notin {"tick", "off", "poll"}
  BY MonitorAssumption, Zenon
<1>5. LedBy'
  <2>1. \A m \in MonNodes : view[m] = m => sinceLed[m] = 0
    BY <1>1, Zenon DEF MonInv, LedBy
  <2>2. isLeader' => monAt' \in MonNodes /\ sinceLed'[monAt'] = 0
    BY <1>1, <1>2, <2>1, Zenon
  <2>3. \A m \in DOMAIN state' : state'[m].leader => sinceLed'[m] <= state'[m].age
    BY <1>1, Zenon DEF MonInv, LedBy
  <2> QED
    BY <1>1, <2>1, <2>2, <2>3, Zenon DEF LedBy
<1> QED
  BY <1>1, <1>3, <1>4, <1>5, Zenon DEF MonInv, LeadersShown

\* It is asked whom it takes for the leader.
LEMMA PollLeaderWithIDKeeps ==
  ASSUME MonInv, NEW n \in MonNodes, PollLeaderWithID(n)
  PROVE MonInv'
<1>1. leaderID' = view[n] /\ UNCHANGED <<monAt, monTodo, isLeader, state, leaderGauge, leaderCount, lead, view, servers, sinceLed>>
  BY Zenon DEF PollLeaderWithID, gauges, cluster
<1>2. MonTypes'
  BY <1>1, Zenon DEF MonInv, MonTypes
<1> QED
  BY <1>1, <1>2, Zenon DEF MonInv, LedBy, LeadersShown

\* Its new state: it led at most this tick ago, if it said so.
LEMMA PollMembershipKeeps ==
  ASSUME MonInv, NEW n \in MonNodes, PollClusterMembership(n)
  PROVE MonInv'
<1> DEFINE new == [leader |-> isLeader, leaderWithID |-> leaderID, members |-> servers, age |-> 0]
<1>1. /\ monAt = n /\ monAt' = "poll" /\ isLeader' = FALSE /\ leaderID # "unasked" /\ leaderID' = "unasked"
      /\ state' = [m \in DOMAIN state \union {n} |-> IF m = n THEN new ELSE state[m]]
      /\ UNCHANGED <<monTodo, leaderCount, lead, view, servers, sinceLed>>
  BY Zenon DEF PollClusterMembership, gauges, cluster
<1>2. new \in NodeState
  BY <1>1, Zenon DEF MonInv, MonTypes, NodeState
<1>3. DOMAIN state' = DOMAIN state \union {n} /\ state'[n] = new /\ \A m \in DOMAIN state : m # n => state'[m] = state[m]
  BY <1>1, Zenon
<1>4. MonTypes'
  BY <1>1, <1>2, <1>3, Zenon DEF MonInv, MonTypes
<1>5. new.leader => sinceLed[n] = 0 /\ new.age = 0
  BY <1>1, Zenon DEF MonInv, LedBy
<1>6. new.age = 0
  BY Zenon
<1> HIDE DEF new
<1>7. n \notin {"tick", "off", "poll"} /\ MonExpiration \in Nat
  BY MonitorAssumption, Zenon
<1>8. LedBy'
  <2>1. ASSUME NEW m \in DOMAIN state', state'[m].leader PROVE sinceLed'[m] <= state'[m].age
    <3>1. CASE m = n
      BY <1>1, <1>3, <1>5, <2>1, <3>1
    <3>2. CASE m # n
      BY <1>1, <1>3, <2>1, <3>2, Zenon DEF MonInv, LedBy
    <3> QED
      BY <3>1, <3>2, Zenon
  <2> QED
    BY <1>1, <1>7, <2>1, Zenon DEF MonInv, LedBy
<1> QED
  BY <1>1, <1>3, <1>4, <1>6, <1>7, <1>8 DEF MonInv, LeadersShown

\* A call that fails changes nothing that is known.
LEMMA PollFailsKeeps ==
  ASSUME MonInv, PollNodeFails
  PROVE MonInv'
<1>1. /\ monAt \notin {"tick", "off"} /\ monAt' = "poll" /\ isLeader' = FALSE /\ leaderID' = "unasked" /\ monTodo' \subseteq monTodo
      /\ UNCHANGED <<state, leaderCount, lead, view, servers, sinceLed>>
  BY Zenon DEF PollNodeFails, gauges, cluster
<1>2. MonTypes'
  BY <1>1, Zenon DEF MonInv, MonTypes
<1>3. LedBy'
  BY <1>1, Zenon DEF MonInv, LedBy
<1> QED
  BY <1>1, <1>2, <1>3, Zenon DEF MonInv, LeadersShown

\* The end of a tick: every node whose state says it led did so within the
\* expiration and this tick, and of the gauges that can be reset only the one
\* that the node names is set.
LEMMA ReportKeeps ==
  ASSUME MonInv, ReportLeaders
  PROVE MonInv'
<1> DEFINE counted == {n \in DOMAIN state : state[n].leader}
<1> DEFINE older == [n \in MonNodes |-> IF sinceLed[n] < Long THEN sinceLed[n] + 1 ELSE Long]
<1>1. /\ monAt = "poll" /\ monAt' = "tick" /\ leaderCount' = Cardinality(counted)
      /\ sinceLed' = [n \in MonNodes |-> IF view[n] = n THEN 0 ELSE older[n]]
      /\ UNCHANGED <<monTodo, isLeader, leaderID, lead, view, servers>>
  BY Zenon DEF ReportLeaders, cluster, Ago
<1>2. /\ leaderGauge' = [n \in MonNodes |->
           IF n \in DOMAIN state THEN (leaderGauge[n] \ Reset(n)) \union {state[n].leaderWithID} ELSE leaderGauge[n]]
      /\ state' = [n \in DOMAIN state |-> [state[n] EXCEPT !.age = @ + 1]]
  BY Zenon DEF ReportLeaders
<1>3. /\ DOMAIN state \subseteq MonNodes /\ sinceLed \in [MonNodes -> Nat] /\ MonExpiration \in Nat /\ Long \in Nat
      /\ \A n \in DOMAIN state : state[n] \in NodeState
  <2>1. MonExpiration \in Nat
    BY MonitorAssumption, Zenon
  <2>2. Long \in Nat
    BY <2>1 DEF Long
  <2>3. DOMAIN state \subseteq MonNodes /\ sinceLed \in [MonNodes -> Nat]
    BY Zenon DEF MonInv, MonTypes
  <2>4. \A n \in DOMAIN state : state[n] \in NodeState
    BY Zenon DEF MonInv, MonTypes
  <2> QED
    BY <2>1, <2>2, <2>3, <2>4, Zenon
<1>4. /\ DOMAIN state' = DOMAIN state
      /\ \A n \in DOMAIN state : /\ state'[n] \in NodeState
                                 /\ state'[n].leader = state[n].leader /\ state'[n].members = state[n].members
                                 /\ state'[n].leaderWithID = state[n].leaderWithID
                                 /\ state'[n].age = state[n].age + 1
  <2>1. DOMAIN state' = DOMAIN state /\ \A n \in DOMAIN state : state'[n] = [state[n] EXCEPT !.age = @ + 1]
    BY <1>2, Zenon
  <2>2. ASSUME NEW s \in NodeState, NEW t, t = [s EXCEPT !.age = @ + 1]
        PROVE /\ t \in NodeState /\ t.leader = s.leader /\ t.members = s.members
              /\ t.leaderWithID = s.leaderWithID /\ t.age = s.age + 1
    <3>1. DOMAIN s = {"leader", "leaderWithID", "members", "age"}
      BY Zenon DEF NodeState
    <3>2. s.leader \in BOOLEAN /\ s.leaderWithID \in RaftServers \union {""} /\ s.members \subseteq RaftServers /\ s.age \in Nat
      BY Zenon DEF NodeState
    <3>3. t.age = s.age + 1 /\ t.members = s.members /\ t.leaderWithID = s.leaderWithID
      BY <2>2, <3>1, Zenon
    <3>4. t.leader = s.leader
      BY <2>2, <3>1, Zenon
    <3>5. t = [leader |-> s.leader, leaderWithID |-> s.leaderWithID, members |-> s.members, age |-> s.age + 1]
      BY <2>2, <3>1, Zenon
    <3>6. s.age + 1 \in Nat
      <4>1. s.age \in Nat
        BY <3>2, Zenon
      <4> QED
        BY <4>1
    <3>7. t \in NodeState
      BY <3>5, <3>6, <3>2, Zenon DEF NodeState
    <3> QED
      BY <3>3, <3>4, <3>7, Zenon
  <2> QED
    BY <1>3, <2>1, <2>2
<1>5. /\ sinceLed' \in [MonNodes -> Nat]
      /\ \A n \in MonNodes : sinceLed'[n] <= sinceLed[n] + 1 \/ sinceLed'[n] <= sinceLed[n]
  BY <1>1, <1>3
<1>6. IsFiniteSet(MonNodes) /\ counted \subseteq MonNodes /\ RecentlyLed' \subseteq MonNodes
  BY <1>3, MonitorAssumption, FS_Subset, Zenon DEF RecentlyLed
<1>7. IsFiniteSet(counted) /\ IsFiniteSet(RecentlyLed')
  BY <1>6, FS_Subset, Zenon
<1>8. counted \subseteq RecentlyLed'
  <2> SUFFICES ASSUME NEW n \in counted PROVE sinceLed'[n] <= MonExpiration + 1
    BY <1>6, Zenon DEF RecentlyLed
  <2>1. sinceLed[n] <= state[n].age /\ state[n].age <= MonExpiration /\ state[n].age \in Nat
    BY <1>1, <1>3, Zenon DEF MonInv, LedBy, NodeState
  <2> QED
    BY <1>3, <1>5, <2>1
<1>9. leaderCount' <= Cardinality(RecentlyLed') /\ leaderCount' \in Nat
  BY <1>1, <1>7, <1>8, FS_Subset, FS_CardinalityType, Zenon
<1>10. MonTypes'
  BY <1>1, <1>3, <1>4, <1>5, <1>9, Zenon DEF MonInv, MonTypes
<1>11. LedBy'
  <2>2. ~isLeader
    BY <1>1, MonitorAssumption, Zenon DEF MonInv, LedBy
  <2>3. ASSUME NEW n \in DOMAIN state, state[n].leader PROVE sinceLed'[n] <= state[n].age + 1
    <3>1. sinceLed[n] <= state[n].age /\ state[n].age \in Nat
      BY <1>3, <2>3, Zenon DEF MonInv, LedBy, NodeState
    <3> QED
      BY <1>3, <1>5, <3>1
  <2>4. \A n \in MonNodes : view'[n] = n => sinceLed'[n] = 0
    BY <1>1, Zenon
  <2>5. \A n \in DOMAIN state' : state'[n].leader => sinceLed'[n] <= state'[n].age
    BY <1>4, <2>3, Zenon
  <2>6. ~isLeader'
    BY <1>1, <2>2, Zenon
  <2> QED
    BY <2>4, <2>5, <2>6, Zenon DEF LedBy
<1>12. LeadersShown'
  <2>1. ASSUME NEW n \in DOMAIN state', NEW l \in leaderGauge'[n] \ {state'[n].leaderWithID}
        PROVE l \notin MonNodes \union state'[n].members
    <3>1. n \in DOMAIN state /\ n \in MonNodes
      BY <1>3, <1>4, Zenon
    <3>2. leaderGauge'[n] = (leaderGauge[n] \ Reset(n)) \union {state[n].leaderWithID}
      BY <1>2, <3>1, Zenon
    <3> QED
      BY <1>4, <2>1, <3>1, <3>2, Zenon DEF Reset
  <2> QED
    BY <1>9, <2>1, Zenon DEF LeadersShown, RecentlyLed
<1> QED
  BY <1>1, <1>10, <1>11, <1>12, Zenon DEF MonInv

\* A node that op-conductor-mon counts as a leader led within the expiration of
\* its state and a tick, and its gauges show the one leader it last named, for
\* any cluster and expiration (tick, poll, updateNodeState).
THEOREM LeadersShownHolds == MonSpec => []LeadersShown
<1>1. MonInit => MonInv
  BY MonInitially, Zenon
<1>2. MonInv /\ [MonNext]_monVars => MonInv'
  <2> SUFFICES ASSUME MonInv, [MonNext]_monVars PROVE MonInv'
    BY Zenon
  <2>1. CASE UNCHANGED monVars
    BY <2>1, Zenon DEF monVars, gauges, cluster, MonInv, MonTypes, LedBy, LeadersShown
  <2>2. CASE StartMonitor
    BY <2>2, StartKeeps, Zenon
  <2>3. CASE MonCleanup
    BY <2>3, CleanupKeeps, Zenon
  <2>4. CASE PollNodeFails
    BY <2>4, PollFailsKeeps, Zenon
  <2>5. CASE ReportLeaders
    BY <2>5, ReportKeeps, Zenon
  <2>6. CASE \E n \in MonNodes : PollLeader(n)
    BY <2>6, PollLeaderKeeps, Zenon
  <2>7. CASE \E n \in MonNodes : PollLeaderWithID(n) \/ PollClusterMembership(n)
    BY <2>7, PollLeaderWithIDKeeps, PollMembershipKeeps, Zenon
  <2>8. CASE (\E s \in RaftServers : Elect(s) \/ Leave(s)) \/ (\E n \in MonNodes : Learn(n))
    BY <2>8, ClusterKeeps, Zenon
  <2> QED
    BY <2>1, <2>2, <2>3, <2>4, <2>5, <2>6, <2>7, <2>8, Zenon DEF MonNext
<1>3. MonInv => LeadersShown
  BY Zenon DEF MonInv
<1> QED
  BY <1>1, <1>2, <1>3, PTL DEF MonSpec
=============================================================================
