------------------------- MODULE TaskRegistryProof -------------------------
(***************************************************************************)
(* The safety properties of TaskRegistry for every set of instances,       *)
(* chats, requests and tasks, and for any number of stop requests and      *)
(* faults.  IInv is inductive: one lemma per action, and under it the      *)
(* conjuncts in three groups: the shape of the program counters, what      *)
(* Redis holds, and what the stop commands guarantee.                      *)
(***************************************************************************)
EXTENDS TaskRegistry, TLAPS

USE TaskConstants DEF Callers, JobStates, TasksOf, Home, ItemOf

CountersInv == TypeOK /\ JobShape /\ RequestShape
RedisInv    == KnownIsSaved /\ StopItemShape /\ ItemSetOwn /\ ItemSetInHash
StopInv     == RunningIsRegistered /\ StopIsPublished /\ UnlistedOnlyIfCancelled

\* The three groups are the inductive invariant.
LEMMA Groups == IInv <=> CountersInv /\ RedisInv /\ StopInv
  BY DEF IInv, CountersInv, RedisInv, StopInv

\* The registry is empty at start.
LEMMA InitIInv == Init => IInv
<1> SUFFICES ASSUME Init PROVE IInv  OBVIOUS
<1>1. TypeOK  BY DEF Init, TypeOK
<1>2. JobShape /\ RequestShape /\ KnownIsSaved
  BY DEF Init, JobShape, RequestShape, KnownIsSaved
<1>3. StopItemShape /\ ItemSetOwn /\ ItemSetInHash
  BY DEF Init, StopItemShape, ItemSetOwn, ItemSetInHash
<1>4. RunningIsRegistered /\ StopIsPublished /\ UnlistedOnlyIfCancelled
  BY DEF Init, RunningIsRegistered, StopIsPublished, UnlistedOnlyIfCancelled
<1> QED  BY <1>1, <1>2, <1>3, <1>4 DEF IInv

\* The end of a task keeps the two functions it changes well typed.
LEMMA EndTaskTyped ==
  ASSUME TypeOK, NEW t \in Tasks, EndTask(t)
  PROVE  /\ taskPc' \in [Tasks -> {"unborn", "running", "cleaning", "ended", "lost"}]
         /\ job' \in [Callers -> [Tasks -> JobStates]]
  BY DEF TypeOK, EndTask
-----------------------------------------------------------------------------
\* The asyncio task is created and registered.
LEMMA CreateTaskStep ==
  ASSUME IInv, NEW r \in Requests, NEW t \in Tasks, CreateTask(r, t)
  PROVE  IInv'
<1> USE DEF CreateTask, redisVars, stopVars, envVars
<1>1. CountersInv'
  BY DEF IInv, CountersInv, TypeOK, JobShape, RequestShape, KnownIsSaved
<1>2. RedisInv'
  BY DEF IInv, RedisInv, TypeOK, JobShape, RequestShape, KnownIsSaved, StopItemShape,
         ItemSetOwn, ItemSetInHash, NoLongerToSave
<1>3. StopInv'
  BY DEF IInv, StopInv, TypeOK, JobShape, RequestShape, KnownIsSaved,
         RunningIsRegistered, StopIsPublished, UnlistedOnlyIfCancelled, NoLongerToSave,
         CancelOnItsWay, Saved
<1> QED  BY <1>1, <1>2, <1>3, Groups, PTL

\* The id enters Redis.
LEMMA SaveTaskStep ==
  ASSUME IInv, NEW r \in Requests, SaveTask(r)
  PROVE  IInv'
<1> USE DEF SaveTask, redisVars, stopVars, envVars
<1>1. CountersInv'
  BY DEF IInv, CountersInv, TypeOK, JobShape, RequestShape, KnownIsSaved
<1>2. RedisInv'
  BY DEF IInv, RedisInv, TypeOK, JobShape, RequestShape, KnownIsSaved, StopItemShape,
         ItemSetOwn, ItemSetInHash, NoLongerToSave
<1>3. StopInv'
  BY DEF IInv, StopInv, TypeOK, JobShape, RequestShape, KnownIsSaved,
         RunningIsRegistered, StopIsPublished, UnlistedOnlyIfCancelled, NoLongerToSave,
         CancelOnItsWay, Saved
<1> QED  BY <1>1, <1>2, <1>3, Groups, PTL

\* The id enters the metadata.
LEMMA NameTaskStep ==
  ASSUME IInv, NEW r \in Requests, NameTask(r)
  PROVE  IInv'
<1> USE DEF NameTask, redisVars, stopVars, envVars
<1>1. CountersInv'
  BY DEF IInv, CountersInv, TypeOK, JobShape, RequestShape, KnownIsSaved
<1>2. RedisInv'
  BY DEF IInv, RedisInv, TypeOK, JobShape, RequestShape, KnownIsSaved, StopItemShape,
         ItemSetOwn, ItemSetInHash, NoLongerToSave
<1>3. StopInv'
  BY DEF IInv, StopInv, TypeOK, JobShape, RequestShape, KnownIsSaved,
         RunningIsRegistered, StopIsPublished, UnlistedOnlyIfCancelled, NoLongerToSave,
         CancelOnItsWay, Saved
<1> QED  BY <1>1, <1>2, <1>3, Groups, PTL

\* Chat:active=true.
LEMMA ReportActiveStep ==
  ASSUME IInv, NEW r \in Requests, ReportActive(r)
  PROVE  IInv'
<1> USE DEF ReportActive, redisVars, stopVars, envVars
<1>1. CountersInv'
  BY DEF IInv, CountersInv, TypeOK, JobShape, RequestShape, KnownIsSaved
<1>2. RedisInv'
  BY DEF IInv, RedisInv, TypeOK, JobShape, RequestShape, KnownIsSaved, StopItemShape,
         ItemSetOwn, ItemSetInHash, NoLongerToSave
<1>3. StopInv'
  BY DEF IInv, StopInv, TypeOK, JobShape, RequestShape, KnownIsSaved,
         RunningIsRegistered, StopIsPublished, UnlistedOnlyIfCancelled, NoLongerToSave,
         CancelOnItsWay, Saved
<1> QED  BY <1>1, <1>2, <1>3, Groups, PTL

\* The body is over: the task is cleaning or ended.
LEMMA FinishBodyStep ==
  ASSUME IInv, NEW t \in Tasks, FinishBody(t)
  PROVE  IInv'
<1> USE DEF FinishBody, redisVars, stopVars, envVars
<1>1. CountersInv'
  <2>1. TypeOK'
    <3>1. CASE t \in named     BY <3>1 DEF IInv, TypeOK
    <3>2. CASE t \notin named
      <4>1. EndTask(t)  BY <3>2
      <4> QED  BY <4>1, EndTaskTyped DEF IInv, TypeOK
    <3> QED  BY <3>1, <3>2
  <2>2. JobShape'      BY DEF IInv, TypeOK, JobShape, EndTask
  <2>3. RequestShape'  BY DEF IInv, TypeOK, RequestShape, EndTask
  <2> QED  BY <2>1, <2>2, <2>3 DEF CountersInv
<1>2. RedisInv'
  <2>1. KnownIsSaved'   BY DEF IInv, TypeOK, RequestShape, KnownIsSaved, NoLongerToSave, EndTask
  <2>2. StopItemShape'  BY DEF IInv, TypeOK, JobShape, StopItemShape, EndTask
  <2>3. ItemSetOwn'     BY DEF IInv, TypeOK, ItemSetOwn
  <2>4. ItemSetInHash'  BY DEF IInv, TypeOK, StopItemShape, ItemSetOwn, ItemSetInHash
  <2> QED  BY <2>1, <2>2, <2>3, <2>4 DEF RedisInv
<1>3. StopInv'
  BY DEF IInv, StopInv, TypeOK, JobShape, RequestShape, KnownIsSaved,
         RunningIsRegistered, StopIsPublished, UnlistedOnlyIfCancelled, NoLongerToSave,
         CancelOnItsWay, Saved, EndTask
<1> QED  BY <1>1, <1>2, <1>3, Groups, PTL

\* A cancellation ends the finally block.
LEMMA AbortCleanupStep ==
  ASSUME IInv, NEW t \in Tasks, AbortCleanup(t)
  PROVE  IInv'
<1> USE DEF AbortCleanup, EndTask, redisVars, stopVars, envVars
<1>1. CountersInv'
  <2>1. TypeOK'
    BY DEF IInv, TypeOK, JobShape
  <2>2. JobShape'      BY DEF IInv, TypeOK, JobShape
  <2>3. RequestShape'  BY DEF IInv, TypeOK, RequestShape
  <2> QED  BY <2>1, <2>2, <2>3 DEF CountersInv
<1>2. RedisInv'
  <2>1. KnownIsSaved'   BY DEF IInv, TypeOK, RequestShape, KnownIsSaved, NoLongerToSave
  <2>2. StopItemShape'  BY DEF IInv, TypeOK, JobShape, StopItemShape
  <2>3. ItemSetOwn'     BY DEF IInv, TypeOK, ItemSetOwn
  <2>4. ItemSetInHash'  BY DEF IInv, TypeOK, StopItemShape, ItemSetOwn, ItemSetInHash
  <2> QED  BY <2>1, <2>2, <2>3, <2>4 DEF RedisInv
<1>3. StopInv'
  BY DEF IInv, StopInv, TypeOK, JobShape, RequestShape, KnownIsSaved,
         RunningIsRegistered, StopIsPublished, UnlistedOnlyIfCancelled, NoLongerToSave,
         CancelOnItsWay, Saved
<1> QED  BY <1>1, <1>2, <1>3, Groups, PTL

\* Has_active_tasks.
LEMMA CheckActiveStep ==
  ASSUME IInv, NEW t \in Tasks, CheckActive(t)
  PROVE  IInv'
<1> USE DEF CheckActive, EndTask, redisVars, stopVars, envVars
<1>1. CountersInv'
  <2>1. TypeOK'
    BY DEF IInv, TypeOK, JobShape
  <2>2. JobShape'      BY DEF IInv, TypeOK, JobShape
  <2>3. RequestShape'  BY DEF IInv, TypeOK, RequestShape
  <2> QED  BY <2>1, <2>2, <2>3 DEF CountersInv
<1>2. RedisInv'
  <2>1. KnownIsSaved'   BY DEF IInv, TypeOK, RequestShape, KnownIsSaved, NoLongerToSave
  <2>2. StopItemShape'  BY DEF IInv, TypeOK, JobShape, StopItemShape
  <2>3. ItemSetOwn'     BY DEF IInv, TypeOK, ItemSetOwn
  <2>4. ItemSetInHash'  BY DEF IInv, TypeOK, StopItemShape, ItemSetOwn, ItemSetInHash
  <2> QED  BY <2>1, <2>2, <2>3, <2>4 DEF RedisInv
<1>3. StopInv'
  BY DEF IInv, StopInv, TypeOK, JobShape, RequestShape, KnownIsSaved,
         RunningIsRegistered, StopIsPublished, UnlistedOnlyIfCancelled, NoLongerToSave,
         CancelOnItsWay, Saved
<1> QED  BY <1>1, <1>2, <1>3, Groups, PTL

\* Chat:active=false.
LEMMA ReportInactiveStep ==
  ASSUME IInv, NEW t \in Tasks, ReportInactive(t)
  PROVE  IInv'
<1> USE DEF ReportInactive, EndTask, redisVars, stopVars, envVars
<1>1. CountersInv'
  <2>1. TypeOK'
    BY DEF IInv, TypeOK, JobShape
  <2>2. JobShape'      BY DEF IInv, TypeOK, JobShape
  <2>3. RequestShape'  BY DEF IInv, TypeOK, RequestShape
  <2> QED  BY <2>1, <2>2, <2>3 DEF CountersInv
<1>2. RedisInv'
  <2>1. KnownIsSaved'   BY DEF IInv, TypeOK, RequestShape, KnownIsSaved, NoLongerToSave
  <2>2. StopItemShape'  BY DEF IInv, TypeOK, JobShape, StopItemShape
  <2>3. ItemSetOwn'     BY DEF IInv, TypeOK, ItemSetOwn
  <2>4. ItemSetInHash'  BY DEF IInv, TypeOK, StopItemShape, ItemSetOwn, ItemSetInHash
  <2> QED  BY <2>1, <2>2, <2>3, <2>4 DEF RedisInv
<1>3. StopInv'
  BY SMTT(40) DEF IInv, StopInv, TypeOK, JobShape, RequestShape, KnownIsSaved,
         RunningIsRegistered, StopIsPublished, UnlistedOnlyIfCancelled, NoLongerToSave,
         CancelOnItsWay, Saved
<1> QED  BY <1>1, <1>2, <1>3, Groups, PTL

\* HDEL and SREM: the stop handler has published before.
LEMMA DropStep ==
  ASSUME IInv, NEW caller \in Callers, NEW t \in Tasks, Drop(caller, t)
  PROVE  IInv'
<1> USE DEF Drop, RedisDone, ItemFor, redisVars, stopVars, envVars
<1>1. CountersInv'
  <2>1. TypeOK'
    <3>1. CASE caller = "chat"      BY <3>1, SMTT(40) DEF IInv, TypeOK, JobShape
    <3>2. CASE caller = "callback"  BY <3>2 DEF IInv, TypeOK, JobShape
    <3>3. CASE caller = "stop"
      <4>1. CASE stopItem[t] = NoItem  BY <3>3, <4>1 DEF IInv, TypeOK, JobShape
      <4>2. CASE stopItem[t] \in Chats  BY <3>3, <4>2 DEF IInv, TypeOK, JobShape
      <4> QED  BY <4>1, <4>2 DEF IInv, TypeOK
    <3> QED  BY <3>1, <3>2, <3>3
  <2>2. JobShape'      BY DEF IInv, TypeOK, JobShape
  <2>3. RequestShape'  BY DEF IInv, TypeOK, RequestShape
  <2> QED  BY <2>1, <2>2, <2>3 DEF CountersInv
<1>2. RedisInv'
  <2>1. KnownIsSaved'   BY DEF IInv, TypeOK, RequestShape, KnownIsSaved, NoLongerToSave
  <2>2. StopItemShape'  BY DEF IInv, TypeOK, JobShape, StopItemShape
  <2>3. ItemSetOwn'     BY DEF IInv, TypeOK, ItemSetOwn
  <2>4. ItemSetInHash'  BY DEF IInv, TypeOK, StopItemShape, ItemSetOwn, ItemSetInHash
  <2> QED  BY <2>1, <2>2, <2>3, <2>4 DEF RedisInv
<1>3. StopInv'
  BY DEF IInv, StopInv, TypeOK, JobShape, RequestShape, KnownIsSaved,
         RunningIsRegistered, StopIsPublished, UnlistedOnlyIfCancelled, NoLongerToSave,
         CancelOnItsWay, Saved
<1> QED  BY <1>1, <1>2, <1>3, Groups, PTL

\* SCARD.
LEMMA CountStep ==
  ASSUME IInv, NEW caller \in Callers, NEW t \in Tasks, Count(caller, t)
  PROVE  IInv'
<1> USE DEF Count, RedisDone, ItemFor, redisVars, stopVars, envVars
<1>1. CountersInv'
  <2>1. TypeOK'
    <3>1. CASE caller = "chat"      BY <3>1 DEF IInv, TypeOK, JobShape
    <3>2. CASE caller = "callback"  BY <3>2 DEF IInv, TypeOK, JobShape
    <3>3. CASE caller = "stop"      BY <3>3 DEF IInv, TypeOK, JobShape
    <3> QED  BY <3>1, <3>2, <3>3
  <2>2. JobShape'      BY DEF IInv, TypeOK, JobShape
  <2>3. RequestShape'  BY DEF IInv, TypeOK, RequestShape
  <2> QED  BY <2>1, <2>2, <2>3 DEF CountersInv
<1>2. RedisInv'
  <2>1. KnownIsSaved'   BY DEF IInv, TypeOK, RequestShape, KnownIsSaved, NoLongerToSave
  <2>2. StopItemShape'  BY DEF IInv, TypeOK, JobShape, StopItemShape
  <2>3. ItemSetOwn'     BY DEF IInv, TypeOK, ItemSetOwn
  <2>4. ItemSetInHash'  BY DEF IInv, TypeOK, StopItemShape, ItemSetOwn, ItemSetInHash
  <2> QED  BY <2>1, <2>2, <2>3, <2>4 DEF RedisInv
<1>3. StopInv'
  BY DEF IInv, StopInv, TypeOK, JobShape, RequestShape, KnownIsSaved,
         RunningIsRegistered, StopIsPublished, UnlistedOnlyIfCancelled, NoLongerToSave,
         CancelOnItsWay, Saved
<1> QED  BY <1>1, <1>2, <1>3, Groups, PTL

\* DELETE of the set.
LEMMA DeleteSetStep ==
  ASSUME IInv, NEW caller \in Callers, NEW t \in Tasks, DeleteSet(caller, t)
  PROVE  IInv'
<1> USE DEF DeleteSet, RedisDone, ItemFor, redisVars, stopVars, envVars
<1>1. CountersInv'
  <2>1. TypeOK'
    <3>1. itemSet' \in [Chats -> SUBSET Tasks]  BY DEF IInv, TypeOK
    <3>2. stopItem' \in [Tasks -> Chats \cup {NoItem}]  BY DEF IInv, TypeOK
    <3>3. job' \in [Callers -> [Tasks -> JobStates]]
      <4>1. CASE caller = "stop"  BY <4>1, SMTT(40) DEF IInv, TypeOK
      <4>2. CASE caller # "stop"  BY <4>2 DEF IInv, TypeOK
      <4> QED  BY <4>1, <4>2
    <3> QED  BY <3>1, <3>2, <3>3 DEF IInv, TypeOK
  <2>2. JobShape'      BY DEF IInv, TypeOK, JobShape
  <2>3. RequestShape'  BY DEF IInv, TypeOK, RequestShape
  <2> QED  BY <2>1, <2>2, <2>3 DEF CountersInv
<1>2. RedisInv'
  <2>1. KnownIsSaved'   BY DEF IInv, TypeOK, RequestShape, KnownIsSaved, NoLongerToSave
  <2>2. StopItemShape'  BY DEF IInv, TypeOK, JobShape, StopItemShape
  <2>3. ItemSetOwn'     BY DEF IInv, TypeOK, ItemSetOwn
  <2>4. ItemSetInHash'  BY DEF IInv, TypeOK, StopItemShape, ItemSetOwn, ItemSetInHash
  <2> QED  BY <2>1, <2>2, <2>3, <2>4 DEF RedisInv
<1>3. StopInv'
  BY DEF IInv, StopInv, TypeOK, JobShape, RequestShape, KnownIsSaved,
         RunningIsRegistered, StopIsPublished, UnlistedOnlyIfCancelled, NoLongerToSave,
         CancelOnItsWay, Saved
<1> QED  BY <1>1, <1>2, <1>3, Groups, PTL

\* Only a finally block or a done callback gets here.
LEMMA ForgetStep ==
  ASSUME IInv, NEW caller \in Callers, NEW t \in Tasks, Forget(caller, t)
  PROVE  IInv'
<1> USE DEF Forget, redisVars, stopVars, envVars
<1>1. CountersInv'
  BY DEF IInv, CountersInv, TypeOK, JobShape, RequestShape, KnownIsSaved
<1>2. RedisInv'
  BY DEF IInv, RedisInv, TypeOK, JobShape, RequestShape, KnownIsSaved, StopItemShape,
         ItemSetOwn, ItemSetInHash, NoLongerToSave
<1>3. StopInv'
  BY DEF IInv, StopInv, TypeOK, JobShape, RequestShape, KnownIsSaved,
         RunningIsRegistered, StopIsPublished, UnlistedOnlyIfCancelled, NoLongerToSave,
         CancelOnItsWay, Saved
<1> QED  BY <1>1, <1>2, <1>3, Groups, PTL

\* The listed tasks are saved ones.
LEMMA StopItemStep ==
  ASSUME IInv, NEW c \in Chats, StopItem(c)
  PROVE  IInv'
<1> USE DEF StopItem, StopRequest, redisVars, stopVars, envVars
<1>1. CountersInv'
  BY DEF IInv, CountersInv, TypeOK, JobShape, RequestShape, KnownIsSaved
<1>2. RedisInv'
  BY DEF IInv, RedisInv, TypeOK, JobShape, RequestShape, KnownIsSaved, StopItemShape,
         ItemSetOwn, ItemSetInHash, NoLongerToSave
<1>3. StopInv'
  BY DEF IInv, StopInv, TypeOK, JobShape, RequestShape, KnownIsSaved,
         RunningIsRegistered, StopIsPublished, UnlistedOnlyIfCancelled, NoLongerToSave,
         CancelOnItsWay, Saved
<1> QED  BY <1>1, <1>2, <1>3, Groups, PTL

\* The id came from the hash.
LEMMA StopListedStep ==
  ASSUME IInv, NEW t \in Tasks, StopListed(t)
  PROVE  IInv'
<1> USE DEF StopListed, StopRequest, redisVars, stopVars, envVars
<1>1. CountersInv'
  BY DEF IInv, CountersInv, TypeOK, JobShape, RequestShape, KnownIsSaved
<1>2. RedisInv'
  BY DEF IInv, RedisInv, TypeOK, JobShape, RequestShape, KnownIsSaved, StopItemShape,
         ItemSetOwn, ItemSetInHash, NoLongerToSave
<1>3. StopInv'
  BY DEF IInv, StopInv, TypeOK, JobShape, RequestShape, KnownIsSaved,
         RunningIsRegistered, StopIsPublished, UnlistedOnlyIfCancelled, NoLongerToSave,
         CancelOnItsWay, Saved
<1> QED  BY <1>1, <1>2, <1>3, Groups, PTL

\* HGET.
LEMMA LookupItemStep ==
  ASSUME IInv, NEW t \in Tasks, LookupItem(t)
  PROVE  IInv'
<1> USE DEF LookupItem, redisVars, stopVars, envVars
<1>1. CountersInv'
  BY DEF IInv, CountersInv, TypeOK, JobShape, RequestShape, KnownIsSaved
<1>2. RedisInv'
  BY DEF IInv, RedisInv, TypeOK, JobShape, RequestShape, KnownIsSaved, StopItemShape,
         ItemSetOwn, ItemSetInHash, NoLongerToSave
<1>3. StopInv'
  BY DEF IInv, StopInv, TypeOK, JobShape, RequestShape, KnownIsSaved,
         RunningIsRegistered, StopIsPublished, UnlistedOnlyIfCancelled, NoLongerToSave,
         CancelOnItsWay, Saved
<1> QED  BY <1>1, <1>2, <1>3, Groups, PTL

\* The command is in the inbox, or the instance is not listening.
LEMMA PublishStopStep ==
  ASSUME IInv, NEW t \in Tasks, PublishStop(t)
  PROVE  IInv'
<1> USE DEF PublishStop, redisVars, stopVars, envVars
<1>1. CountersInv'
  BY DEF IInv, CountersInv, TypeOK, JobShape, RequestShape, KnownIsSaved
<1>2. RedisInv'
  BY DEF IInv, RedisInv, TypeOK, JobShape, RequestShape, KnownIsSaved, StopItemShape,
         ItemSetOwn, ItemSetInHash, NoLongerToSave
<1>3. StopInv'
  BY DEF IInv, StopInv, TypeOK, JobShape, RequestShape, KnownIsSaved,
         RunningIsRegistered, StopIsPublished, UnlistedOnlyIfCancelled, NoLongerToSave,
         CancelOnItsWay, Saved
<1> QED  BY <1>1, <1>2, <1>3, Groups, PTL

\* A running task is registered, so the cancellation reaches it.
LEMMA HandleStopStep ==
  ASSUME IInv, NEW t \in Tasks, HandleStop(t)
  PROVE  IInv'
<1> USE DEF HandleStop, redisVars, stopVars, envVars
<1>1. CountersInv'
  BY DEF IInv, CountersInv, TypeOK, JobShape, RequestShape, KnownIsSaved
<1>2. RedisInv'
  BY DEF IInv, RedisInv, TypeOK, JobShape, RequestShape, KnownIsSaved, StopItemShape,
         ItemSetOwn, ItemSetInHash, NoLongerToSave
<1>3. StopInv'
  BY DEF IInv, StopInv, TypeOK, JobShape, RequestShape, KnownIsSaved,
         RunningIsRegistered, StopIsPublished, UnlistedOnlyIfCancelled, NoLongerToSave,
         CancelOnItsWay, Saved
<1> QED  BY <1>1, <1>2, <1>3, Groups, PTL

\* Redis error in create_task.
LEMMA SaveFailsStep ==
  ASSUME IInv, NEW r \in Requests, SaveFails(r)
  PROVE  IInv'
<1> USE DEF SaveFails, Fault, redisVars, stopVars, envVars
<1>1. CountersInv'
  BY DEF IInv, CountersInv, TypeOK, JobShape, RequestShape, KnownIsSaved
<1>2. RedisInv'
  BY DEF IInv, RedisInv, TypeOK, JobShape, RequestShape, KnownIsSaved, StopItemShape,
         ItemSetOwn, ItemSetInHash, NoLongerToSave
<1>3. StopInv'
  BY DEF IInv, StopInv, TypeOK, JobShape, RequestShape, KnownIsSaved,
         RunningIsRegistered, StopIsPublished, UnlistedOnlyIfCancelled, NoLongerToSave,
         CancelOnItsWay, Saved
<1> QED  BY <1>1, <1>2, <1>3, Groups, PTL

\* Redis error in a cleanup or a stop.
LEMMA CleanupFailsStep ==
  ASSUME IInv, NEW caller \in Callers, NEW t \in Tasks, CleanupFails(caller, t)
  PROVE  IInv'
<1> USE DEF CleanupFails, Fault, EndTask, redisVars, stopVars, envVars
<1>1. CountersInv'
  <2>1. TypeOK'
    <3>1. CASE caller = "chat"      BY <3>1, SMTT(40) DEF IInv, TypeOK, JobShape
    <3>2. CASE caller = "callback"  BY <3>2 DEF IInv, TypeOK, JobShape
    <3>3. CASE caller = "stop"      BY <3>3 DEF IInv, TypeOK, JobShape
    <3> QED  BY <3>1, <3>2, <3>3
  <2>2. JobShape'      BY DEF IInv, TypeOK, JobShape
  <2>3. RequestShape'  BY DEF IInv, TypeOK, RequestShape
  <2> QED  BY <2>1, <2>2, <2>3 DEF CountersInv
<1>2. RedisInv'
  <2>1. KnownIsSaved'   BY DEF IInv, TypeOK, RequestShape, KnownIsSaved, NoLongerToSave
  <2>2. StopItemShape'  BY DEF IInv, TypeOK, JobShape, StopItemShape
  <2>3. ItemSetOwn'     BY DEF IInv, TypeOK, ItemSetOwn
  <2>4. ItemSetInHash'  BY DEF IInv, TypeOK, StopItemShape, ItemSetOwn, ItemSetInHash
  <2> QED  BY <2>1, <2>2, <2>3, <2>4 DEF RedisInv
<1>3. StopInv'
  BY DEF IInv, StopInv, TypeOK, JobShape, RequestShape, KnownIsSaved,
         RunningIsRegistered, StopIsPublished, UnlistedOnlyIfCancelled, NoLongerToSave,
         CancelOnItsWay, Saved
<1> QED  BY <1>1, <1>2, <1>3, Groups, PTL

\* The subscription is lost.
LEMMA ListenerDiesStep ==
  ASSUME IInv, NEW i \in Instances, ListenerDies(i)
  PROVE  IInv'
<1> USE DEF ListenerDies, Fault, redisVars, stopVars, envVars
<1>1. CountersInv'
  BY DEF IInv, CountersInv, TypeOK, JobShape, RequestShape, KnownIsSaved
<1>2. RedisInv'
  BY DEF IInv, RedisInv, TypeOK, JobShape, RequestShape, KnownIsSaved, StopItemShape,
         ItemSetOwn, ItemSetInHash, NoLongerToSave
<1>3. StopInv'
  BY DEF IInv, StopInv, TypeOK, JobShape, RequestShape, KnownIsSaved,
         RunningIsRegistered, StopIsPublished, UnlistedOnlyIfCancelled, NoLongerToSave,
         CancelOnItsWay, Saved
<1> QED  BY <1>1, <1>2, <1>3, Groups, PTL

\* The instance's tasks are lost.
LEMMA CrashStep ==
  ASSUME IInv, NEW i \in Instances, Crash(i)
  PROVE  IInv'
<1> USE DEF Crash, Fault, redisVars, stopVars, envVars
<1>1. CountersInv'
  BY DEF IInv, CountersInv, TypeOK, JobShape, RequestShape, KnownIsSaved
<1>2. RedisInv'
  BY DEF IInv, RedisInv, TypeOK, JobShape, RequestShape, KnownIsSaved, StopItemShape,
         ItemSetOwn, ItemSetInHash, NoLongerToSave
<1>3. StopInv'
  BY DEF IInv, StopInv, TypeOK, JobShape, RequestShape, KnownIsSaved,
         RunningIsRegistered, StopIsPublished, UnlistedOnlyIfCancelled, NoLongerToSave,
         CancelOnItsWay, Saved
<1> QED  BY <1>1, <1>2, <1>3, Groups, PTL
-----------------------------------------------------------------------------
\* A step that changes nothing.
LEMMA StutterStep == IInv /\ UNCHANGED vars => IInv'
  BY DEF vars, redisVars, stopVars, envVars, IInv, TypeOK, JobShape, RequestShape,
         KnownIsSaved, StopItemShape, ItemSetOwn, ItemSetInHash, RunningIsRegistered,
         StopIsPublished, UnlistedOnlyIfCancelled, NoLongerToSave, CancelOnItsWay, Saved

\* Every step preserves IInv.
LEMMA NextIInv == IInv /\ [Next]_vars => IInv'
<1> SUFFICES ASSUME IInv, [Next]_vars PROVE IInv'  OBVIOUS
<1>1. CASE \E r \in Requests : FanOut(r)
  BY <1>1, CreateTaskStep, SaveTaskStep, NameTaskStep, ReportActiveStep DEF FanOut
<1>2. CASE \E t \in Tasks : FinishBody(t) \/ InFinally(t) \/ Stopping(t) \/ StopListed(t)
  BY <1>2, FinishBodyStep, AbortCleanupStep, CheckActiveStep, ReportInactiveStep,
     StopListedStep, LookupItemStep, PublishStopStep, HandleStopStep
     DEF InFinally, Stopping
<1>3. CASE \E caller \in Callers, t \in Tasks : Cleanup(caller, t)
  BY <1>3, DropStep, CountStep, DeleteSetStep, ForgetStep DEF Cleanup
<1>4. CASE \E c \in Chats : StopItem(c)
  BY <1>4, StopItemStep
<1>5. CASE Faulty
  BY <1>5, SaveFailsStep, CleanupFailsStep, ListenerDiesStep, CrashStep DEF Faulty
<1>6. CASE UNCHANGED vars
  BY <1>6, StutterStep
<1> QED  BY <1>1, <1>2, <1>3, <1>4, <1>5, <1>6 DEF Next

\* IInv holds in every reachable state.
LEMMA AlwaysIInv == Spec => []IInv
  BY InitIInv, NextIInv, PTL DEF Spec

\* Every variable keeps its type.
THEOREM TypeCorrect == Spec => []TypeOK
<1>1. IInv => TypeOK  BY DEF IInv
<1> QED  BY <1>1, AlwaysIInv, PTL

\* A running task that Redis no longer lists is being cancelled: stop_task
\* publishes the command before it deletes the entry.
THEOREM UnlistedIsCancelled == Spec => []UnlistedOnlyIfCancelled
<1>1. IInv => UnlistedOnlyIfCancelled  BY DEF IInv
<1> QED  BY <1>1, AlwaysIInv, PTL

\* The per-chat sets never hold an id that the hash has lost.
THEOREM SetsWithinHash == Spec => []ItemSetInHash
<1>1. IInv => ItemSetInHash  BY DEF IInv
<1> QED  BY <1>1, AlwaysIInv, PTL

\* A running task can be cancelled by its own instance.
THEOREM RunningCanBeCancelled == Spec => []RunningIsRegistered
<1>1. IInv => RunningIsRegistered  BY DEF IInv
<1> QED  BY <1>1, AlwaysIInv, PTL
=============================================================================
