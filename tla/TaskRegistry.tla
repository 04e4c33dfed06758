---------------------------- MODULE TaskRegistry ----------------------------
(***************************************************************************)
(* The background-task registry of backend/open_webui/tasks.py in its      *)
(* Redis mode, with the two callers that give it its hard interleavings:   *)
(* the fan-out loop of chat_completion, which creates one task per model,  *)
(* and process_chat, the task itself, whose finally block deregisters it   *)
(* and tells the browser that the chat is no longer active.                *)
(*                                                                         *)
(* Every await of the code is the end of an action.  A Redis pipeline is   *)
(* one transaction, hence one action; the pipeline and the SCARD and the   *)
(* DELETE that follow it are three.                                        *)
(***************************************************************************)
EXTENDS Naturals, FiniteSets

CONSTANTS
    Instances,   \* server processes that share one Redis
    Chats,       \* the item_id of a task: a chat id
    Requests,    \* calls of POST /api/chat/completions
    Tasks,       \* task ids (uuid4: never reused)
    HomeOf,      \* the instance that serves a request
    ChatOf,      \* the chat a request is about
    RequestOf,   \* the request that creates a task
    NoItem,      \* HGET found nothing
    MaxStops,    \* bound on stop requests
    MaxFaults    \* bound on crashes, Redis errors and lost subscriptions

ASSUME TaskConstants ==
    /\ HomeOf \in [Requests -> Instances]
    /\ ChatOf \in [Requests -> Chats]
    /\ RequestOf \in [Tasks -> Requests]
    /\ NoItem \notin Chats
    /\ MaxStops \in Nat
    /\ MaxFaults \in Nat

VARIABLES
    taskPc,      \* the asyncio.Task: "unborn", "running", "cleaning", "ended", "lost"
    cancel,      \* task.cancel() was called and not yet thrown into the task
    registered,  \* tasks[id] on the task's instance (item_tasks has the same ids)
    named,       \* metadata['task_id'] is set
    requestPc,   \* the fan-out loop
    current,     \* the task whose create_task call the fan-out loop awaits
    hash,        \* Redis HASH  tasks           (field -> chat; the chat is ChatOf)
    itemSet,     \* Redis SET   tasks:item:{id}
    job,         \* cleanup in progress, per caller and task
    stopItem,    \* item_id read by stop_task's HGET
    stopPlan,    \* tasks that a stop handler has listed and not taken up yet
    inbox,       \* tasks whose instance has a stop command to handle: every instance
                 \* gets it, the others find no such task and do nothing
    stops,       \* stop requests so far
    listening,   \* instances whose redis_task_command_listener is alive
    up,          \* instances that have not crashed
    told,        \* the last chat:active event the browser got
    faults

redisVars == <<hash, itemSet>>
stopVars  == <<stopItem, stopPlan, inbox, stops>>
envVars   == <<listening, up, faults>>
vars == <<taskPc, cancel, registered, named, requestPc, current, job, told,
          redisVars, stopVars, envVars>>

Callers == {"chat", "callback", "stop"}
JobStates == {"idle", "publish", "drop", "count", "delete", "forget", "check", "report"}
ItemOf(t) == ChatOf[RequestOf[t]]
Home(t)   == HomeOf[RequestOf[t]]
TasksOf(r) == {t \in Tasks : RequestOf[t] = r}

TypeOK ==
    /\ taskPc \in [Tasks -> {"unborn", "running", "cleaning", "ended", "lost"}]
    /\ cancel \subseteq Tasks
    /\ registered \subseteq Tasks
    /\ named \subseteq Tasks
    /\ requestPc \in [Requests -> {"spawn", "save", "name", "done", "failed"}]
    /\ current \in [Requests -> Tasks \cup {NoItem}]
    /\ hash \subseteq Tasks
    /\ itemSet \in [Chats -> SUBSET Tasks]
    /\ job \in [Callers -> [Tasks -> JobStates]]
    /\ stopItem \in [Tasks -> Chats \cup {NoItem}]
    /\ stopPlan \subseteq Tasks
    /\ inbox \subseteq Tasks
    /\ stops \in 0..MaxStops
    /\ listening \subseteq Instances
    /\ up \subseteq Instances
    /\ told \in [Chats -> {"nothing", "active", "inactive"}]
    /\ faults \in 0..MaxFaults

Init ==
    /\ taskPc = [t \in Tasks |-> "unborn"]
    /\ cancel = {}
    /\ registered = {}
    /\ named = {}
    /\ requestPc = [r \in Requests |-> "spawn"]
    /\ current = [r \in Requests |-> NoItem]
    /\ hash = {}
    /\ itemSet = [c \in Chats |-> {}]
    /\ job = [caller \in Callers |-> [t \in Tasks |-> "idle"]]
    /\ stopItem = [t \in Tasks |-> NoItem]
    /\ stopPlan = {}
    /\ inbox = {}
    /\ stops = 0
    /\ listening = Instances
    /\ up = Instances
    /\ told = [c \in Chats |-> "nothing"]
    /\ faults = 0
-----------------------------------------------------------------------------
(***************************************************************************)
(* chat_completion's fan-out loop and create_task.                         *)
(***************************************************************************)

\* Mutant: redis_save_task is awaited with an id that was never assigned.
CreateTaskWithoutId(r, t) ==
    /\ requestPc[r] = "spawn"
    /\ HomeOf[r] \in up
    /\ t \in TasksOf(r) /\ taskPc[t] = "unborn"
    /\ taskPc' = [taskPc EXCEPT ![t] = "running"]
    /\ registered' = registered \cup {t}
    /\ requestPc' = [requestPc EXCEPT ![r] = "save"]
    /\ UNCHANGED <<cancel, named, current, job, told, redisVars, stopVars, envVars>>

\* create_task up to its await: the asyncio task exists, its done callback is
\* attached and the two in-memory dictionaries know it.
CreateTask(r, t) ==
    /\ requestPc[r] = "spawn"
    /\ HomeOf[r] \in up
    /\ t \in TasksOf(r) /\ taskPc[t] = "unborn"
    /\ taskPc' = [taskPc EXCEPT ![t] = "running"]
    /\ registered' = registered \cup {t}
    /\ current' = [current EXCEPT ![r] = t]
    /\ requestPc' = [requestPc EXCEPT ![r] = "save"]
    /\ UNCHANGED <<cancel, named, job, told, redisVars, stopVars, envVars>>

\* redis_save_task: HSET and SADD in one transaction.
SaveTask(r) ==
    LET t == current[r] IN
    /\ requestPc[r] = "save"
    /\ HomeOf[r] \in up
    /\ hash' = hash \cup {t}
    /\ itemSet' = [itemSet EXCEPT ![ChatOf[r]] = @ \cup {t}]
    /\ requestPc' = [requestPc EXCEPT ![r] = "name"]
    /\ UNCHANGED <<taskPc, cancel, registered, named, current, job, told, stopVars, envVars>>

\* create_task returns: only now does process_chat's metadata carry the id.
NameTask(r) ==
    /\ requestPc[r] = "name"
    /\ HomeOf[r] \in up
    /\ named' = named \cup {current[r]}
    /\ requestPc' = [requestPc EXCEPT ![r] = "spawn"]
    /\ UNCHANGED <<taskPc, cancel, registered, current, job, told, redisVars, stopVars, envVars>>

\* The loop is over: chat:active=true goes to the browser.
ReportActive(r) ==
    /\ requestPc[r] = "spawn"
    /\ HomeOf[r] \in up
    /\ \A t \in TasksOf(r) : taskPc[t] # "unborn"
    /\ requestPc' = [requestPc EXCEPT ![r] = "done"]
    /\ told' = [told EXCEPT ![ChatOf[r]] = "active"]
    /\ UNCHANGED <<taskPc, cancel, registered, named, current, job, redisVars, stopVars, envVars>>
-----------------------------------------------------------------------------
(***************************************************************************)
(* process_chat.  The work itself is abstract: it ends by itself, or when  *)
(* a cancellation is thrown into it.                                       *)
(***************************************************************************)

\* Mutant: no done callback is attached.
EndTaskWithoutCallback(t) ==
    /\ taskPc' = [taskPc EXCEPT ![t] = "ended"]
    /\ job' = [job EXCEPT !["chat"][t] = "idle"]

\* The asyncio task is done: its done callback schedules cleanup_task.
EndTask(t) ==
    /\ taskPc' = [taskPc EXCEPT ![t] = "ended"]
    /\ job' = [job EXCEPT !["chat"][t] = "idle", !["callback"][t] = "drop"]

\* The body returns or raises, and the finally block reads metadata['task_id'].
FinishBody(t) ==
    /\ taskPc[t] = "running"
    /\ cancel' = cancel \ {t}
    /\ IF t \in named
       THEN /\ taskPc' = [taskPc EXCEPT ![t] = "cleaning"]
            /\ job' = [job EXCEPT !["chat"][t] = "drop"]
       ELSE EndTask(t)
    /\ UNCHANGED <<registered, named, requestPc, current, told, redisVars, stopVars, envVars>>

\* A cancellation that reaches the finally block leaves it at its current
\* await ("except Exception" does not catch CancelledError); the emit alone
\* is shielded.  A Redis call that is under way then counts as answered or as
\* not sent: the done callback repeats it.
AbortCleanup(t) ==
    /\ taskPc[t] = "cleaning"
    /\ t \in cancel
    /\ job["chat"][t] # "report"
    /\ cancel' = cancel \ {t}
    /\ EndTask(t)
    /\ UNCHANGED <<registered, named, requestPc, current, told, redisVars, stopVars, envVars>>

\* has_active_tasks in the finally block.
CheckActive(t) ==
    /\ job["chat"][t] = "check"
    /\ IF itemSet[ItemOf(t)] = {}
       THEN job' = [job EXCEPT !["chat"][t] = "report"] /\ UNCHANGED taskPc
       ELSE EndTask(t)
    /\ UNCHANGED <<cancel, registered, named, requestPc, current, told, redisVars, stopVars, envVars>>

\* chat:active=false, then the task is over.
ReportInactive(t) ==
    /\ job["chat"][t] = "report"
    /\ told' = [told EXCEPT ![ItemOf(t)] = "inactive"]
    /\ cancel' = cancel \ {t}
    /\ EndTask(t)
    /\ UNCHANGED <<registered, named, requestPc, current, redisVars, stopVars, envVars>>
-----------------------------------------------------------------------------
(***************************************************************************)
(* redis_cleanup_task and cleanup_task, run for three callers: the finally *)
(* block, the done callback, and stop_task (which stops after the Redis    *)
(* part).                                                                  *)
(***************************************************************************)

\* Mutant: stop_task does not look up the item.
ItemForNoLookup(caller, t) == IF caller = "stop" THEN NoItem ELSE ItemOf(t)

\* The item whose set the caller cleans up: stop_task passes what HGET returned.
ItemFor(caller, t) == IF caller = "stop" THEN stopItem[t] ELSE ItemOf(t)

\* Mutant: stop_task calls cleanup_task where it calls redis_cleanup_task.
RedisDoneForgets(caller, t) ==
    /\ job' = [job EXCEPT ![caller][t] = "forget"]
    /\ UNCHANGED stopItem

\* What the caller does once the Redis part of the cleanup is over.
RedisDone(caller, t) ==
    IF caller = "stop"
    THEN /\ job' = [job EXCEPT ![caller][t] = "idle"]
         /\ stopItem' = [stopItem EXCEPT ![t] = NoItem]
    ELSE /\ job' = [job EXCEPT ![caller][t] = "forget"]
         /\ UNCHANGED stopItem

\* HDEL and SREM in one transaction.
Drop(caller, t) ==
    LET item == ItemFor(caller, t) IN
    /\ job[caller][t] = "drop"
    /\ hash' = hash \ {t}
    /\ IF item = NoItem
       THEN RedisDone(caller, t) /\ UNCHANGED itemSet
       ELSE /\ itemSet' = [itemSet EXCEPT ![item] = @ \ {t}]
            /\ job' = [job EXCEPT ![caller][t] = "count"] /\ UNCHANGED stopItem
    /\ UNCHANGED <<taskPc, cancel, registered, named, requestPc, current, told,
                   stopPlan, inbox, stops, envVars>>

\* SCARD: is the set empty now?
Count(caller, t) ==
    /\ job[caller][t] = "count"
    /\ IF itemSet[ItemFor(caller, t)] = {}
       THEN job' = [job EXCEPT ![caller][t] = "delete"] /\ UNCHANGED stopItem
       ELSE RedisDone(caller, t)
    /\ UNCHANGED <<taskPc, cancel, registered, named, requestPc, current, told,
                   redisVars, stopPlan, inbox, stops, envVars>>

\* DELETE of the whole set key, an await later.
DeleteSet(caller, t) ==
    /\ job[caller][t] = "delete"
    /\ itemSet' = [itemSet EXCEPT ![ItemFor(caller, t)] = {}]
    /\ RedisDone(caller, t)
    /\ UNCHANGED <<taskPc, cancel, registered, named, requestPc, current, told, hash,
                   stopPlan, inbox, stops, envVars>>

\* The in-memory half of cleanup_task.
Forget(caller, t) ==
    /\ job[caller][t] = "forget"
    /\ registered' = registered \ {t}
    /\ job' = [job EXCEPT ![caller][t] = IF caller = "chat" THEN "check" ELSE "idle"]
    /\ UNCHANGED <<taskPc, cancel, named, requestPc, current, told, redisVars, stopVars, envVars>>
-----------------------------------------------------------------------------
(***************************************************************************)
(* stop_item_tasks, stop_task and redis_task_command_listener.             *)
(***************************************************************************)

StopRequest == stops < MaxStops /\ stops' = stops + 1

\* stop_item_tasks lists the chat's set and will stop each of its tasks.
StopItem(c) ==
    /\ StopRequest
    /\ itemSet[c] # {}
    /\ stopPlan' = stopPlan \cup itemSet[c]
    /\ UNCHANGED <<taskPc, cancel, registered, named, requestPc, current, job, told,
                   redisVars, stopItem, inbox, envVars>>

\* POST /api/tasks/stop/{id}, for an id that list_tasks returned.
StopListed(t) ==
    /\ StopRequest
    /\ t \in hash
    /\ stopPlan' = stopPlan \cup {t}
    /\ UNCHANGED <<taskPc, cancel, registered, named, requestPc, current, job, told,
                   redisVars, stopItem, inbox, envVars>>

\* Mutant: the stop command is not published.
LookupItemNoPublish(t) ==
    /\ t \in stopPlan
    /\ job["stop"][t] = "idle"
    /\ stopPlan' = stopPlan \ {t}
    /\ stopItem' = [stopItem EXCEPT ![t] = IF t \in hash THEN ItemOf(t) ELSE NoItem]
    /\ job' = [job EXCEPT !["stop"][t] = "drop"]
    /\ UNCHANGED <<taskPc, cancel, registered, named, requestPc, current, told,
                   redisVars, inbox, stops, envVars>>

\* HGET of the item the task belongs to.
LookupItem(t) ==
    /\ t \in stopPlan
    /\ job["stop"][t] = "idle"
    /\ stopPlan' = stopPlan \ {t}
    /\ stopItem' = [stopItem EXCEPT ![t] = IF t \in hash THEN ItemOf(t) ELSE NoItem]
    /\ job' = [job EXCEPT !["stop"][t] = "publish"]
    /\ UNCHANGED <<taskPc, cancel, registered, named, requestPc, current, told,
                   redisVars, inbox, stops, envVars>>

\* PUBLISH: an instance that is not subscribed at this moment never gets it.
PublishStop(t) ==
    /\ job["stop"][t] = "publish"
    /\ inbox' = IF Home(t) \in listening THEN inbox \cup {t} ELSE inbox
    /\ job' = [job EXCEPT !["stop"][t] = "drop"]
    /\ UNCHANGED <<taskPc, cancel, registered, named, requestPc, current, told,
                   redisVars, stopItem, stopPlan, stops, envVars>>

\* Mutant: the listener looks the task up in Redis.
HandleStopListed(t) ==
    /\ t \in inbox
    /\ inbox' = inbox \ {t}
    /\ cancel' = IF t \in hash /\ taskPc[t] \in {"running", "cleaning"}
                 THEN cancel \cup {t} ELSE cancel
    /\ UNCHANGED <<taskPc, registered, named, requestPc, current, job, told,
                   redisVars, stopItem, stopPlan, stops, envVars>>

\* The command handled by the listener of the task's instance.
HandleStop(t) ==
    /\ t \in inbox
    /\ inbox' = inbox \ {t}
    /\ cancel' = IF t \in registered /\ taskPc[t] \in {"running", "cleaning"}
                 THEN cancel \cup {t} ELSE cancel
    /\ UNCHANGED <<taskPc, registered, named, requestPc, current, job, told,
                   redisVars, stopItem, stopPlan, stops, envVars>>
-----------------------------------------------------------------------------
(***************************************************************************)
(* Faults, at most MaxFaults of them.                                      *)
(***************************************************************************)

Fault == faults < MaxFaults /\ faults' = faults + 1

\* redis_save_task raises: chat_completion fails, its tasks keep running.
SaveFails(r) ==
    /\ Fault
    /\ requestPc[r] = "save"
    /\ requestPc' = [requestPc EXCEPT ![r] = "failed"]
    /\ UNCHANGED <<taskPc, cancel, registered, named, current, job, told, redisVars,
                   stopVars, listening, up>>

\* A Redis call of a cleanup or a stop raises.  The finally block swallows the
\* error and the task ends; the done callback and the stop handler are over.
CleanupFails(caller, t) ==
    /\ Fault
    /\ job[caller][t] \in {"publish", "drop", "count", "delete", "check"}
    /\ IF caller = "chat"
       THEN EndTask(t) /\ UNCHANGED stopItem
       ELSE /\ job' = [job EXCEPT ![caller][t] = "idle"]
            /\ stopItem' = IF caller = "stop" THEN [stopItem EXCEPT ![t] = NoItem] ELSE stopItem
            /\ UNCHANGED taskPc
    /\ UNCHANGED <<cancel, registered, named, requestPc, current, told, redisVars,
                   stopPlan, inbox, stops, listening, up>>

\* The pub/sub connection drops: the listener's loop raises and is not restarted.
ListenerDies(i) ==
    /\ Fault
    /\ i \in listening
    /\ listening' = listening \ {i}
    /\ inbox' = {t \in inbox : Home(t) # i}
    /\ UNCHANGED <<taskPc, cancel, registered, named, requestPc, current, job, told,
                   redisVars, stopItem, stopPlan, stops, up>>

\* The process dies: its memory is gone, Redis keeps what it wrote.
Crash(i) ==
    /\ Fault
    /\ i \in up
    /\ up' = up \ {i}
    /\ listening' = listening \ {i}
    /\ inbox' = {t \in inbox : Home(t) # i}
    /\ taskPc' = [t \in Tasks |-> IF Home(t) = i /\ taskPc[t] # "unborn" THEN "lost" ELSE taskPc[t]]
    /\ registered' = {t \in registered : Home(t) # i}
    /\ cancel' = {t \in cancel : Home(t) # i}
    /\ job' = [caller \in Callers |-> [t \in Tasks |->
                  IF Home(t) = i /\ caller # "stop" THEN "idle" ELSE job[caller][t]]]
    /\ requestPc' = [r \in Requests |->
                       IF HomeOf[r] = i /\ requestPc[r] # "done" THEN "failed" ELSE requestPc[r]]
    /\ UNCHANGED <<named, current, told, redisVars, stopItem, stopPlan, stops>>
-----------------------------------------------------------------------------
FanOut(r) ==
    \/ \E t \in Tasks : CreateTask(r, t)
    \/ SaveTask(r)
    \/ NameTask(r)
    \/ ReportActive(r)

Cleanup(caller, t) ==
    \/ Drop(caller, t)
    \/ Count(caller, t)
    \/ DeleteSet(caller, t)
    \/ Forget(caller, t)

InFinally(t) ==
    \/ AbortCleanup(t)
    \/ CheckActive(t)
    \/ ReportInactive(t)

Stopping(t) ==
    \/ LookupItem(t)
    \/ PublishStop(t)
    \/ HandleStop(t)

Faulty ==
    \/ \E r \in Requests : SaveFails(r)
    \/ \E caller \in Callers, t \in Tasks : CleanupFails(caller, t)
    \/ \E i \in Instances : ListenerDies(i) \/ Crash(i)

Next ==
    \/ \E r \in Requests : FanOut(r)
    \/ \E t \in Tasks : FinishBody(t) \/ InFinally(t) \/ Stopping(t) \/ StopListed(t)
    \/ \E caller \in Callers, t \in Tasks : Cleanup(caller, t)
    \/ \E c \in Chats : StopItem(c)
    \/ Faulty

Spec == Init /\ [][Next]_vars

(***************************************************************************)
(* The event loop runs every ready coroutine and Redis answers: what is    *)
(* ready is fair.  Nothing makes a model answer: FinishBody is fair only   *)
(* once a cancellation is pending.                                         *)
(***************************************************************************)
Fairness ==
    /\ \A r \in Requests : WF_vars(FanOut(r))
    /\ \A t \in Tasks : /\ WF_vars(InFinally(t))
                        /\ WF_vars(Stopping(t))
                        /\ WF_vars(t \in cancel /\ FinishBody(t))
    /\ \A caller \in Callers, t \in Tasks : WF_vars(Cleanup(caller, t))

FairSpec == Spec /\ Fairness
-----------------------------------------------------------------------------
(***************************************************************************)
(* Properties that hold.                                                   *)
(***************************************************************************)

\* The listener that will cancel t has, or has had, the stop command.
CancelOnItsWay(t) ==
    \/ t \in cancel
    \/ t \in inbox
    \/ Home(t) \notin listening

Saved(t) ==
    /\ taskPc[t] # "unborn"
    /\ current[RequestOf[t]] = t => requestPc[RequestOf[t]] \notin {"save", "failed"}

\* A task that still runs its body and is no longer in the Redis hash (so that
\* no administrator sees it and a stop cannot find its chat) is being cancelled:
\* stop_task publishes before it deletes, and every other HDEL comes after the
\* body is over.
UnlistedOnlyIfCancelled ==
    \A t \in Tasks :
        taskPc[t] = "running" /\ Saved(t) /\ t \notin hash => CancelOnItsWay(t)

\* The chat's set never holds an id that the hash has lost: a stop_task that
\* finds no item in the hash, and so skips the SREM, leaves nothing behind.
ItemSetInHash == \A c \in Chats : itemSet[c] \subseteq hash

\* A task that runs its body can be cancelled by its own instance: nobody
\* removes it from the in-memory dictionary before its body is over.
RunningIsRegistered ==
    \A t \in Tasks : taskPc[t] = "running" => t \in registered

\* Without faults a stop request ends the task, wherever it runs.
StopEndsTask == \A t \in Tasks : t \in stopPlan ~> taskPc[t] = "ended"

\* cleanup_task: "Remove a completed or canceled task from the global `tasks`
\* dictionary".  The in-memory dictionaries do not grow: a task that ended is
\* forgotten by its instance.  (Without faults: nobody retries a done callback that
\* a Redis error ends before it has reached the dictionaries.)
EndedIsForgotten == \A t \in Tasks : taskPc[t] = "ended" ~> t \notin registered
-----------------------------------------------------------------------------
(***************************************************************************)
(* The inductive invariant behind the first three.                         *)
(***************************************************************************)

\* Who can be cleaning up after t depends on how far the task has come.
JobShape ==
    \A t \in Tasks :
        /\ job["chat"][t] # "idle" => taskPc[t] = "cleaning"
        /\ taskPc[t] = "cleaning" => job["chat"][t] # "idle"
        /\ job["chat"][t] # "publish"
        /\ job["callback"][t] # "idle" => taskPc[t] = "ended"
        /\ job["stop"][t] \in {"idle", "publish", "drop", "count", "delete"}

\* The task a fan-out loop awaits was created by it.
RequestShape ==
    \A r \in Requests : requestPc[r] \in {"save", "name"} =>
        current[r] \in TasksOf(r) /\ taskPc[current[r]] # "unborn"

\* redis_save_task of t is not still to come.
NoLongerToSave(t) ==
    /\ taskPc[t] # "unborn"
    /\ requestPc[RequestOf[t]] = "save" => current[RequestOf[t]] # t

\* Redis and the stop handlers know only tasks whose save is behind them.
KnownIsSaved ==
    \A t \in Tasks : t \in hash \/ t \in stopPlan \/ job["stop"][t] # "idle"
                        => NoLongerToSave(t)

\* A stop handler that found no item works on a task the hash has lost for good.
StopItemShape ==
    \A t \in Tasks :
        /\ stopItem[t] \in {NoItem, ItemOf(t)}
        /\ job["stop"][t] \in {"publish", "drop"} /\ stopItem[t] = NoItem => t \notin hash

\* A set holds tasks of its own chat only.
ItemSetOwn == \A c \in Chats : \A t \in itemSet[c] : t \in Tasks /\ ItemOf(t) = c

\* stop_task has published before it deletes.
StopIsPublished ==
    \A t \in Tasks : job["stop"][t] = "drop" /\ taskPc[t] = "running" => CancelOnItsWay(t)

\* The conjunction is inductive; TLC checks it and TaskRegistryProof proves it.
IInv ==
    /\ TypeOK
    /\ JobShape
    /\ RequestShape
    /\ KnownIsSaved
    /\ StopItemShape
    /\ ItemSetOwn
    /\ ItemSetInHash
    /\ RunningIsRegistered
    /\ StopIsPublished
    /\ UnlistedOnlyIfCancelled
-----------------------------------------------------------------------------
(***************************************************************************)
(* What the code's own comments promise and the code does not keep.        *)
(***************************************************************************)

Quiet(c) ==
    /\ \A r \in Requests : ChatOf[r] = c => requestPc[r] \in {"done", "failed"}
    /\ \A t \in Tasks : ItemOf(t) = c =>
          /\ taskPc[t] \in {"unborn", "ended", "lost"}
          /\ \A caller \in Callers : job[caller][t] = "idle"

\* process_chat: "Deregister this task, then emit chat:active=false if no others
\* remain".  When all is over the browser was not left with chat:active=true.
QuietIsReportedInactive ==
    \A c \in Chats : Quiet(c) => told[c] # "active"
=============================================================================
