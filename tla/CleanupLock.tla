---------------------------- MODULE CleanupLock -----------------------------
(***************************************************************************)
(* RedisLock (socket/utils.py) and the two periodic loops of               *)
(* socket/main.py that run under it: periodic_usage_pool_cleanup and       *)
(* periodic_session_pool_cleanup.  They differ in their constants only:    *)
(*                                                                         *)
(*                    Timeout  Period  Attempts  delay between attempts    *)
(*   usage pool          60 s     3 s         3  Timeout/2 .. Timeout      *)
(*   session pool        60 s   120 s         1  -                         *)
(*                                                                         *)
(* Time passes in ticks and is kept in countdowns.  A process that is      *)
(* awake takes its next step within MaxStall ticks (a busy event loop, a   *)
(* slow Redis call).                                                       *)
(***************************************************************************)
EXTENDS Naturals

CONSTANTS
    Procs,       \* server processes; each runs the loop once, from its startup
    Free,        \* the lock key does not exist
    Timeout,     \* WEBSOCKET_REDIS_LOCK_TIMEOUT: EX of the lock key
    Period,      \* the loop's asyncio.sleep
    Attempts,    \* how often aquire_lock is tried
    RetryDelays, \* the sleep between two attempts
    MaxStall     \* how long a process that is awake may take for a step

ASSUME LockConstants ==
    /\ Free \notin Procs
    /\ Timeout \in Nat \ {0}
    /\ Period \in Nat \ {0}
    /\ Attempts \in Nat \ {0}
    /\ RetryDelays \subseteq Nat
    /\ MaxStall \in Nat

VARIABLES
    value,       \* the lock key's value: the lock_id of a process, or Free
    ttl,         \* ticks until the key expires
    pc,          \* where each process is
    timer,       \* ticks until its asyncio.sleep is over
    budget,      \* ticks until its next step must have happened
    tries,       \* failed attempts to acquire the lock
    deadAtBoot   \* history: the processes that were dead when p started

keyVars  == <<value, ttl>>
procVars == <<tries, deadAtBoot>>
vars == <<keyVars, pc, timer, budget, procVars>>

Looping == {"renew", "pass", "sleep"}
Active  == Looping \cup {"acquire", "retry", "release", "delete"}

TypeOK ==
    /\ value \in Procs \cup {Free}
    /\ ttl \in 0..Timeout
    /\ pc \in [Procs -> Active \cup {"off", "skipped", "exited", "dead"}]
    /\ timer \in [Procs -> Nat]
    /\ budget \in [Procs -> Nat]
    /\ tries \in [Procs -> 0..Attempts]
    /\ deadAtBoot \in [Procs -> SUBSET Procs]

Init ==
    /\ value = Free
    /\ ttl = 0
    /\ pc = [p \in Procs |-> "off"]
    /\ timer = [p \in Procs |-> 0]
    /\ budget = [p \in Procs |-> 0]
    /\ tries = [p \in Procs |-> 0]
    /\ deadAtBoot = [p \in Procs |-> {}]
-----------------------------------------------------------------------------
\* p goes on at pc l after a sleep of d ticks (0: at once).
GoTo(p, l, d) ==
    /\ pc' = [pc EXCEPT ![p] = l]
    /\ timer' = [timer EXCEPT ![p] = d]
    /\ budget' = [budget EXCEPT ![p] = IF l \in Active THEN d + MaxStall ELSE 0]

\* The key is set to p with a fresh expiry.
SetKey(p) == value' = p /\ ttl' = Timeout

\* The lifespan of a server process starts the loop.
Boot(p) ==
    /\ pc[p] = "off"
    /\ deadAtBoot' = [deadAtBoot EXCEPT ![p] = {q \in Procs : pc[q] = "dead"}]
    /\ GoTo(p, "acquire", 0)
    /\ UNCHANGED <<keyVars, tries>>

\* Mutant: SET EX without NX.
AcquireWithoutNx(p) ==
    /\ pc[p] = "acquire"
    /\ SetKey(p)
    /\ GoTo(p, "renew", 0)
    /\ UNCHANGED procVars

\* aquire_lock, SET NX EX, succeeds: the loop starts.
Acquire(p) ==
    /\ pc[p] = "acquire"
    /\ value = Free
    /\ SetKey(p)
    /\ GoTo(p, "renew", 0)
    /\ UNCHANGED procVars

\* Mutant: no retry loop around aquire_lock.
MoreTriesNever(p) == FALSE

\* Mutant: the retry loop has no limit.
MoreTriesAlways(p) == TRUE

\* The attempts of the loop around aquire_lock are not used up.
MoreTries(p) == tries[p] + 1 < Attempts

\* It fails and is tried again after a sleep ...
AcquireFails(p) ==
    /\ pc[p] = "acquire"
    /\ value # Free
    /\ MoreTries(p)
    /\ tries' = [tries EXCEPT ![p] = @ + 1]
    /\ \E d \in RetryDelays : GoTo(p, "retry", d)
    /\ UNCHANGED <<keyVars, deadAtBoot>>

WakeToRetry(p) ==
    /\ pc[p] = "retry"
    /\ timer[p] = 0
    /\ GoTo(p, "acquire", 0)
    /\ UNCHANGED <<keyVars, procVars>>

\* ... or not: this process never cleans.
Skip(p) ==
    /\ pc[p] = "acquire"
    /\ value # Free
    /\ ~MoreTries(p)
    /\ GoTo(p, "skipped", 0)
    /\ UNCHANGED <<keyVars, procVars>>

\* The key is gone: the loop ends, and its finally block releases.
EndLoop(p) == GoTo(p, "release", 0) /\ UNCHANGED keyVars

\* Mutant: the renewal does not set the expiry again.
RenewWithoutExpiry(p) ==
    /\ pc[p] = "renew"
    /\ \/ value = Free /\ EndLoop(p)
       \/ value # Free /\ value' = p /\ ttl' = ttl /\ GoTo(p, "pass", 0)
    /\ UNCHANGED procVars

\* renew_lock: SET XX EX, whoever the key belongs to, provided that it exists.
Renew(p) ==
    /\ pc[p] = "renew"
    /\ \/ value = Free /\ EndLoop(p)
       \/ value # Free /\ SetKey(p) /\ GoTo(p, "pass", 0)
    /\ UNCHANGED procVars

\* One pass over the pool, then the sleep.
CleanPass(p) ==
    /\ pc[p] = "pass"
    /\ GoTo(p, "sleep", Period)
    /\ UNCHANGED <<keyVars, procVars>>

\* An entry that the pass deletes has just been deleted by another process:
\* KeyError ends the loop.
PassRaises(p) ==
    /\ pc[p] = "pass"
    /\ GoTo(p, "release", 0)
    /\ UNCHANGED <<keyVars, procVars>>

WakeToRenew(p) ==
    /\ pc[p] = "sleep"
    /\ timer[p] = 0
    /\ pc' = [pc EXCEPT ![p] = "renew"]
    /\ UNCHANGED <<keyVars, timer, budget, procVars>>

\* release_lock: GET and compare ...
ReleaseRead(p) ==
    /\ pc[p] = "release"
    /\ GoTo(p, IF value = p THEN "delete" ELSE "exited", 0)
    /\ UNCHANGED <<keyVars, procVars>>

\* ... then DELETE, in a second round trip.
ReleaseDelete(p) ==
    /\ pc[p] = "delete"
    /\ value' = Free
    /\ ttl' = 0
    /\ GoTo(p, "exited", 0)
    /\ UNCHANGED procVars

\* The process dies; the key stays until it expires.
Die(p) ==
    /\ pc[p] \in Active \cup {"skipped", "exited"}
    /\ GoTo(p, "dead", 0)
    /\ UNCHANGED <<keyVars, procVars>>

Minus1(n) == IF n > 0 THEN n - 1 ELSE 0

\* A tick passes, unless a process has no time left for its next step.
Tick ==
    /\ \A p \in Procs : pc[p] \in Active => budget[p] > 0
    /\ ttl' = Minus1(ttl)
    /\ value' = IF ttl' = 0 THEN Free ELSE value
    /\ timer' = [p \in Procs |-> Minus1(timer[p])]
    /\ budget' = [p \in Procs |-> Minus1(budget[p])]
    /\ UNCHANGED <<pc, procVars>>

Starting(p) == Acquire(p) \/ AcquireFails(p) \/ WakeToRetry(p) \/ Skip(p)
Cleaning(p) == Renew(p) \/ CleanPass(p) \/ WakeToRenew(p)
Ending(p)   == ReleaseRead(p) \/ ReleaseDelete(p)
Outside(p)  == Boot(p) \/ PassRaises(p) \/ Die(p)

Next == Tick \/ \E p \in Procs : Starting(p) \/ Cleaning(p) \/ Ending(p) \/ Outside(p)

Spec == Init /\ [][Next]_vars

\* Time passes and a process that is awake goes on; nobody has to boot, to die
\* or to meet a KeyError.
Fairness ==
    /\ WF_vars(Tick)
    /\ \A p \in Procs : /\ WF_vars(Starting(p))
                        /\ WF_vars(Cleaning(p))
                        /\ WF_vars(Ending(p))

FairSpec == Spec /\ Fairness
-----------------------------------------------------------------------------
\* The lock outlasts the loop's sleep: true of the usage pool's loop, not of
\* the session pool's.
Timely == Period + 2 * MaxStall < Timeout /\ 3 * MaxStall < Timeout

\* RedisLock, "Distributed lock": no two processes clean at the same time.
AtMostOneCleaner ==
    \A p, q \in Procs : pc[p] \in Looping /\ pc[q] \in Looping => p = q

\* A process that releases the lock does not delete the one that another process
\* has acquired since: it still holds it when the DELETE arrives.
DeletesOwnLock == \A p \in Procs : pc[p] = "delete" => value = p

\* After a restart the cleanup comes back: the retries outlast the lock of a
\* process that was already dead when p started.
SkipsOnlyForTheLiving ==
    [][\A p \in Procs : Skip(p) => value \notin deadAtBoot[p]]_vars

\* periodic_session_pool_cleanup, "Reap orphaned SESSION_POOL entries": the loop
\* is periodic.  A process that sleeps after a pass makes another one, or dies.
KeepsCleaning == \A p \in Procs : pc[p] = "sleep" ~> pc[p] \in {"pass", "dead"}

\* Who cleans or releases holds the lock, and the lock outlasts the time he may
\* take: inductive when the constants are Timely.
Holds(p) ==
    /\ pc[p] \in Looping \cup {"release", "delete"} => value = p
    /\ pc[p] \in {"renew", "sleep", "delete"} => ttl > budget[p]
    /\ pc[p] = "pass" => ttl + MaxStall >= Timeout + budget[p]
    /\ pc[p] = "release" => ttl > budget[p] + MaxStall
HolderInv == \A p \in Procs : Holds(p)
KeyShape == value = Free <=> ttl = 0
LockInv == TypeOK /\ KeyShape /\ HolderInv
=============================================================================
