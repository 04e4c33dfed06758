------------------------------ MODULE Services ------------------------------
(***************************************************************************)
(* Components of the server that share no state with one another.  A       *)
(* behaviour exercises one of them, which `part` names, and the others do  *)
(* not move: to interleave components that cannot see each other would     *)
(* only multiply the states.                                               *)
(***************************************************************************)
EXTENDS Integers, FiniteSets

CONSTANTS
    \* CalendarAlert: the scheduler's workers, its settings, one event and its edits
    AlertWorkers, Mortal, Poll, Jitter, Grace, Lookahead, AlertStall, MaxRound, EventStarts,
    Leads, Default, Silent, Moves, Horizon, MaxEdits,
    \* SessionPool
    PoolProcs, Sessions, HomeOf, Beat, ReapAfter, UsageAfter, MaxOpen, MaxUses, MaxCrashes,
    \* OAuthSession
    Requests, Logins, LoginLimit, MaxSessions, MaxTokens, MaxFaults,
    \* ModelList
    Writers, Lists, Unknown,
    \* DirectoryTree
    Dirs, Files, Root, NoRow, Movers, Deleters, Filers,
    \* RateLimiter
    Checkers, MaxLimited, Window, BucketSize, CheckStall, LastTime, MaxAttempts,
    \* ChatStream
    MaxCalls, Apis, RealtimeSaves, IterationLimit, MaxRetries, MaxItems, MaxContinues,
    \* CleanupLock
    LockProcs, NoOwner, Timeout, Period, Attempts, RetryDelays, LockStall

\* Heartbeats come before the reaper does (SESSION_POOL_TIMEOUT).
ASSUME PoolAssumption ==
    /\ HomeOf \in [Sessions -> PoolProcs]
    /\ {Beat, ReapAfter, UsageAfter, MaxOpen, MaxUses, MaxCrashes} \subseteq Nat
    /\ Beat <= ReapAfter
\* A login keeps a session at least: its own (OAUTH_MAX_SESSIONS_PER_USER).
ASSUME OAuthAssumption ==
    /\ LoginLimit \in Nat \ {0} /\ IsFiniteSet(Logins)
    /\ {MaxSessions, MaxFaults} \subseteq Nat /\ MaxTokens \in Nat \ {0}
\* There is a process that lists models, and "no signature" is no list.
ASSUME ModelAssumption == Writers # {} /\ Unknown \notin Lists
\* Neither null nor "no such row" is a directory.
ASSUME TreeAssumption == Root \notin Dirs /\ NoRow \notin Dirs
\* Times, the minutes of a lead, and the bounds are numbers.
ASSUME CalendarAssumption ==
    {Poll, Jitter, Grace, Lookahead, AlertStall, MaxRound, Horizon, MaxEdits}
        \cup EventStarts \cup Leads \subseteq Nat
\* Somebody signs in, and the window is a number of whole buckets (routers/auths.py).
ASSUME LimiterAssumption ==
    /\ IsFiniteSet(Checkers) /\ Checkers # {}
    /\ {MaxLimited, BucketSize} \subseteq Nat \ {0}
    /\ {Window, LastTime, MaxAttempts, CheckStall} \subseteq Nat
    /\ Window % BucketSize = 0
\* The two formats of a stream, and counts.
ASSUME StreamAssumption ==
    /\ Apis \subseteq {"chat", "responses"} /\ RealtimeSaves \subseteq BOOLEAN
    /\ {MaxCalls, IterationLimit, MaxRetries, MaxItems, MaxContinues} \subseteq Nat
\* aquire_lock is tried once at least, for a key that lives a second at least.
ASSUME LockAssumption ==
    /\ NoOwner \notin LockProcs /\ Timeout \in Nat \ {0} /\ Attempts \in Nat \ {0}
    /\ {Period, LockStall} \cup RetryDelays \subseteq Nat

VARIABLES
    part,
    now, event, alertPc, timer, budget, found, loadedLead, userPc, form,
    loaded, edits, failed, written, alerted,
    sock, joining, opening, pool, usage, docs, busy, raised, late, stray, uses, crashes,
    rotates, stored, current, request, login, logout, made, spoilt, unpruned,
    hash, signature, setting, alone,
    parent, place, fresh, move, del, filing,
    clock, counter, expiry, check, attempts, allowed,
    api, realtime, streamPc, output, prior, items, streamed, queue, turn, at,
    iterations, retries, base, sent, row, calls, ran, recorded, cuts, continues,
    value, ttl, pc, lockTimer, lockBudget, tries, deadAtBoot

calendar == <<now, event, alertPc, timer, budget, found, loadedLead, userPc, form,
    loaded, edits, failed, written, alerted>>
sessions == <<sock, joining, opening, pool, usage, docs, busy, raised, late, stray, uses,
    crashes>>
oauth == <<rotates, stored, current, request, login, logout, made, spoilt, unpruned>>
models == <<hash, signature, setting, alone>>
directories == <<parent, place, fresh, move, del, filing>>
limiter == <<clock, counter, expiry, check, attempts, allowed>>
stream == <<api, realtime, streamPc, output, prior, items, streamed, queue, turn, at,
    iterations, retries, base, sent, row, calls, ran, recorded, cuts, continues>>
lock == <<value, ttl, pc, lockTimer, lockBudget, tries, deadAtBoot>>

Calendar == INSTANCE CalendarAlert WITH
    Workers <- AlertWorkers, MaxStall <- AlertStall, Starts <- EventStarts
Pools == INSTANCE SessionPool WITH Procs <- PoolProcs
OAuth == INSTANCE OAuthSession WITH Limit <- LoginLimit
Models == INSTANCE ModelList
Tree == INSTANCE DirectoryTree
Limiter == INSTANCE RateLimiter WITH MaxStall <- CheckStall
Stream == INSTANCE ChatStream WITH
    Limit <- IterationLimit, pc <- streamPc, request <- sent, made <- calls
Lock == INSTANCE CleanupLock WITH
    Procs <- LockProcs, Free <- NoOwner, MaxStall <- LockStall,
    timer <- lockTimer, budget <- lockBudget

Parts == {"calendar", "sessions", "oauth", "models", "directories", "limiter",
    "stream", "lock"}

\* Components that do not run start in one state only.
Init ==
    /\ part \in Parts
    /\ Calendar!Init
    /\ Pools!Init
    /\ OAuth!Init
    /\ Models!Init
    /\ Tree!Init
    /\ Limiter!Init
    /\ Stream!Init
    /\ Lock!Init
    /\ part = "calendar" \/ (timer = [w \in AlertWorkers |-> 0] /\ event.lead = Default)
    /\ part = "oauth" \/ rotates
    /\ part = "stream" \/ (api = "chat" /\ realtime)

Only(p, others) == part = p /\ UNCHANGED <<part, others>>

Next ==
    \/ Only("calendar", <<sessions, oauth, models, directories, limiter, stream, lock>>)
       /\ Calendar!Next
    \/ Only("sessions", <<calendar, oauth, models, directories, limiter, stream, lock>>)
       /\ Pools!Next
    \/ Only("oauth", <<calendar, sessions, models, directories, limiter, stream, lock>>)
       /\ OAuth!Next
    \/ Only("models", <<calendar, sessions, oauth, directories, limiter, stream, lock>>)
       /\ Models!Next
    \/ Only("directories", <<calendar, sessions, oauth, models, limiter, stream, lock>>)
       /\ Tree!Next
    \/ Only("limiter", <<calendar, sessions, oauth, models, directories, stream, lock>>)
       /\ Limiter!Next
    \/ Only("stream", <<calendar, sessions, oauth, models, directories, limiter, lock>>)
       /\ Stream!Next
    \/ Only("lock", <<calendar, sessions, oauth, models, directories, limiter, stream>>)
       /\ Lock!Next

vars == <<part, calendar, sessions, oauth, models, directories, limiter, stream, lock>>

Spec == Init /\ [][Next]_vars
-----------------------------------------------------------------------------
TypeOK ==
    CASE part = "calendar" -> Calendar!TypeOK
      [] part = "sessions" -> Pools!TypeOK
      [] part = "oauth" -> OAuth!TypeOK
      [] part = "models" -> Models!TypeOK
      [] part = "directories" -> Tree!TypeOK
      [] part = "limiter" -> Limiter!TypeOK
      [] part = "stream" -> Stream!TypeOK
      [] part = "lock" -> Lock!TypeOK

\* While an instance stays up and its rounds succeed, every event alerts its user
\* (Calendar).
NotMissed == part = "calendar" => Calendar!NotMissed

\* A connected session that sends heartbeats is in the pool (Pools).
LiveIsKnown == part = "sessions" => Pools!LiveIsKnown

\* A closed socket leaves nothing behind (Pools).
ClosedIsForgotten == part = "sessions" => Pools!ClosedIsForgotten

\* Logins at the same time exceed the limit by less than their number (OAuth).
SessionsStayBounded == part = "oauth" => OAuth!SessionsStayBounded

\* A provider refuses only tokens that were refreshed twice at once, or by a refresh
\* that was cut off (OAuth).
RefusedOnlyInRace == part = "oauth" => OAuth!RefusedOnlyInRace

\* A list that all processes wrote last is the list in Redis (Models).
AgreedIsStored == part = "models" => Models!AgreedIsStored

\* Moves that do not overlap close no cycle (Tree).
NoCycle == part = "directories" => Tree!NoCycle

\* No window lets more attempts pass than the limit and the processes allow (Limiter).
WindowIsLimited == part = "limiter" => Limiter!WindowIsLimited

\* A provider gets every call with its result, and no result alone (Stream).
RequestsArePaired == part = "stream" => Stream!RequestsArePaired

\* No tool runs twice for a call, unless it was cancelled while it ran (Stream).
RunsOnce == part = "stream" => Stream!RunsOnce

\* The results of tools are stored, unless the model was cut off after them (Stream).
KeptUnlessCut == part = "stream" => Stream!KeptUnlessCut

\* A deleted OAuth session does not come back (OAuth).
LoggedOutStaysOut == OAuth!LoggedOutStaysOut

\* A model that every process lists does not leave the shared list (Models).
CommonStays == Models!CommonStays

\* Nobody gives up for the lock of a process that was dead before (Lock).
SkipsOnlyForTheLiving == Lock!SkipsOnlyForTheLiving
=============================================================================
