---------------------------- MODULE SessionPool ----------------------------
(* SESSION_POOL and USAGE_POOL of socket/main.py: two Redis hashes that    *)
(* all server processes share, and what a session leaves in the documents. *)
(* A RedisDict call blocks its process, so the handlers of one process run *)
(* one after the other between their awaits; the calls of two processes    *)
(* interleave. Any process may reap or clean at any time: that covers what *)
(* CleanupLock lets happen. Time passes in ticks.                          *)
EXTENDS Integers, FiniteSets

CONSTANTS
    Procs, Sessions,
    HomeOf,             \* the process a session's socket is connected to
    Beat,               \* a connected session sends a heartbeat within Beat ticks
    ReapAfter,          \* SESSION_POOL_TIMEOUT
    UsageAfter,         \* TIMEOUT_DURATION
    MaxOpen,            \* bound on sessions that have or open a document at a time
    MaxUses, MaxCrashes \* bounds

VARIABLES
    sock,               \* "new", "connecting", "open", "closed" or "lost"
    joining,            \* sessions with a connect or user-join under way
    opening,            \* sessions with a ydoc:document:join under way
    pool,               \* the age of a session's entry, or Absent
    usage,              \* the same in the connections of one model; no key if none
    docs,               \* sessions listed as users of a document
    busy,               \* what each process does between two Redis calls
    raised,             \* sessions whose disconnect ended in a KeyError
    late,               \* sessions that closed while they joined
    stray,              \* sessions that closed while they opened a document
    uses, crashes

docVars == <<opening, docs, stray>>
vars == <<sock, joining, pool, usage, docVars, busy, raised, late, uses, crashes>>

Absent == -1
Oldest == IF ReapAfter > UsageAfter THEN ReapAfter + 1 ELSE UsageAfter + 1
\* Mutant: no bound.
OlderForever(age) == age + 1

Older(age) == IF age = Absent \/ age = Oldest THEN age ELSE age + 1

Free == [do |-> "free"]
NoUsage == [s \in Sessions |-> Absent]
InUse(connections) == {s \in Sessions : connections[s] # Absent}

Init ==
    /\ sock = [s \in Sessions |-> "new"]
    /\ joining = {} /\ opening = {}
    /\ pool = [s \in Sessions |-> Absent]
    /\ usage = NoUsage
    /\ docs = {}
    /\ busy = [p \in Procs |-> Free]
    /\ raised = {} /\ late = {} /\ stray = {}
    /\ uses = 0 /\ crashes = 0

----------------------------------------------------------------------------
(* A handler takes the process, its calls follow, and it gives it back. *)
Starts(p, task) == busy[p] = Free /\ busy' = [busy EXCEPT ![p] = task]
Goes(p, task)   == busy' = [busy EXCEPT ![p] = task]
Ends(p)         == busy' = [busy EXCEPT ![p] = Free]
At(p, do)       == busy[p].do = do

(* connect and user-join: the token and the user are awaited first, and    *)
(* the socket may close in between; the entry is written all the same.     *)
BeginJoin(s) ==
    /\ busy[HomeOf[s]] = Free
    /\ sock[s] \in {"new", "open"} /\ s \notin joining
    /\ sock' = [sock EXCEPT ![s] = IF @ = "new" THEN "connecting" ELSE @]
    /\ joining' = joining \cup {s}
    /\ UNCHANGED <<pool, usage, docVars, busy, raised, late, uses, crashes>>

Join(s) ==
    /\ busy[HomeOf[s]] = Free
    /\ s \in joining
    /\ joining' = joining \ {s}
    /\ sock' = [sock EXCEPT ![s] = IF @ = "connecting" THEN "open" ELSE @]
    /\ pool' = [pool EXCEPT ![s] = 0]
    /\ UNCHANGED <<usage, docVars, busy, raised, late, uses, crashes>>

(* heartbeat: HGET, then HSET with the time of now. *)
BeatRead(s) ==
    /\ sock[s] = "open" /\ pool[s] # Absent
    /\ Starts(HomeOf[s], [do |-> "beat", sid |-> s])
    /\ UNCHANGED <<sock, joining, pool, usage, docVars, raised, late, uses, crashes>>

BeatWrite(p) ==
    /\ At(p, "beat")
    /\ pool' = [pool EXCEPT ![busy[p].sid] = 0]
    /\ Ends(p)
    /\ UNCHANGED <<sock, joining, usage, docVars, raised, late, uses, crashes>>

(* usage: only of a session in the pool; the connections of the model are  *)
(* read, and written back with this session.                               *)
UsageRead(s) ==
    /\ uses < MaxUses /\ sock[s] = "open" /\ pool[s] # Absent
    /\ Starts(HomeOf[s], [do |-> "usage", sid |-> s, copy |-> usage])
    /\ uses' = uses + 1
    /\ UNCHANGED <<sock, joining, pool, usage, docVars, raised, late, crashes>>

UsageWrite(p) ==
    /\ At(p, "usage")
    /\ usage' = [busy[p].copy EXCEPT ![busy[p].sid] = 0]
    /\ Ends(p)
    /\ UNCHANGED <<sock, joining, pool, docVars, raised, late, uses, crashes>>

(* ydoc:document:join: only of a session in the pool, but the note and the *)
(* access to it are awaited before the session is added to the users, and  *)
(* the socket may close in between. (YdocDocument has the rest.)           *)
BeginOpen(s) ==
    /\ sock[s] = "open" /\ pool[s] # Absent /\ busy[HomeOf[s]] = Free
    /\ s \notin opening /\ Cardinality((opening \cup docs) \ {s}) < MaxOpen
    /\ opening' = opening \cup {s}
    /\ UNCHANGED <<sock, joining, pool, usage, docs, busy, raised, late, stray, uses, crashes>>

OpenDocument(s) ==
    /\ s \in opening /\ busy[HomeOf[s]] = Free
    /\ opening' = opening \ {s}
    /\ docs' = docs \cup {s} \/ UNCHANGED docs \* no such note, or no access
    /\ UNCHANGED <<sock, joining, pool, usage, busy, raised, late, stray, uses, crashes>>

----------------------------------------------------------------------------
(* disconnect: nothing for a session that is not in the pool. Otherwise    *)
(* its entry goes, then its usage, then its documents; a KeyError of a del *)
(* ends the handler there.                                                 *)
Close(s) ==
    LET p == HomeOf[s] IN
    /\ sock[s] \in {"connecting", "open"}
    /\ sock' = [sock EXCEPT ![s] = "closed"]
    /\ late' = IF s \in joining THEN late \cup {s} ELSE late
    /\ stray' = IF s \in opening THEN stray \cup {s} ELSE stray
    /\ IF pool[s] = Absent THEN busy[p] = Free /\ UNCHANGED busy
       ELSE Starts(p, [do |-> "leave", sid |-> s])
    /\ UNCHANGED <<joining, opening, pool, usage, docs, raised, uses, crashes>>

Raises(p) == raised' = raised \cup {busy[p].sid} /\ Ends(p)

LeavePool(p) ==
    LET s == busy[p].sid IN
    /\ At(p, "leave")
    /\ pool' = [pool EXCEPT ![s] = Absent]
    /\ IF pool[s] = Absent THEN Raises(p)
       ELSE Goes(p, [do |-> "leaveUsage", sid |-> s]) /\ UNCHANGED raised
    /\ UNCHANGED <<sock, joining, usage, docVars, late, uses, crashes>>

LeaveUsageRead(p) ==
    LET s == busy[p].sid IN
    /\ At(p, "leaveUsage")
    /\ Goes(p, [do |-> IF usage[s] = Absent THEN "leaveDocs" ELSE "leaveModel", sid |-> s,
                copy |-> [usage EXCEPT ![s] = Absent]])
    /\ UNCHANGED <<sock, joining, pool, usage, docVars, raised, late, uses, crashes>>

(* Mutant: the handler ends with the usage. *)
LeaveDocsForgotten(p) ==
    /\ At(p, "leaveDocs")
    /\ Ends(p)
    /\ UNCHANGED <<sock, joining, pool, usage, docVars, raised, late, uses, crashes>>

LeaveDocs(p) ==
    /\ At(p, "leaveDocs")
    /\ docs' = docs \ {busy[p].sid}
    /\ Ends(p)
    /\ UNCHANGED <<sock, joining, opening, pool, usage, raised, late, stray, uses, crashes>>

(* The model goes when nobody else uses it, with a del that may find that  *)
(* another process has deleted it; else the other connections are written. *)
LeaveModel(p) ==
    LET s == busy[p].sid
        last == busy[p].copy = NoUsage IN
    /\ At(p, "leaveModel")
    /\ usage' = busy[p].copy
    /\ IF last /\ usage = NoUsage THEN Raises(p)
       ELSE Goes(p, [do |-> "leaveDocs", sid |-> s]) /\ UNCHANGED raised
    /\ UNCHANGED <<sock, joining, pool, docVars, late, uses, crashes>>

----------------------------------------------------------------------------
(* Mutant: the reaper does not wait for the age. *)
IsOrphanAlways(s) == pool[s] # Absent

IsOrphan(s) == pool[s] # Absent /\ pool[s] > ReapAfter

(* The reaper reads an entry and deletes it by what it read; a del that    *)
(* finds nothing ends the reaper's loop.                                   *)
ReapRead(p, s) ==
    /\ IsOrphan(s)
    /\ Starts(p, [do |-> "reap", sid |-> s])
    /\ UNCHANGED <<sock, joining, pool, usage, docVars, raised, late, uses, crashes>>

ReapDelete(p) ==
    /\ At(p, "reap")
    /\ pool' = [pool EXCEPT ![busy[p].sid] = Absent]
    /\ Ends(p)
    /\ UNCHANGED <<sock, joining, usage, docVars, raised, late, uses, crashes>>

(* The usage cleaner reads all connections and writes back those that are  *)
(* not too old, or deletes the model.                                      *)
CleanRead(p) ==
    /\ usage # NoUsage
    /\ Starts(p, [do |-> "clean", copy |-> [s \in Sessions |->
                    IF usage[s] > UsageAfter THEN Absent ELSE usage[s]]])
    /\ UNCHANGED <<sock, joining, pool, usage, docVars, raised, late, uses, crashes>>

CleanWrite(p) ==
    /\ At(p, "clean")
    /\ usage' = busy[p].copy
    /\ Ends(p)
    /\ UNCHANGED <<sock, joining, pool, docVars, raised, late, uses, crashes>>

----------------------------------------------------------------------------
(* A process dies: its sockets are gone, and no disconnect runs. *)
Crash(p) ==
    /\ crashes < MaxCrashes
    /\ crashes' = crashes + 1
    /\ busy' = [busy EXCEPT ![p] = Free]
    /\ sock' = [s \in Sessions |-> IF HomeOf[s] = p /\ sock[s] # "new" THEN "lost" ELSE sock[s]]
    /\ joining' = {s \in joining : HomeOf[s] # p}
    /\ opening' = {s \in opening : HomeOf[s] # p}
    /\ UNCHANGED <<pool, usage, docs, raised, late, stray, uses>>

(* Time passes: no open session is later than Beat with its heartbeat, and *)
(* no process stays in the middle of a handler for longer than a tick.     *)
Tick ==
    /\ \A s \in Sessions : sock[s] = "open" => pool[s] < Beat
    /\ \A p \in Procs : busy[p] = Free
    /\ pool' = [s \in Sessions |-> Older(pool[s])]
    /\ usage' = [s \in Sessions |-> Older(usage[s])]
    /\ <<pool, usage>>' # <<pool, usage>>
    /\ UNCHANGED <<sock, joining, docVars, busy, raised, late, uses, crashes>>

Handler(p) ==
    \/ BeatWrite(p) \/ UsageWrite(p) \/ LeavePool(p) \/ LeaveUsageRead(p)
    \/ LeaveModel(p) \/ LeaveDocs(p) \/ ReapDelete(p) \/ CleanRead(p) \/ CleanWrite(p)
    \/ Crash(p)

Next ==
    \/ Tick
    \/ \E p \in Procs : Handler(p)
    \/ \E p \in Procs, s \in Sessions : ReapRead(p, s)
    \/ \E s \in Sessions : \/ BeginJoin(s) \/ Join(s) \/ BeatRead(s) \/ UsageRead(s)
                           \/ BeginOpen(s) \/ OpenDocument(s) \/ Close(s)

Spec == Init /\ [][Next]_vars

----------------------------------------------------------------------------
TypeOK ==
    /\ sock \in [Sessions -> {"new", "connecting", "open", "closed", "lost"}]
    /\ joining \subseteq Sessions /\ opening \subseteq Sessions
    /\ pool \in [Sessions -> Absent..Oldest]
    /\ usage \in [Sessions -> Absent..Oldest]
    /\ docs \subseteq Sessions /\ raised \subseteq Sessions /\ late \subseteq Sessions
    /\ stray \subseteq Sessions
    /\ uses \in 0..MaxUses /\ crashes \in 0..MaxCrashes

(* A connected session that sends its heartbeats is in the pool, whatever  *)
(* the reapers of other processes read before they delete: its messages    *)
(* are served and its disconnect cleans up.                                *)
LiveIsKnown == \A s \in Sessions : sock[s] = "open" => pool[s] # Absent

(* A socket that closed leaves nothing behind once its disconnect is over  *)
(* or has met a KeyError: no entry, unless it closed while it was joining, *)
(* and no document user, unless it closed while it opened a document.      *)
Leaving(s) == \E p \in Procs : busy[p] # Free /\ busy[p].do \in
                  {"leave", "leaveUsage", "leaveModel", "leaveDocs"} /\ busy[p].sid = s
ClosedIsForgotten ==
    \A s \in Sessions : sock[s] = "closed" /\ ~Leaving(s) /\ s \notin raised =>
        /\ s \notin late => pool[s] = Absent
        /\ s \notin stray => s \notin docs
=============================================================================
