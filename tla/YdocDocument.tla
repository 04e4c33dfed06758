---------------------------- MODULE YdocDocument ----------------------------
(***************************************************************************)
(* One collaboratively edited document: the Socket.IO handlers of          *)
(* socket/main.py (join, update, leave, disconnect) over the Redis lists   *)
(* and sets of YdocManager (socket/utils.py).  Every Redis call is an      *)
(* action; handlers of the same session run concurrently, as Socket.IO     *)
(* starts a task per event.                                                *)
(*                                                                         *)
(* A Yjs document is the set of the updates applied to it: applying is     *)
(* commutative and idempotent.  An entry of the Redis list is an update    *)
(* or a snapshot, that is, a set of updates.                               *)
(***************************************************************************)
EXTENDS Naturals, Sequences, FiniteSets, SequencesExt

CONSTANTS
    Sessions,    \* Socket.IO sessions
    Updates,     \* edits; each is made once
    AuthorOf,    \* the session that makes an edit
    Present,     \* sessions that have joined before the behaviour starts
    Threshold,   \* COMPACTION_THRESHOLD
    MaxInFlight, \* bound on the update handlers that run at the same time
    Leavers,     \* sessions that may send ydoc:document:leave
    Droppers     \* sessions whose socket may close

ASSUME YdocConstants ==
    /\ AuthorOf \in [Updates -> Sessions]
    /\ Present \subseteq Sessions
    /\ Threshold \in Nat /\ Threshold > MaxInFlight + 2
    /\ MaxInFlight \in Nat
    /\ Leavers \subseteq Sessions
    /\ Droppers \subseteq Sessions

VARIABLES
    list,        \* Redis LIST  {doc}:updates
    users,       \* Redis SET   {doc}:users
    index,       \* sessions whose reverse index holds the document
    room,        \* members of the Socket.IO room doc_{doc}
    pool,        \* sessions in SESSION_POOL
    closed,      \* sessions whose socket is closed
    has,         \* the updates in each client's copy of the document
    joinPc,      \* the join handler of each session
    updatePc,    \* the update handler of each edit
    seen,        \* what the compaction of an update handler has read
    exitPc       \* the leave and the disconnect handler of each session

redisVars  == <<list, users, index>>
socketVars == <<room, pool, closed>>
vars == <<redisVars, socketVars, has, joinPc, updatePc, seen, exitPc>>

Exits == {"leave", "disconnect"}

TypeOK ==
    /\ list \in Seq(SUBSET Updates)
    /\ users \subseteq Sessions /\ index \subseteq Sessions /\ room \subseteq Sessions
    /\ pool \subseteq Sessions /\ closed \subseteq Sessions
    /\ has \in [Sessions -> SUBSET Updates]
    /\ joinPc \in [Sessions -> {"out", "index", "room", "read", "in", "failed"}]
    /\ updatePc \in [Updates -> {"unmade", "push", "length", "range", "replace",
                                 "broadcast", "done"}]
    /\ seen \in [Updates -> Seq(SUBSET Updates)]
    /\ exitPc \in [Exits -> [Sessions -> {"idle", "users", "index", "room", "exists",
                                          "count", "clearList", "clearUsers", "done"}]]

Init ==
    /\ list = << >>
    /\ users = Present /\ index = Present /\ room = Present
    /\ pool = Sessions
    /\ closed = {}
    /\ has = [s \in Sessions |-> {}]
    /\ joinPc = [s \in Sessions |-> IF s \in Present THEN "in" ELSE "out"]
    /\ updatePc = [u \in Updates |-> "unmade"]
    /\ seen = [u \in Updates |-> << >>]
    /\ exitPc = [e \in Exits |-> [s \in Sessions |-> "idle"]]
-----------------------------------------------------------------------------
\* The document that a list of entries stands for.
Content(entries) == UNION ToSet(entries)

(***************************************************************************)
(* ydoc:document:join                                                      *)
(***************************************************************************)
JoinTo(s, l) == joinPc' = [joinPc EXCEPT ![s] = l]

\* The session is known; add_user adds it to the users ...
JoinUsers(s) ==
    /\ joinPc[s] = "out"
    /\ s \in pool
    /\ users' = users \cup {s}
    /\ JoinTo(s, "index")
    /\ UNCHANGED <<list, index, socketVars, has, updatePc, seen, exitPc>>

\* ... and the document to the session's reverse index.
JoinIndex(s) ==
    /\ joinPc[s] = "index"
    /\ index' = index \cup {s}
    /\ JoinTo(s, "room")
    /\ UNCHANGED <<list, users, socketVars, has, updatePc, seen, exitPc>>

\* enter_room raises for a socket that is gone, which ends the handler.
JoinRoom(s) ==
    /\ joinPc[s] = "room"
    /\ IF s \in closed
       THEN JoinTo(s, "failed") /\ UNCHANGED room
       ELSE JoinTo(s, "read") /\ room' = room \cup {s}
    /\ UNCHANGED <<redisVars, pool, closed, has, updatePc, seen, exitPc>>

\* get_updates; the state goes to the client.
JoinRead(s) ==
    /\ joinPc[s] = "read"
    /\ has' = [has EXCEPT ![s] = @ \cup Content(list)]
    /\ JoinTo(s, "in")
    /\ UNCHANGED <<redisVars, socketVars, updatePc, seen, exitPc>>

\* ydoc:document:state: a session in the room asks for the state again.
SendState(s) ==
    /\ s \in room
    /\ list # << >>
    /\ has' = [has EXCEPT ![s] = @ \cup Content(list)]
    /\ UNCHANGED <<redisVars, socketVars, joinPc, updatePc, seen, exitPc>>
-----------------------------------------------------------------------------
(***************************************************************************)
(* ydoc:document:update and append_to_updates                              *)
(***************************************************************************)
UpdateTo(u, l) == updatePc' = [updatePc EXCEPT ![u] = l]

InFlight == {u \in Updates : updatePc[u] \notin {"unmade", "done"}}

\* The author edits its copy, and the handler's checks pass.
Edit(u) ==
    LET s == AuthorOf[u] IN
    /\ updatePc[u] = "unmade"
    /\ joinPc[s] = "in"
    /\ s \in room /\ s \in pool
    /\ Cardinality(InFlight) < MaxInFlight
    /\ has' = [has EXCEPT ![s] = @ \cup {u}]
    /\ UpdateTo(u, "push")
    /\ UNCHANGED <<redisVars, socketVars, joinPc, seen, exitPc>>

\* RPUSH
Push(u) ==
    /\ updatePc[u] = "push"
    /\ list' = Append(list, {u})
    /\ UpdateTo(u, "length")
    /\ UNCHANGED <<users, index, socketVars, has, joinPc, seen, exitPc>>

\* Mutant: the threshold is off by one.
IsLongOffByOne(entries) == Len(entries) > Threshold

IsLong(entries) == Len(entries) >= Threshold

\* LLEN: is it time to compact?
Length(u) ==
    /\ updatePc[u] = "length"
    /\ UpdateTo(u, IF IsLong(list) THEN "range" ELSE "broadcast")
    /\ UNCHANGED <<redisVars, socketVars, has, joinPc, seen, exitPc>>

\* LRANGE: the entries the compaction works on.
ReadRange(u) ==
    /\ updatePc[u] = "range"
    /\ seen' = [seen EXCEPT ![u] = list]
    /\ UpdateTo(u, IF Len(list) <= 1 THEN "broadcast" ELSE "replace")
    /\ UNCHANGED <<redisVars, socketVars, has, joinPc, exitPc>>

\* Mutant: the entry in the middle is in neither half.
CompactedOffByOne(entries) ==
    LET mid == Len(entries) \div 2 IN
    <<Content(SubSeq(entries, 1, mid))>> \o SubSeq(entries, mid + 2, Len(entries))

\* Mutant: the oldest half becomes one entry, but its updates are not merged.
CompactedUnmerged(entries) ==
    LET mid == Len(entries) \div 2 IN
    <<ToSet(SubSeq(entries, 1, mid))>> \o SubSeq(entries, mid + 1, Len(entries))

\* The oldest half becomes one entry.
Compacted(entries) ==
    LET mid == Len(entries) \div 2 IN
    <<Content(SubSeq(entries, 1, mid))>> \o SubSeq(entries, mid + 1, Len(entries))

\* DELETE and RPUSH in one transaction.
Replace(u) ==
    /\ updatePc[u] = "replace"
    /\ list' = Compacted(seen[u])
    /\ UpdateTo(u, "broadcast")
    /\ UNCHANGED <<users, index, socketVars, has, joinPc, seen, exitPc>>

\* The update goes to everybody else in the room.
Broadcast(u) ==
    /\ updatePc[u] = "broadcast"
    /\ has' = [s \in Sessions |->
                 IF s \in room \ {AuthorOf[u]} THEN has[s] \cup {u} ELSE has[s]]
    /\ UpdateTo(u, "done")
    /\ UNCHANGED <<redisVars, socketVars, joinPc, seen, exitPc>>
-----------------------------------------------------------------------------
(***************************************************************************)
(* ydoc:document:leave, and disconnect with remove_user_from_all_documents *)
(***************************************************************************)
ExitTo(e, s, l) == exitPc' = [exitPc EXCEPT ![e][s] = l]

\* Leave: SREM of the session from the users ...
LeaveUsers(s) ==
    /\ s \in Leavers /\ s \in pool
    /\ joinPc[s] = "in"
    /\ exitPc["leave"][s] = "idle"
    /\ users' = users \ {s}
    /\ ExitTo("leave", s, "index")
    /\ UNCHANGED <<list, index, socketVars, has, joinPc, updatePc, seen>>

\* ... SREM of the document from its index ...
LeaveIndex(s) ==
    /\ exitPc["leave"][s] = "index"
    /\ index' = index \ {s}
    /\ ExitTo("leave", s, "room")
    /\ UNCHANGED <<list, users, socketVars, has, joinPc, updatePc, seen>>

\* ... leave_room and the announcement ...
LeaveRoom(s) ==
    /\ exitPc["leave"][s] = "room"
    /\ room' = room \ {s}
    /\ ExitTo("leave", s, "exists")
    /\ UNCHANGED <<redisVars, pool, closed, has, joinPc, updatePc, seen>>

\* ... document_exists ...
LeaveExists(s) ==
    /\ exitPc["leave"][s] = "exists"
    /\ ExitTo("leave", s, IF list # << >> THEN "count" ELSE "done")
    /\ UNCHANGED <<redisVars, socketVars, has, joinPc, updatePc, seen>>

\* The socket closes: disconnect removes the session from SESSION_POOL and reads
\* its reverse index; Socket.IO takes it out of its rooms.
Disconnect(s) ==
    /\ s \in Droppers /\ s \in pool
    /\ closed' = closed \cup {s}
    /\ pool' = pool \ {s}
    /\ room' = room \ {s}
    /\ ExitTo("disconnect", s, IF s \in index THEN "users" ELSE "done")
    /\ UNCHANGED <<redisVars, has, joinPc, updatePc, seen>>

\* Mutant: the session stays among the users.
DropUserNot(s) ==
    /\ exitPc["disconnect"][s] = "users"
    /\ ExitTo("disconnect", s, "count")
    /\ UNCHANGED <<redisVars, socketVars, has, joinPc, updatePc, seen>>

\* SREM of the session from the users.
DropUser(s) ==
    /\ exitPc["disconnect"][s] = "users"
    /\ users' = users \ {s}
    /\ ExitTo("disconnect", s, "count")
    /\ UNCHANGED <<list, index, socketVars, has, joinPc, updatePc, seen>>

\* Where an exit handler goes on when it is through with the document.
AfterClear(e, s) == ExitTo(e, s, IF e = "leave" THEN "done" ELSE "index")

\* Mutant: the document is cleared whether or not it has users.
CountUsersAlways(e, s) ==
    /\ exitPc[e][s] = "count"
    /\ ExitTo(e, s, "clearList")
    /\ UNCHANGED <<redisVars, socketVars, has, joinPc, updatePc, seen>>

\* SMEMBERS: is anybody left?
CountUsers(e, s) ==
    /\ exitPc[e][s] = "count"
    /\ IF users = {} THEN ExitTo(e, s, "clearList") ELSE AfterClear(e, s)
    /\ UNCHANGED <<redisVars, socketVars, has, joinPc, updatePc, seen>>

\* clear_document: DELETE of the updates ...
ClearList(e, s) ==
    /\ exitPc[e][s] = "clearList"
    /\ list' = << >>
    /\ ExitTo(e, s, "clearUsers")
    /\ UNCHANGED <<users, index, socketVars, has, joinPc, updatePc, seen>>

\* ... and DELETE of the users.
ClearUsers(e, s) ==
    /\ exitPc[e][s] = "clearUsers"
    /\ users' = {}
    /\ AfterClear(e, s)
    /\ UNCHANGED <<list, index, socketVars, has, joinPc, updatePc, seen>>

\* DELETE of the reverse index.
DropIndex(s) ==
    /\ exitPc["disconnect"][s] = "index"
    /\ index' = index \ {s}
    /\ ExitTo("disconnect", s, "done")
    /\ UNCHANGED <<list, users, socketVars, has, joinPc, updatePc, seen>>
-----------------------------------------------------------------------------
\* Mutant: the state is read before the room is entered.
JoiningReadFirst(s) ==
    \/ JoinUsers(s) \/ JoinIndex(s)
    \/ /\ joinPc[s] = "room"
       /\ has' = [has EXCEPT ![s] = @ \cup Content(list)]
       /\ JoinTo(s, "read")
       /\ UNCHANGED <<redisVars, socketVars, updatePc, seen, exitPc>>
    \/ /\ joinPc[s] = "read" /\ s \notin closed
       /\ room' = room \cup {s}
       /\ JoinTo(s, "in")
       /\ UNCHANGED <<redisVars, pool, closed, has, updatePc, seen, exitPc>>

Joining(s)  == JoinUsers(s) \/ JoinIndex(s) \/ JoinRoom(s) \/ JoinRead(s)
Updating(u) == Push(u) \/ Length(u) \/ ReadRange(u) \/ Replace(u) \/ Broadcast(u)
Leaving(s)  == LeaveUsers(s) \/ LeaveIndex(s) \/ LeaveRoom(s) \/ LeaveExists(s)
Dropping(s) == Disconnect(s) \/ DropUser(s) \/ DropIndex(s)
Clearing(e, s) == CountUsers(e, s) \/ ClearList(e, s) \/ ClearUsers(e, s)

Next ==
    \/ \E s \in Sessions : Joining(s) \/ SendState(s) \/ Leaving(s) \/ Dropping(s)
    \/ \E u \in Updates : Edit(u) \/ Updating(u)
    \/ \E e \in Exits, s \in Sessions : Clearing(e, s)

Spec == Init /\ [][Next]_vars
-----------------------------------------------------------------------------
\* The edits whose RPUSH is done.
Pushed == {u \in Updates : updatePc[u] \notin {"unmade", "push"}}

\* The compaction keeps the list short, however many handlers push at once.
ListStaysShort == Len(list) < Threshold + Cardinality(InFlight)

\* While somebody has had the document open from the start, Redis keeps every edit,
\* so that whoever comes later gets it: no leave or disconnect of another session
\* clears the document.
EditsAreKept ==
    (\E s \in Present : \A e \in Exits : exitPc[e][s] = "idle")
        => Pushed \subseteq Content(list)

\* Joining loses nothing: a session in the room has every edit that Redis has,
\* except those whose broadcast is still to come.  (The room is entered before the
\* updates are read, and an edit is stored before it is broadcast.)
RoomIsUpToDate ==
    \A s \in room : joinPc[s] = "in" /\ s \notin closed =>
        Content(list) \subseteq has[s] \cup InFlight

\* add_user keeps a reverse index "so disconnect cleanup can look up only the
\* documents this session joined": a session that was in the room when its socket
\* closed is not listed as a user of the document after the cleanup, or the
\* document would never count as unused.  (One whose join was still adding it can
\* stay listed: the cleanup may read the index before the join has written it.)
ClosedMemberIsNoUser ==
    \A s \in closed : joinPc[s] = "in" /\ exitPc["disconnect"][s] = "done" => s \notin users
-----------------------------------------------------------------------------
\* "Rolling compaction: squash oldest half into one snapshot."  Squashing changes
\* the entries, not the document.
CompactionKeepsContent ==
    [][\A u \in Updates : Replace(u) => Content(list') = Content(list)]_list
=============================================================================
