----------------------------- MODULE ChatStore -----------------------------
(* One chat in the database: the chat document, whose "chat" column is     *)
(* always read and written as a whole, and the chat_message rows written   *)
(* beside it (models/chats.py, models/chat_messages.py). Requests and      *)
(* generation tasks work on it in database steps, between which others run. *)
EXTENDS ChatHistory

CONSTANTS
    Jobs,               \* requests and generation tasks
    Old,                \* the history of the chat at the beginning
    Migrated,           \* the sets of its messages that may have a row then
    Turns,              \* the turns a browser may send: [user, replies]
    MaxLoads, MaxSaves, MaxDeletes, MaxFaults   \* bounds

Ids(t) == {t.user} \cup Range(t.replies)
Messages == Known(Old) \cup UNION {Ids(t) : t \in Turns}

Stored == [parent : Messages \cup {None}, children : Seq(Messages), done : BOOLEAN]

(* Every message of a history has its place in the dictionary once. *)
IsHistory(h) ==
    /\ DOMAIN h = {"order", "msg", "current"}
    /\ Known(h) \subseteq Messages
    /\ h.msg \in [Known(h) -> Stored]
    /\ h.order \in Seq(Messages) /\ Range(h.order) = Known(h) /\ IsInjective(h.order)

(* Every parent is there, every childrenIds lists just the messages that    *)
(* name it as parent, and a leaf is reached from the selected message.     *)
IsTree(h) ==
    /\ Unresolved(h.msg) = {}
    /\ \A p \in Known(h) : Range(h.msg[p].children) = Born(h.msg, p)
    /\ h.current = None => Known(h) = {}

ASSUME StoreAssumption ==
    /\ IsHistory(Old)
    /\ Known(Old) \subseteq Nat /\ IsFiniteSet(Known(Old))
    /\ Old.current \in Known(Old) \cup {None}
    /\ None \notin Nat
    /\ \A had \in Migrated : had \subseteq Known(Old)
    /\ \A t \in Turns : /\ t.user \in Nat /\ t.replies \in Seq(Nat)
                        /\ IsInjective(t.replies)
                        /\ \A m \in Range(t.replies) : t.user < m
    /\ {MaxLoads, MaxSaves, MaxDeletes, MaxFaults} \subseteq Nat

(* The chat has so far been left as it should be, and grown downwards. *)
ASSUME OldTreeAssumption ==
    /\ IsTree(Old)
    /\ \A m \in Known(Old) : Old.msg[m].parent # None => Old.msg[m].parent < m

VARIABLES
    doc,                \* chat.history
    rows,               \* chat_message: message |-> [parent, done]
    job,                \* per job: the operations to do, how far the first is
    tab,                \* the history a browser holds
    sent, due,          \* turns sent, replies whose generation is to begin
    loads, saves, deletes, faults,
    calm                \* no two jobs overlapped, nothing failed

vars == <<doc, rows, job, tab, sent, due, loads, saves, deletes, faults, calm>>
counts == <<sent, due, loads, saves, deletes, faults>>

Idle == [ops |-> <<>>, pc |-> "idle", snap |-> Old, todo |-> {}, gone |-> {}, map |-> <<>>]

RowOf(message) == [parent |-> message.parent, done |-> message.done]
RowsOf(h) == [m \in Known(h) |-> RowOf(h.msg[m])]

(* The messages there have been. *)
Arrived == Known(Old) \cup UNION {Ids(t) : t \in sent}

Init ==
    /\ doc = Old
    /\ \E had \in Migrated : rows = [m \in had |-> RowOf(Old.msg[m])]
    /\ job = [j \in Jobs |-> Idle]
    /\ tab = Old
    /\ sent = {} /\ due = {}
    /\ loads = 0 /\ saves = 0 /\ deletes = 0 /\ faults = 0
    /\ calm = TRUE

----------------------------------------------------------------------------
(* The operations of Chats that a request or a task is made of. *)
Op(do, m, data) == [do |-> do, m |-> m, data |-> data]
Touch           == Op("touch", None, <<>>)
Upsert(m, data) == Op("upsert", m, data)
Link(m, ids)    == Op("link", m, ids)
Save(h)         == Op("save", None, h)
Delete(m)       == Op("delete", m, <<>>)
Walk(m)         == Op("walk", m, <<>>)
Tasks(ids)      == Op("tasks", None, ids)

Quiet == \A j \in Jobs : job[j].pc = "idle"

Begin(j, ops) ==
    /\ job[j].pc = "idle"
    /\ job' = [job EXCEPT ![j] = [Idle EXCEPT !.ops = ops, !.pc = "next"]]

Doing(j, do, pc) == job[j].pc = pc /\ Head(job[j].ops).do = do

(* The job after its first operation: the next one, or the end. *)
Done(j) ==
    LET rest == Tail(job[j].ops)
    IN  [Idle EXCEPT !.ops = rest, !.pc = IF rest = <<>> THEN "idle" ELSE "next"]

----------------------------------------------------------------------------
(* A turn of an existing chat: the chat-level fields, the user's message,  *)
(* the link from its parent, the links to the replies, the placeholders;   *)
(* at last the generation tasks are created. The identifiers of a turn are  *)
(* new.                                                                    *)
Placeholders(t) ==
    [i \in DOMAIN t.replies |-> Upsert(t.replies[i], Message(t.user, <<>>, FALSE))]

Send(j, t) ==
    /\ \A m \in Arrived : m < t.user
    /\ Begin(j, <<Touch, Upsert(t.user, Message(tab.current, t.replies, TRUE))>>
                \o (IF tab.current = None THEN <<>> ELSE <<Link(tab.current, <<t.user>>)>>)
                \o <<Link(t.user, t.replies)>> \o Placeholders(t)
                \o <<Tasks(t.replies)>>)
    /\ sent' = sent \cup {t}
    /\ calm' = (calm /\ Quiet /\ tab.current \in Known(doc) \cup {None})
    /\ UNCHANGED <<doc, rows, tab, due, loads, saves, deletes, faults>>

(* The generation of a reply: it loads the messages up to the user's and   *)
(* in the end writes the text, or the error.                               *)
Reply(j, t, m, data) ==
    /\ m \in Range(t.replies) \cap due
    /\ Begin(j, <<Walk(t.user), Upsert(m, data)>>)
    /\ due' = due \ {m}
    /\ calm' = (calm /\ Quiet /\ m \in Known(doc) /\ doc.msg[m].parent = t.user)
    /\ UNCHANGED <<doc, rows, tab, sent, loads, saves, deletes, faults>>

Answer(j) == \E t \in Turns : \E m \in Range(t.replies) : Reply(j, t, m, [done |-> TRUE])
Fail(j) == \E t \in Turns : \E m \in Range(t.replies) : Reply(j, t, m, [parent |-> t.user])

(* POST /chats/{id} with the history the browser holds, and its reload. *)
SaveTab(j) ==
    /\ saves < MaxSaves
    /\ Begin(j, <<Save(tab)>>)
    /\ saves' = saves + 1
    /\ calm' = (calm /\ Quiet)
    /\ UNCHANGED <<doc, rows, tab, sent, due, loads, deletes, faults>>

Reload ==
    /\ tab # RepairCurrent(doc)
    /\ loads < MaxLoads /\ loads' = loads + 1
    /\ doc' = RepairCurrent(doc) /\ tab' = doc'
    /\ UNCHANGED <<rows, job, sent, due, saves, deletes, faults, calm>>

(* DELETE /chats/{id}/messages/{m} *)
DeleteFromTab(j, m) ==
    /\ deletes < MaxDeletes
    /\ m \in Known(tab)
    /\ Begin(j, <<Delete(m)>>)
    /\ deletes' = deletes + 1
    /\ calm' = (calm /\ Quiet)
    /\ UNCHANGED <<doc, rows, tab, sent, due, loads, saves, faults>>

----------------------------------------------------------------------------
(* One database step of a job. Reading the chat may repair `current`, and   *)
(* the repair is stored.                                                   *)
Read == doc' = RepairCurrent(doc)

(* What the operation writes back, computed from the history just read. *)
Changed(op, h) ==
    CASE op.do = "touch"  -> h
      [] op.do = "upsert" -> UpsertMessage(h, op.m, op.data)
      [] op.do = "save"   -> MergeHistory(h, op.data)
      [] op.do = "delete" -> DeleteMessage(h, op.m)

Load(j) ==
    LET op == Head(job[j].ops)
        h  == RepairCurrent(doc)
    IN
    /\ job[j].pc = "next" /\ op.do \in {"touch", "upsert", "save", "delete"}
    /\ Read
    /\ job' = [job EXCEPT ![j] =
                 IF op.do = "delete" /\ op.m \notin Known(doc) THEN Done(j)
                 ELSE [@ EXCEPT !.snap = Changed(op, h),
                                !.pc = IF op.do = "upsert" THEN "row" ELSE "write",
                                !.gone = IF op.do = "delete"
                                         THEN DeletedWith(h, op.m) ELSE {}]]
    /\ UNCHANGED <<rows, tab, counts, calm>>

(* The childrenIds of a message, read by themselves and written back with  *)
(* one more; a message that is not there is not linked, and the parent     *)
(* that already lists the user's message is not written.                   *)
LoadLink(j) ==
    LET op    == Head(job[j].ops)
        ids   == doc.msg[op.m].children
        added == ids \o Sublist(op.data, Range(op.data) \ Range(ids))
        again == \E t \in Turns : t.user = op.m
    IN
    /\ Doing(j, "link", "next")
    /\ Read
    /\ job' = [job EXCEPT ![j] =
                 IF op.m \notin Known(doc) \/ (added = ids /\ ~again) THEN Done(j)
                 ELSE [@ EXCEPT !.ops = <<Upsert(op.m, [children |-> added])>>
                                      \o Tail(job[j].ops)]]
    /\ UNCHANGED <<rows, tab, counts, calm>>

PutRow(m, message) ==
    rows' = [x \in DOMAIN rows \cup {m} |-> IF x = m THEN RowOf(message) ELSE rows[x]]

WriteRow(j) ==
    LET m == Head(job[j].ops).m IN
    /\ Doing(j, "upsert", "row")
    /\ PutRow(m, job[j].snap.msg[m])
    /\ job' = [job EXCEPT ![j].pc = "write"]
    /\ UNCHANGED <<doc, tab, counts, calm>>

(* Mutant: a deletion removes its rows and leaves the others alone. *)
OnlyRemoves(j) ==
    IF Head(job[j].ops).do \in {"save", "delete"}
    THEN [job[j] EXCEPT !.pc = "rows",
                        !.todo = IF job[j].gone = {} THEN Known(job[j].snap) ELSE {}]
    ELSE Done(j)

(* After the document a save and a deletion write the rows of all that is  *)
(* left; the deletion then removes its own.                                *)
AfterWrite(j) ==
    IF Head(job[j].ops).do \in {"save", "delete"} /\ Known(job[j].snap) \cup job[j].gone # {}
    THEN [job[j] EXCEPT !.pc = "rows", !.todo = Known(job[j].snap)] ELSE Done(j)

WriteDoc(j) ==
    /\ job[j].pc = "write"
    /\ doc' = job[j].snap
    /\ job' = [job EXCEPT ![j] = AfterWrite(j)]
    /\ UNCHANGED <<rows, tab, counts, calm>>

(* The order of the rows is the one of a dictionary, or of a set of         *)
(* missing parents; any order is taken.                                    *)
AfterRow(j, m) ==
    IF job[j].todo = {m} /\ job[j].gone = {} THEN Done(j)
    ELSE [job[j] EXCEPT !.todo = @ \ {m}]

BackfillRow(j, m) ==
    /\ job[j].pc = "rows" /\ m \in job[j].todo
    /\ PutRow(m, job[j].snap.msg[m])
    /\ job' = [job EXCEPT ![j] = AfterRow(j, m)]
    /\ UNCHANGED <<doc, tab, counts, calm>>

DeleteRows(j) ==
    /\ job[j].pc = "rows" /\ job[j].todo = {}
    /\ rows' = [m \in DOMAIN rows \ job[j].gone |-> rows[m]]
    /\ job' = [job EXCEPT ![j] = Done(j)]
    /\ UNCHANGED <<doc, tab, counts, calm>>

(* The messages for a model come from the rows; when there are none, or a  *)
(* parent is missing, the chat is read too and what it adds gets its rows. *)
WalkRows(j) ==
    /\ Doing(j, "walk", "next")
    /\ IF rows = <<>> \/ Unresolved(rows) # {}
       THEN job' = [job EXCEPT ![j].pc = "chat", ![j].map = rows]
       ELSE job' = [job EXCEPT ![j] = Done(j)]
    /\ UNCHANGED <<doc, rows, tab, counts, calm>>

WalkChat(j) ==
    LET map     == job[j].map
        missing == IF map = <<>> THEN Known(doc) ELSE Unresolved(map) \cap Known(doc)
    IN
    /\ Doing(j, "walk", "chat")
    /\ Read
    /\ job' = [job EXCEPT ![j] =
                 IF missing = {} THEN Done(j)
                 ELSE [@ EXCEPT !.pc = "rows", !.snap = doc, !.map = <<>>, !.todo = missing]]
    /\ UNCHANGED <<rows, tab, counts, calm>>

(* The generation tasks of the turn are created. *)
CreateTasks(j) ==
    /\ Doing(j, "tasks", "next")
    /\ due' = due \cup Range(Head(job[j].ops).data)
    /\ job' = [job EXCEPT ![j] = Done(j)]
    /\ UNCHANGED <<doc, rows, tab, sent, loads, saves, deletes, faults, calm>>

----------------------------------------------------------------------------
(* Faults: a failing write of a row or of the document is logged or        *)
(* swallowed and the job goes on; a job may also end between two steps.    *)
Fault == faults < MaxFaults /\ faults' = faults + 1 /\ calm' = FALSE

RowFails(j) ==
    /\ Fault
    /\ \/ /\ Doing(j, "upsert", "row")
          /\ job' = [job EXCEPT ![j].pc = "write"]
       \/ \E m \in job[j].todo :
             job[j].pc = "rows" /\ job' = [job EXCEPT ![j] = AfterRow(j, m)]
    /\ UNCHANGED <<doc, rows, tab, sent, due, loads, saves, deletes>>

DocFails(j) ==
    /\ Fault
    /\ job[j].pc = "write"
    /\ job' = [job EXCEPT ![j] = AfterWrite(j)]
    /\ UNCHANGED <<doc, rows, tab, sent, due, loads, saves, deletes>>

Abort(j) ==
    /\ Fault
    /\ job[j].pc # "idle"
    /\ job' = [job EXCEPT ![j] = Idle]
    /\ UNCHANGED <<doc, rows, tab, sent, due, loads, saves, deletes>>

Step(j) ==
    \/ Load(j) \/ LoadLink(j) \/ WriteRow(j) \/ WriteDoc(j) \/ DeleteRows(j)
    \/ \E m \in job[j].todo : BackfillRow(j, m)
    \/ WalkRows(j) \/ WalkChat(j) \/ CreateTasks(j)

Next ==
    \/ Reload
    \/ \E j \in Jobs :
          \/ \E t \in Turns : Send(j, t)
          \/ Answer(j) \/ Fail(j) \/ SaveTab(j)
          \/ \E m \in Messages : DeleteFromTab(j, m)
          \/ Step(j)
          \/ RowFails(j) \/ DocFails(j) \/ Abort(j)

Spec == Init /\ [][Next]_vars

----------------------------------------------------------------------------
(* The types; and every message of a stored document has its place in the  *)
(* dictionary once, whatever the operations that wrote the document.       *)
TypeOK ==
    /\ IsHistory(doc)
    /\ DOMAIN rows \subseteq Messages
    /\ \A j \in Jobs : job[j].pc \in {"idle", "next", "row", "write", "rows", "chat"}
    /\ sent \subseteq Turns /\ due \subseteq Messages
    /\ loads \in 0..MaxLoads /\ saves \in 0..MaxSaves
    /\ deletes \in 0..MaxDeletes /\ faults \in 0..MaxFaults
    /\ calm \in BOOLEAN

(* The selected message of a stored document exists, whichever of two      *)
(* overlapping writers wrote the document last and whatever it had read.   *)
CurrentIsMessage == doc.current \in Known(doc) \cup {None}

(* Requests that do not overlap leave a tree, also when they delete from    *)
(* its middle or save a copy of the chat from before.                      *)
TreeWhenCalm == calm /\ Quiet => IsTree(doc)

(* Requests that do not overlap keep the rows equal to the document: no    *)
(* row outlives its message, and every message that came since has one.    *)
RowsMatchWhenCalm ==
    calm /\ Quiet =>
      /\ \A m \in DOMAIN rows : m \in Known(doc) /\ rows[m] = RowOf(doc.msg[m])
      /\ Known(doc) \ Known(Old) \subseteq DOMAIN rows

(* A turn whose request has ended stays in the document, as nobody deletes *)
(* from the chat and nothing fails, also when the browser saves the chat.  *)
SentIsKept ==
    Quiet /\ deletes = 0 /\ faults = 0 =>
      \A t \in sent : Ids(t) \subseteq Known(doc)
=============================================================================
