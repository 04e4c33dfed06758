--------------------------- MODULE SessionsProof ----------------------------
(***************************************************************************)
(* What Services promises of sessions: those of the sockets (SessionPool)  *)
(* and those of OAuth providers (OAuthSession), for any number of          *)
(* processes, sessions, requests and logins; and, with the invariants of   *)
(* ServicesProof, that every component keeps its types.                    *)
(***************************************************************************)
EXTENDS ServicesProof

\* A step of Services is one of the component, or leaves the component alone.
LEMMA SessionsStep ==
  ASSUME [Next]_vars
  PROVE  /\ [Pools!Next]_(Pools!vars)
         /\ [OAuth!Next]_(OAuth!oauthVars)
<1> USE DEF sessions, oauth, Pools!vars, Pools!docVars, OAuth!oauthVars, OAuth!faults
<1>1. CASE UNCHANGED vars
  BY <1>1 DEF vars
<1>2. CASE Next
  BY <1>2 DEF Next, Only
<1> QED  BY <1>1, <1>2

LEMMA SessionsInit == Init => Pools!Init /\ OAuth!Init
  BY DEF Init
-----------------------------------------------------------------------------
Ages == Pools!Absent..Pools!Oldest
Copies == [Sessions -> Ages]
Leaves == {"leave", "leaveUsage", "leaveModel", "leaveDocs"}

\* What a process does between two Redis calls.
Tasks ==
    {Pools!Free}
    \cup [do : {"beat", "leave", "leaveUsage", "leaveDocs", "reap"}, sid : Sessions]
    \cup [do : {"usage", "leaveModel", "leaveDocs"}, sid : Sessions, copy : Copies]
    \cup [do : {"clean"}, copy : Copies]

PoolType ==
    /\ sock \in [Sessions -> {"new", "connecting", "open", "closed", "lost"}]
    /\ joining \subseteq Sessions /\ opening \subseteq Sessions
    /\ pool \in Copies /\ usage \in Copies
    /\ docs \subseteq Sessions /\ raised \subseteq Sessions /\ late \subseteq Sessions
    /\ stray \subseteq Sessions
    /\ busy \in [PoolProcs -> Tasks]
    /\ uses \in 0..MaxUses /\ crashes \in 0..MaxCrashes

\* An open socket's entry is young, and one that has not joined has none.
Entered ==
    \A s \in Sessions :
        /\ sock[s] = "open" => pool[s] \in 0..Beat
        /\ sock[s] \in {"new", "connecting"} =>
               pool[s] = Pools!Absent /\ s \notin docs \cup opening
        /\ s \in joining => sock[s] # "new"

\* What a process is about to write or to delete: a heartbeat or a use of a
\* session that is still connected to it, or what a session has left.
Minds ==
    \A p \in PoolProcs :
        /\ busy[p].do \in {"beat", "usage"} =>
               HomeOf[busy[p].sid] = p /\ sock[busy[p].sid] = "open"
        /\ busy[p].do \in {"reap"} \cup Leaves => sock[busy[p].sid] \in {"closed", "lost"}
        /\ busy[p].do \in Leaves => HomeOf[busy[p].sid] = p

\* A disconnect that is past the pool has taken the entry away, unless the
\* session closed while it was joining; who goes on to open a document after its
\* socket has closed is known for it.
Forgets ==
    /\ \A s \in Sessions : sock[s] = "closed" /\ s \in joining => s \in late
    /\ \A s \in Sessions : sock[s] = "closed" /\ s \in opening => s \in stray
    /\ \A p \in PoolProcs : busy[p].do \in Leaves \ {"leave"} =>
           pool[busy[p].sid] = Pools!Absent \/ busy[p].sid \in late

PoolInv == PoolType /\ Entered /\ Minds /\ Forgets /\ Pools!ClosedIsForgotten
-----------------------------------------------------------------------------
\* The kinds of tasks.
LEMMA TaskShape ==
  /\ \A t \in Tasks :
       /\ t.do \in {"free", "beat", "usage", "reap", "clean"} \cup Leaves
       /\ t.do \in {"beat", "usage", "reap"} \cup Leaves => t.sid \in Sessions
       /\ t.do \in {"usage", "leaveModel", "clean"} => t.copy \in Copies
       /\ t.do = "free" => t = Pools!Free
  /\ Pools!Free \in Tasks /\ Pools!Free.do = "free"
  /\ \A s \in Sessions, do \in {"beat", "leave", "leaveUsage", "leaveDocs", "reap"} :
       [do |-> do, sid |-> s] \in Tasks
  /\ \A s \in Sessions, c \in Copies, do \in {"usage", "leaveModel", "leaveDocs"} :
       [do |-> do, sid |-> s, copy |-> c] \in Tasks
  /\ \A c \in Copies : [do |-> "clean", copy |-> c] \in Tasks
  BY DEF Tasks, Leaves, Pools!Free

LEMMA AgesAreNumbers ==
  /\ Beat \in Nat /\ 0 \in 0..Beat /\ 0 \in Ages /\ -1 \in Ages /\ 0..Beat \subseteq Ages
  /\ Pools!Absent = -1 /\ Pools!Oldest \in Nat /\ ReapAfter < Pools!Oldest
  /\ Pools!NoUsage \in Copies
<1>1. Pools!Absent = -1 /\ Pools!Oldest \in Nat /\ ReapAfter < Pools!Oldest
  BY PoolAssumption DEF Pools!Oldest, Pools!Absent
<1>2. Beat \in Nat /\ 0 \in 0..Beat /\ 0 \in Ages /\ -1 \in Ages /\ 0..Beat \subseteq Ages
  BY <1>1, PoolAssumption DEF Ages
<1>3. Pools!NoUsage \in Copies
  BY <1>1, <1>2 DEF Pools!NoUsage, Copies
<1> QED  BY <1>1, <1>2, <1>3

\* A tick makes an entry older, neither puts it in nor takes it out, and leaves
\* one that may be that of an open session young enough.
LEMMA OlderIsAge ==
  ASSUME NEW a \in Ages
  PROVE  /\ a \in Int /\ Pools!Older(a) \in Ages
         /\ Pools!Older(a) = Pools!Absent <=> a = Pools!Absent
         /\ (a \in 0..Beat /\ a < Beat) => Pools!Older(a) \in 0..Beat
  BY AgesAreNumbers DEF Ages, Pools!Older

LEMMA InitPoolInv == Pools!Init => PoolInv
<1> SUFFICES ASSUME Pools!Init PROVE PoolInv
  OBVIOUS
<1> USE DEF Pools!Init
<1>1. PoolType
  BY AgesAreNumbers, TaskShape, PoolAssumption DEF PoolType, Copies
<1>2. Entered /\ Minds /\ Forgets /\ Pools!ClosedIsForgotten
  BY TaskShape DEF Entered, Minds, Forgets, Pools!ClosedIsForgotten, Leaves
<1> QED  BY <1>1, <1>2 DEF PoolInv

LEMMA BeginJoinStep == ASSUME PoolInv, NEW s \in Sessions, Pools!BeginJoin(s) PROVE PoolInv'
<1> USE DEF PoolInv, Pools!BeginJoin, Pools!Leaving, Pools!docVars
<1>1. PoolType'  BY DEF PoolType
<1>2. Entered'   BY DEF PoolType, Entered
<1>3. Minds'     BY DEF PoolType, Minds
<1>4. Forgets'   BY DEF PoolType, Forgets
<1>5. Pools!ClosedIsForgotten'  BY DEF PoolType, Pools!ClosedIsForgotten
<1> QED  BY <1>1, <1>2, <1>3, <1>4, <1>5

LEMMA JoinStep == ASSUME PoolInv, NEW s \in Sessions, Pools!Join(s) PROVE PoolInv'
<1> USE DEF PoolInv, Pools!Join, Pools!Leaving, Pools!docVars
<1>1. PoolType'  BY AgesAreNumbers, PoolAssumption DEF PoolType, Copies
<1>2. Entered'
  <2>1. pool'[s] = 0 /\ sock[s] # "new" /\ sock'[s] \notin {"new", "connecting"}
    BY DEF PoolType, Copies, Entered
  <2>2. \A t \in Sessions \ {s} : pool'[t] = pool[t] /\ sock'[t] = sock[t]
    BY DEF PoolType, Copies
  <2> QED  BY <2>1, <2>2, AgesAreNumbers DEF Entered
<1>3. Minds'     BY DEF PoolType, Minds
<1>4. Forgets'   BY TaskShape DEF PoolType, Minds, Forgets, Leaves
<1>5. Pools!ClosedIsForgotten'  BY DEF PoolType, Forgets, Pools!ClosedIsForgotten
<1> QED  BY <1>1, <1>2, <1>3, <1>4, <1>5

LEMMA BeatReadStep == ASSUME PoolInv, NEW s \in Sessions, Pools!BeatRead(s) PROVE PoolInv'
<1> USE DEF PoolInv, Pools!BeatRead, Pools!Starts, Pools!Leaving, Pools!docVars
<1>1. HomeOf[s] \in PoolProcs
  BY PoolAssumption
<1>2. PoolType'  BY <1>1, TaskShape DEF PoolType
<1>3. Entered'   BY DEF PoolType, Entered
<1>4. Minds'     BY <1>1, TaskShape DEF PoolType, Minds, Leaves
<1>5. Forgets'   BY <1>1, TaskShape DEF PoolType, Forgets, Leaves
<1>6. Pools!ClosedIsForgotten'
  BY <1>1, TaskShape DEF PoolType, Pools!ClosedIsForgotten, Leaves
<1> QED  BY <1>2, <1>3, <1>4, <1>5, <1>6

LEMMA UsageReadStep == ASSUME PoolInv, NEW s \in Sessions, Pools!UsageRead(s) PROVE PoolInv'
<1> USE DEF PoolInv, Pools!UsageRead, Pools!Starts, Pools!Leaving, Pools!docVars
<1>1. HomeOf[s] \in PoolProcs
  BY PoolAssumption
<1>2. PoolType'
  <2>1. uses' \in 0..MaxUses
    BY PoolAssumption DEF PoolType
  <2>2. [do |-> "usage", sid |-> s, copy |-> usage] \in Tasks
    BY TaskShape DEF PoolType
  <2>3. busy' \in [PoolProcs -> Tasks]
    BY <1>1, <2>2 DEF PoolType
  <2> QED  BY <2>1, <2>3 DEF PoolType
<1>3. Entered'   BY DEF PoolType, Entered
<1>4. Minds'     BY <1>1, TaskShape DEF PoolType, Minds, Leaves
<1>5. Forgets'   BY <1>1, TaskShape DEF PoolType, Forgets, Leaves
<1>6. Pools!ClosedIsForgotten'
  BY <1>1, TaskShape DEF PoolType, Pools!ClosedIsForgotten, Leaves
<1> QED  BY <1>2, <1>3, <1>4, <1>5, <1>6

LEMMA BeginOpenStep ==
  ASSUME PoolInv, NEW s \in Sessions, Pools!BeginOpen(s) PROVE PoolInv'
<1> USE DEF PoolInv, Pools!Leaving
<1>1. /\ sock[s] = "open" /\ opening' = opening \cup {s}
      /\ UNCHANGED <<sock, joining, pool, usage, docs, busy, raised, late, stray, uses, crashes>>
  BY DEF Pools!BeginOpen
<1>2. PoolType'  BY <1>1 DEF PoolType
<1>3. Entered'   BY <1>1 DEF Entered
<1>4. Minds'     BY <1>1 DEF Minds
<1>5. Forgets'   BY <1>1 DEF Forgets
<1>6. Pools!ClosedIsForgotten'  BY <1>1 DEF Pools!ClosedIsForgotten
<1> QED  BY <1>2, <1>3, <1>4, <1>5, <1>6

\* The document may get a user whose socket has closed, but then it is stray.
LEMMA OpenDocumentStep ==
  ASSUME PoolInv, NEW s \in Sessions, Pools!OpenDocument(s) PROVE PoolInv'
<1> USE DEF PoolInv, Pools!Leaving
<1>1. /\ s \in opening /\ opening' = opening \ {s} /\ docs' \in {docs, docs \cup {s}}
      /\ UNCHANGED <<sock, joining, pool, usage, busy, raised, late, stray, uses, crashes>>
  BY DEF Pools!OpenDocument
<1>2. PoolType'  BY <1>1 DEF PoolType
<1>3. Entered'   BY <1>1 DEF Entered
<1>4. Minds'     BY <1>1 DEF Minds
<1>5. Forgets'   BY <1>1 DEF Forgets
<1>6. Pools!ClosedIsForgotten'  BY <1>1 DEF Forgets, Pools!ClosedIsForgotten
<1> QED  BY <1>2, <1>3, <1>4, <1>5, <1>6

LEMMA CloseStep == ASSUME PoolInv, NEW s \in Sessions, Pools!Close(s) PROVE PoolInv'
<1> USE DEF PoolInv, Pools!Close, Pools!Starts, Pools!Leaving, Pools!docVars
<1>1. HomeOf[s] \in PoolProcs
  BY PoolAssumption
<1>2. busy[HomeOf[s]] = Pools!Free
  OBVIOUS
<1>3. PoolType'
  BY <1>1, TaskShape DEF PoolType
<1>4. Entered'   BY DEF PoolType, Entered
<1>5. Minds'
  <2>1. \A p \in PoolProcs \ {HomeOf[s]} : busy'[p] = busy[p]
    BY DEF PoolType
  <2>2. busy'[HomeOf[s]] \in {Pools!Free, [do |-> "leave", sid |-> s]}
    BY <1>1, <1>2 DEF PoolType
  <2>3. sock'[s] = "closed" /\ \A t \in Sessions \ {s} : sock'[t] = sock[t]
    BY DEF PoolType
  <2> QED
    BY <1>1, <2>1, <2>2, <2>3, TaskShape DEF PoolType, Minds, Leaves
<1>6. Forgets'
  BY <1>1, TaskShape DEF PoolType, Forgets, Leaves
<1>7. Pools!ClosedIsForgotten'
  <2> SUFFICES ASSUME NEW t \in Sessions, sock'[t] = "closed", ~Pools!Leaving(t)',
                      t \notin raised'
               PROVE  /\ t \notin late' => pool'[t] = Pools!Absent
                      /\ t \notin stray' => t \notin docs'
    BY DEF Pools!ClosedIsForgotten
  <2>1. CASE t = s /\ pool[s] # Pools!Absent
    BY <1>1, <2>1, TaskShape DEF PoolType
  <2>2. CASE t = s /\ pool[s] = Pools!Absent
    BY <2>2, AgesAreNumbers DEF PoolType, Entered
  <2>3. CASE t # s
    <3>1. sock[t] = "closed" /\ t \notin raised
      BY <2>3 DEF PoolType
    <3>2. ~Pools!Leaving(t)
      BY <1>1, <1>2, <2>3, TaskShape DEF PoolType
    <3> QED  BY <3>1, <3>2 DEF Pools!ClosedIsForgotten
  <2> QED  BY <2>1, <2>2, <2>3
<1> QED  BY <1>3, <1>4, <1>5, <1>6, <1>7

LEMMA BeatWriteStep == ASSUME PoolInv, NEW p \in PoolProcs, Pools!BeatWrite(p) PROVE PoolInv'
<1> USE DEF PoolInv, Pools!BeatWrite, Pools!At, Pools!Ends, Pools!Leaving, Pools!docVars
<1> DEFINE s == busy[p].sid
<1>1. s \in Sessions /\ sock[s] = "open" /\ busy[p] \in Tasks
  BY TaskShape DEF PoolType, Minds
<1>2. PoolType'  BY <1>1, AgesAreNumbers, TaskShape DEF PoolType, Copies
<1>3. Entered'   BY <1>1, AgesAreNumbers DEF PoolType, Copies, Entered
<1>4. Minds'     BY TaskShape DEF PoolType, Minds, Leaves
<1>5. Forgets'
  <2>1. \A q \in PoolProcs : busy[q].do \in Leaves => busy[q].sid # s
    BY <1>1 DEF Minds
  <2>2. \A t \in Sessions : t # s => pool'[t] = pool[t]
    BY DEF PoolType, Copies
  <2>3. \A q \in PoolProcs : (busy'[q] = busy[q] \/ busy'[q] = Pools!Free)
    BY DEF PoolType
  <2>4. \A q \in PoolProcs : busy'[q].do \in Leaves => busy'[q] = busy[q]
    BY <2>3, TaskShape DEF Leaves
  <2>5. \A q \in PoolProcs : busy[q].do \in Leaves => busy[q].sid \in Sessions
    BY TaskShape DEF PoolType
  <2>6. UNCHANGED <<sock, joining, opening, stray, late>>
    OBVIOUS
  <2>7. Forgets
    OBVIOUS
  <2> HIDE DEF s, Pools!BeatWrite, PoolInv
  <2> QED  BY ONLY <2>1, <2>2, <2>4, <2>5, <2>6, <2>7 DEF Forgets, Leaves
<1>6. Pools!ClosedIsForgotten'
  BY <1>1, TaskShape DEF PoolType, Copies, Pools!ClosedIsForgotten, Leaves
<1> QED  BY <1>2, <1>3, <1>4, <1>5, <1>6

LEMMA UsageWriteStep == ASSUME PoolInv, NEW p \in PoolProcs, Pools!UsageWrite(p) PROVE PoolInv'
<1> USE DEF PoolInv, Pools!UsageWrite, Pools!At, Pools!Ends, Pools!Leaving, Pools!docVars
<1>1. busy[p] \in Tasks /\ busy[p].copy \in Copies
  BY TaskShape DEF PoolType
<1>2. PoolType'  BY <1>1, AgesAreNumbers, TaskShape DEF PoolType, Copies
<1>3. Entered'   BY DEF PoolType, Entered
<1>4. Minds'     BY TaskShape DEF PoolType, Minds, Leaves
<1>5. Forgets'   BY TaskShape DEF PoolType, Forgets, Leaves
<1>6. Pools!ClosedIsForgotten'
  BY TaskShape DEF PoolType, Pools!ClosedIsForgotten, Leaves
<1> QED  BY <1>2, <1>3, <1>4, <1>5, <1>6

LEMMA LeavePoolStep == ASSUME PoolInv, NEW p \in PoolProcs, Pools!LeavePool(p) PROVE PoolInv'
<1> USE DEF PoolInv, Pools!LeavePool, Pools!At, Pools!Ends, Pools!Goes, Pools!Raises,
        Pools!Leaving, Pools!docVars
<1> DEFINE s == busy[p].sid
<1>1. s \in Sessions /\ sock[s] \in {"closed", "lost"} /\ HomeOf[s] = p /\ busy[p] \in Tasks
  BY TaskShape DEF PoolType, Minds, Leaves
<1>2. PoolType'  BY <1>1, AgesAreNumbers, TaskShape DEF PoolType, Copies
<1>3. Entered'   BY <1>1, AgesAreNumbers DEF PoolType, Copies, Entered
<1>4. Minds'     BY <1>1, TaskShape DEF PoolType, Minds, Leaves
<1>5. Forgets'
  <2>1. Forgets /\ UNCHANGED <<sock, joining, opening, stray, late>>
    OBVIOUS
  <2>2. pool'[s] = Pools!Absent /\ \A t \in Sessions \ {s} : pool'[t] = pool[t]
    BY <1>1 DEF PoolType, Copies
  <2>3. busy'[p].do \in Leaves => busy'[p].sid = s
    BY TaskShape DEF PoolType, Leaves
  <2>4. \A q \in PoolProcs \ {p} : busy'[q] = busy[q]
    BY DEF PoolType
  <2>5. \A q \in PoolProcs : busy[q].do \in Leaves => busy[q].sid \in Sessions
    BY TaskShape DEF PoolType
  <2> HIDE DEF s, Pools!LeavePool, PoolInv
  <2> QED  BY ONLY <2>1, <2>2, <2>3, <2>4, <2>5 DEF Forgets
<1>6. Pools!ClosedIsForgotten'
  <2> SUFFICES ASSUME NEW t \in Sessions, sock'[t] = "closed", ~Pools!Leaving(t)',
                      t \notin raised'
               PROVE  /\ t \notin late' => pool'[t] = Pools!Absent
                      /\ t \notin stray' => t \notin docs'
    BY DEF Pools!ClosedIsForgotten
  <2>1. t # s
    BY <1>1, TaskShape DEF PoolType
  <2>2. ~Pools!Leaving(t)
    BY <2>1, TaskShape DEF PoolType
  <2>3. pool'[t] = pool[t]
    BY <2>1 DEF PoolType, Copies
  <2> QED  BY <2>1, <2>2, <2>3 DEF Pools!ClosedIsForgotten
<1> QED  BY <1>2, <1>3, <1>4, <1>5, <1>6

LEMMA LeaveUsageReadStep ==
  ASSUME PoolInv, NEW p \in PoolProcs, Pools!LeaveUsageRead(p) PROVE PoolInv'
<1> USE DEF PoolInv, Pools!LeaveUsageRead, Pools!At, Pools!Goes, Pools!Leaving, Pools!docVars
<1> DEFINE s == busy[p].sid
<1>1. s \in Sessions /\ sock[s] \in {"closed", "lost"} /\ HomeOf[s] = p
  BY TaskShape DEF PoolType, Minds, Leaves
<1>2. [usage EXCEPT ![s] = Pools!Absent] \in Copies
  BY AgesAreNumbers DEF PoolType, Copies
<1>3. PICK t \in Tasks : /\ t = busy'[p] /\ t.sid = s
                         /\ t.do \in {"leaveDocs", "leaveModel"}
  <2>1. \A do \in {"leaveDocs", "leaveModel"} :
          [do |-> do, sid |-> s, copy |-> [usage EXCEPT ![s] = Pools!Absent]] \in Tasks
    BY <1>1, <1>2, TaskShape
  <2> QED  BY <2>1 DEF PoolType
<1>4. busy' = [busy EXCEPT ![p] = t]
  BY <1>3
<1> HIDE DEF Pools!LeaveUsageRead, Pools!Goes
<1>5. /\ UNCHANGED <<sock, joining, pool, usage, opening, docs, stray, raised, late, uses,
                  crashes>>
      /\ busy[p].do = "leaveUsage"
  BY DEF Pools!LeaveUsageRead
<1>6. PoolType'  BY <1>4, <1>5 DEF PoolType
<1>7. Entered'   BY <1>5 DEF PoolType, Entered
<1>8. Minds'     BY <1>1, <1>3, <1>4, <1>5 DEF PoolType, Minds, Leaves
<1>9. Forgets'   BY <1>1, <1>3, <1>4, <1>5 DEF PoolType, Forgets, Leaves
<1>10. Pools!ClosedIsForgotten'
  BY <1>3, <1>4, <1>5, TaskShape DEF PoolType, Pools!ClosedIsForgotten
<1> QED  BY <1>6, <1>7, <1>8, <1>9, <1>10

LEMMA LeaveModelStep == ASSUME PoolInv, NEW p \in PoolProcs, Pools!LeaveModel(p) PROVE PoolInv'
<1> USE DEF PoolInv, Pools!LeaveModel, Pools!At, Pools!Ends, Pools!Goes, Pools!Raises,
        Pools!Leaving, Pools!docVars
<1> DEFINE s == busy[p].sid
<1>1. /\ s \in Sessions /\ sock[s] \in {"closed", "lost"} /\ HomeOf[s] = p
      /\ busy[p] \in Tasks /\ busy[p].copy \in Copies
  BY TaskShape DEF PoolType, Minds, Leaves
<1>2. PoolType'  BY <1>1, TaskShape DEF PoolType
<1>3. Entered'   BY DEF PoolType, Entered
<1>4. Minds'     BY <1>1, TaskShape DEF PoolType, Minds, Leaves
<1>5. Forgets'   BY <1>1, TaskShape DEF PoolType, Forgets, Leaves
<1>6. Pools!ClosedIsForgotten'
  BY <1>1, TaskShape DEF PoolType, Pools!ClosedIsForgotten
<1> QED  BY <1>2, <1>3, <1>4, <1>5, <1>6

LEMMA LeaveDocsStep == ASSUME PoolInv, NEW p \in PoolProcs, Pools!LeaveDocs(p) PROVE PoolInv'
<1> USE DEF PoolInv, Pools!LeaveDocs, Pools!At, Pools!Ends, Pools!Leaving, Pools!docVars
<1> DEFINE s == busy[p].sid
<1>1. s \in Sessions /\ busy[p] \in Tasks /\ busy[p].do \in Leaves \ {"leave"}
  BY TaskShape DEF PoolType, Leaves
<1>2. PoolType'  BY TaskShape DEF PoolType
<1>3. Entered'   BY DEF PoolType, Entered
<1>4. Minds'     BY TaskShape DEF PoolType, Minds, Leaves
<1>5. Forgets'   BY TaskShape DEF PoolType, Forgets, Leaves
<1>6. Pools!ClosedIsForgotten'
  <2> SUFFICES ASSUME NEW t \in Sessions, sock'[t] = "closed", ~Pools!Leaving(t)',
                      t \notin raised'
               PROVE  /\ t \notin late' => pool'[t] = Pools!Absent
                      /\ t \notin stray' => t \notin docs'
    BY DEF Pools!ClosedIsForgotten
  <2>1. CASE t = s
    BY <1>1, <2>1 DEF Forgets
  <2>2. CASE t # s
    <3>1. ~Pools!Leaving(t)
      BY <2>2, TaskShape DEF PoolType
    <3> QED  BY <2>2, <3>1 DEF Pools!ClosedIsForgotten
  <2> QED  BY <2>1, <2>2
<1> QED  BY <1>2, <1>3, <1>4, <1>5, <1>6

\* The reaper only meets entries of sockets that are gone.
LEMMA ReapReadStep ==
  ASSUME PoolInv, NEW p \in PoolProcs, NEW s \in Sessions, Pools!ReapRead(p, s)
  PROVE  PoolInv'
<1> USE DEF PoolInv, Pools!ReapRead, Pools!Starts, Pools!Leaving, Pools!docVars
<1>1. sock[s] \in {"closed", "lost"}
  BY PoolAssumption, AgesAreNumbers DEF PoolType, Copies, Ages, Entered, Pools!IsOrphan
<1>2. PoolType'  BY TaskShape DEF PoolType
<1>3. Entered'   BY DEF PoolType, Entered
<1>4. Minds'     BY <1>1, TaskShape DEF PoolType, Minds, Leaves
<1>5. Forgets'   BY TaskShape DEF PoolType, Forgets, Leaves
<1>6. Pools!ClosedIsForgotten'
  BY TaskShape DEF PoolType, Pools!ClosedIsForgotten, Leaves
<1> QED  BY <1>2, <1>3, <1>4, <1>5, <1>6

LEMMA ReapDeleteStep == ASSUME PoolInv, NEW p \in PoolProcs, Pools!ReapDelete(p) PROVE PoolInv'
<1> USE DEF PoolInv, Pools!ReapDelete, Pools!At, Pools!Ends, Pools!Leaving, Pools!docVars
<1> DEFINE s == busy[p].sid
<1>1. s \in Sessions /\ sock[s] \in {"closed", "lost"} /\ busy[p] \in Tasks
  BY TaskShape DEF PoolType, Minds, Leaves
<1>2. PoolType'  BY <1>1, AgesAreNumbers, TaskShape DEF PoolType, Copies
<1>3. Entered'   BY <1>1, AgesAreNumbers DEF PoolType, Copies, Entered
<1>4. Minds'     BY TaskShape DEF PoolType, Minds, Leaves
<1>5. Forgets'   BY <1>1, TaskShape DEF PoolType, Copies, Forgets, Leaves
<1>6. Pools!ClosedIsForgotten'
  BY <1>1, TaskShape DEF PoolType, Copies, Pools!ClosedIsForgotten, Leaves
<1> QED  BY <1>2, <1>3, <1>4, <1>5, <1>6

LEMMA CleanReadStep == ASSUME PoolInv, NEW p \in PoolProcs, Pools!CleanRead(p) PROVE PoolInv'
<1> USE DEF PoolInv, Pools!Starts, Pools!Leaving, Pools!docVars
<1> DEFINE kept == [s \in Sessions |-> IF usage[s] > UsageAfter THEN Pools!Absent ELSE usage[s]]
<1>1. kept \in Copies
  BY AgesAreNumbers DEF PoolType, Copies
<1>2. PICK t \in Tasks : t.do = "clean" /\ busy[p] = Pools!Free /\ busy' = [busy EXCEPT ![p] = t]
  BY <1>1, TaskShape DEF Pools!CleanRead
<1>3. UNCHANGED <<sock, joining, pool, usage, opening, docs, stray, raised, late, uses,
                  crashes>>
  BY DEF Pools!CleanRead
<1> HIDE DEF Pools!Starts, kept
<1>4. PoolType'  BY <1>2, <1>3 DEF PoolType
<1>5. Entered'   BY <1>3 DEF PoolType, Entered
<1>6. Minds'     BY <1>2, <1>3 DEF PoolType, Minds, Leaves
<1>7. Forgets'   BY <1>2, <1>3 DEF PoolType, Forgets, Leaves
<1>8. Pools!ClosedIsForgotten'
  BY <1>2, <1>3, TaskShape DEF PoolType, Pools!ClosedIsForgotten, Leaves
<1> QED  BY <1>4, <1>5, <1>6, <1>7, <1>8

LEMMA CleanWriteStep == ASSUME PoolInv, NEW p \in PoolProcs, Pools!CleanWrite(p) PROVE PoolInv'
<1> USE DEF PoolInv, Pools!CleanWrite, Pools!At, Pools!Ends, Pools!Leaving, Pools!docVars
<1>1. busy[p] \in Tasks /\ busy[p].copy \in Copies
  BY TaskShape DEF PoolType
<1>2. PoolType'  BY <1>1, TaskShape DEF PoolType
<1>3. Entered'   BY DEF PoolType, Entered
<1>4. Minds'     BY TaskShape DEF PoolType, Minds, Leaves
<1>5. Forgets'   BY TaskShape DEF PoolType, Forgets, Leaves
<1>6. Pools!ClosedIsForgotten'
  BY TaskShape DEF PoolType, Pools!ClosedIsForgotten, Leaves
<1> QED  BY <1>2, <1>3, <1>4, <1>5, <1>6

LEMMA CrashStep == ASSUME PoolInv, NEW p \in PoolProcs, Pools!Crash(p) PROVE PoolInv'
<1> USE DEF PoolInv, Pools!Crash, Pools!Leaving, Pools!docVars
<1>1. \A s \in Sessions :
        sock'[s] = sock[s] \/ (HomeOf[s] = p /\ sock[s] # "new" /\ sock'[s] = "lost")
  OBVIOUS
<1>2. \A s \in Sessions : HomeOf[s] # p => sock'[s] = sock[s]
  OBVIOUS
<1>3. \A q \in PoolProcs :
        (q = p /\ busy'[q] = Pools!Free) \/ (q # p /\ busy'[q] = busy[q])
  BY DEF PoolType
<1>4. PoolType'  BY TaskShape, PoolAssumption DEF PoolType
<1>5. Entered'   BY <1>1 DEF PoolType, Entered
<1>6. Minds'     BY <1>1, <1>2, <1>3, TaskShape DEF PoolType, Minds, Leaves
<1>7. Forgets'   BY <1>1, <1>3, TaskShape DEF PoolType, Forgets, Leaves
<1>8. Pools!ClosedIsForgotten'
  <2> SUFFICES ASSUME NEW t \in Sessions, sock'[t] = "closed", ~Pools!Leaving(t)',
                      t \notin raised'
               PROVE  /\ t \notin late' => pool'[t] = Pools!Absent
                      /\ t \notin stray' => t \notin docs'
    BY DEF Pools!ClosedIsForgotten
  <2>1. sock[t] = "closed" /\ HomeOf[t] # p
    OBVIOUS
  <2>2. ~Pools!Leaving(t)
    BY <1>3, <2>1 DEF Minds, Leaves
  <2> QED  BY <2>1, <2>2 DEF Pools!ClosedIsForgotten
<1> QED  BY <1>4, <1>5, <1>6, <1>7, <1>8

LEMMA TickStep == ASSUME PoolInv, Pools!Tick PROVE PoolInv'
<1> USE DEF PoolInv, Pools!Leaving, Pools!docVars
<1>1. \A s \in Sessions : pool[s] \in Ages /\ usage[s] \in Ages
  BY DEF PoolType, Copies
<1>2. \A s \in Sessions : /\ pool'[s] = Pools!Older(pool[s])
                          /\ pool'[s] = Pools!Absent <=> pool[s] = Pools!Absent
  BY <1>1, OlderIsAge DEF Pools!Tick
<1>3. UNCHANGED <<sock, joining, opening, docs, stray, busy, raised, late, uses, crashes>>
  BY DEF Pools!Tick
<1>4. PoolType'
  <2>1. pool' \in Copies /\ usage' \in Copies
    BY <1>1, OlderIsAge DEF Pools!Tick, Copies
  <2> QED  BY <1>3, <2>1 DEF PoolType
<1>5. Entered'
  <2>1. \A s \in Sessions : sock[s] = "open" => pool[s] < Beat /\ pool[s] \in 0..Beat
    BY DEF Pools!Tick, Entered
  <2>2. \A s \in Sessions : sock[s] = "open" => pool'[s] \in 0..Beat
    BY <1>1, <1>2, <2>1, OlderIsAge
  <2> QED  BY <1>2, <1>3, <2>2 DEF Entered
<1>6. Minds'     BY <1>3 DEF PoolType, Minds
<1>7. Forgets'   BY <1>2, <1>3, TaskShape DEF PoolType, Forgets, Leaves
<1>8. Pools!ClosedIsForgotten'
  BY <1>2, <1>3 DEF PoolType, Pools!ClosedIsForgotten
<1> QED  BY <1>4, <1>5, <1>6, <1>7, <1>8

LEMMA NextPoolInv == PoolInv /\ [Pools!Next]_(Pools!vars) => PoolInv'
<1> SUFFICES ASSUME PoolInv, [Pools!Next]_(Pools!vars) PROVE PoolInv'
  OBVIOUS
<1>1. CASE UNCHANGED Pools!vars
  BY <1>1 DEF Pools!vars, Pools!docVars, PoolInv, PoolType, Entered, Minds, Forgets,
              Pools!ClosedIsForgotten, Pools!Leaving
<1>2. CASE Pools!Tick
  BY <1>2, TickStep
<1>3. ASSUME NEW p \in PoolProcs, Pools!Handler(p) PROVE PoolInv'
  BY <1>3, BeatWriteStep, UsageWriteStep, LeavePoolStep, LeaveUsageReadStep, LeaveModelStep,
     LeaveDocsStep, ReapDeleteStep, CleanReadStep, CleanWriteStep, CrashStep DEF Pools!Handler
<1>4. ASSUME NEW p \in PoolProcs, NEW s \in Sessions, Pools!ReapRead(p, s) PROVE PoolInv'
  BY <1>4, ReapReadStep
<1>5. ASSUME NEW s \in Sessions,
             \/ Pools!BeginJoin(s) \/ Pools!Join(s) \/ Pools!BeatRead(s)
             \/ Pools!UsageRead(s) \/ Pools!BeginOpen(s) \/ Pools!OpenDocument(s)
             \/ Pools!Close(s)
      PROVE  PoolInv'
  BY <1>5, BeginJoinStep, JoinStep, BeatReadStep, UsageReadStep, BeginOpenStep,
     OpenDocumentStep, CloseStep
<1> QED  BY <1>1, <1>2, <1>3, <1>4, <1>5 DEF Pools!Next

LEMMA PoolInvHolds == Spec => []PoolInv
<1>1. Init => PoolInv
  BY SessionsInit, InitPoolInv
<1>2. PoolInv /\ [Next]_vars => PoolInv'
  BY SessionsStep, NextPoolInv
<1> QED  BY <1>1, <1>2, PTL DEF Spec

\* A connected session that sends its heartbeats is in SESSION_POOL, whatever the
\* reapers of other processes have read.
THEOREM LiveSessionsAreKnown == Spec => []LiveIsKnown
<1>1. PoolInv => LiveIsKnown
  BY AgesAreNumbers DEF PoolInv, Entered, LiveIsKnown, Pools!LiveIsKnown
<1> QED  BY <1>1, PoolInvHolds, PTL

\* A socket that closed leaves no entry, unless it closed while it joined, and no
\* document user, unless it closed while it opened a document; or its disconnect
\* met a KeyError.
THEOREM ClosedSessionsAreForgotten == Spec => []ClosedIsForgotten
<1>1. PoolInv => ClosedIsForgotten
  BY DEF PoolInv, ClosedIsForgotten
<1> QED  BY <1>1, PoolInvHolds, PTL
-----------------------------------------------------------------------------
Ids == OAuth!Ids
Live == OAuth!Live
Busy(r) == request[r].at # "idle"
AtSession(r, s) == Busy(r) /\ request[r].sid = s

\* What a request does with a token of a session.
Uses == [at : {"refresh", "store", "refused", "failed"}, sid : Ids, token : 1..MaxTokens,
         raced : BOOLEAN]

OAuthType ==
    /\ rotates \in BOOLEAN
    /\ stored \in [Ids -> 0..MaxTokens] /\ current \in [Ids -> 0..MaxTokens]
    /\ request \in [Requests -> {OAuth!Idle} \cup Uses]
    /\ login \in [Logins -> [at : {"idle", "prune"}, todo : SUBSET Ids]]
    /\ logout \in [at : {"idle", "delete"}, todo : SUBSET Ids]
    /\ made \in 0..MaxSessions /\ spoilt \subseteq Ids /\ unpruned \in 0..MaxFaults

\* No row and no request is of a session that has not been created.
Created ==
    /\ \A s \in Ids : stored[s] # 0 => s <= made
    /\ \A r \in Requests : Busy(r) => request[r].sid <= made

\* No token is newer than the provider's; one that waits to be stored is the
\* provider's, and if the provider replaces tokens then nobody else has it.
Tokens ==
    /\ \A s \in Ids : stored[s] <= current[s]
    /\ \A r \in Requests :
        /\ request[r].at = "refresh" => request[r].token <= current[request[r].sid]
        /\ request[r].at = "store" => request[r].token = current[request[r].sid]
        /\ rotates /\ request[r].at = "store" =>
            /\ stored[request[r].sid] # current[request[r].sid]
            /\ \A q \in Requests \ {r} : AtSession(q, request[r].sid) =>
                 /\ request[q].at # "store"
                 /\ request[q].at = "refresh" =>
                        request[q].token # current[request[r].sid]

\* A row is behind the provider only while a request is about to write or to
\* delete it, or after one was cut off.
Behind ==
    \A s \in Ids : stored[s] \notin {0, current[s]} =>
        s \in spoilt \/ \E r \in Requests :
            request[r].at \in {"store", "failed"} /\ request[r].sid = s

\* Two requests at a session know that they race; a request alone has the
\* provider's token unless one was cut off before.
Races ==
    /\ \A r, q \in Requests : r # q /\ Busy(r) /\ Busy(q) /\ request[r].sid = request[q].sid =>
        request[r].raced
    /\ \A r \in Requests : request[r].at = "refresh" =>
        request[r].token = current[request[r].sid] \/ request[r].raced \/ request[r].sid \in spoilt

\* Logins at the same time: each keeps what it does not delete, and one that
\* listed before it may add a session.  age counts the lists read since a
\* login has read its own.
Listers(age, l) == {m \in Logins : login[m].at = "prune" /\ age[m] >= age[l]}
Paced(age) ==
    \A l \in Logins : login[l].at = "prune" =>
        /\ \A m \in Logins \ {l} : login[m].at = "prune" => age[m] # age[l]
        /\ Cardinality(Live \ login[l].todo) + Cardinality(Listers(age, l))
               <= LoginLimit - 1 + Cardinality(Logins) + unpruned

Pruned == \A l \in Logins : login[l].at = "idle" => login[l].todo = {}

TokenInv ==
    OAuthType /\ Created /\ Tokens /\ Behind /\ Races /\ OAuth!RefusedOnlyInRace

LEMMA OAuthNumbers ==
  /\ MaxSessions \in Nat /\ MaxFaults \in Nat /\ MaxTokens \in Nat /\ 1 <= MaxTokens
  /\ LoginLimit \in Nat /\ 1 <= LoginLimit
  /\ Ids = 1..MaxSessions /\ Ids \subseteq Nat
  BY OAuthAssumption DEF Ids, OAuth!Ids

\* What a request is, by what it does.
LEMMA RequestShape ==
  ASSUME OAuthType, NEW r \in Requests
  PROVE  /\ Busy(r) => request[r] \in Uses /\ request[r].sid \in Ids
                       /\ request[r].token \in 1..MaxTokens
         /\ request[r].at \in {"refresh", "store", "refused", "failed"} => Busy(r)
         /\ OAuth!Idle.at = "idle"
  BY DEF OAuthType, Busy, Uses, OAuth!Idle

LEMMA GoOnShape ==
  ASSUME OAuthType, NEW r \in Requests, Busy(r),
         NEW step \in {"refresh", "store", "refused", "failed"}, NEW token \in 1..MaxTokens,
         OAuth!GoOn(r, step, token)
  PROVE  \E u \in Uses : /\ u.at = step /\ u.token = token /\ u.sid = request[r].sid
                         /\ u.raced = request[r].raced
                         /\ request' = [request EXCEPT ![r] = u]
<1> DEFINE u == [request[r] EXCEPT !.at = step, !.token = token]
<1>1. request[r] \in Uses
  BY RequestShape
<1>2. u \in Uses
  BY <1>1 DEF Uses
<1>3. /\ u.at = step /\ u.token = token /\ u.sid = request[r].sid
      /\ u.raced = request[r].raced
  BY <1>1 DEF Uses
<1>4. request' = [request EXCEPT ![r] = u]
  BY <1>1 DEF OAuthType, OAuth!GoOn, Uses
<1> QED  BY <1>2, <1>3, <1>4

LEMMA InitTokenInv == OAuth!Init => TokenInv
  BY OAuthNumbers DEF OAuth!Init, TokenInv, OAuthType, Created, Tokens, Behind, Races, Busy,
                 AtSession, OAuth!RefusedOnlyInRace, OAuth!Idle, OAuth!NotRunning, Ids, OAuth!Ids

\* Rows that go disturb nobody's token.
LEMMA ShedStep ==
  ASSUME TokenInv, stored' \in [Ids -> 0..MaxTokens],
         \A s \in Ids : stored'[s] \in {0, stored[s]},
         UNCHANGED <<rotates, current, request, made, spoilt>>, unpruned' \in 0..MaxFaults,
         login' \in [Logins -> [at : {"idle", "prune"}, todo : SUBSET Ids]],
         logout' \in [at : {"idle", "delete"}, todo : SUBSET Ids]
  PROVE  TokenInv'
<1> USE DEF TokenInv
<1>1. OAuthType'  BY DEF OAuthType
<1>2. Created'    BY DEF Created, Busy
<1>3. Tokens'
  <2>1. \A s \in Ids : stored'[s] <= current[s]
    BY OAuthNumbers, SMTT(40) DEF OAuthType, Tokens
  <2>2. \A r \in Requests : request[r].at = "store" => current[request[r].sid] # 0
    BY RequestShape DEF Tokens
  <2>3. \A r \in Requests : request[r].at = "store" => request[r].sid \in Ids
    BY RequestShape
  <2> QED  BY <2>1, <2>2, <2>3 DEF Tokens, AtSession, Busy
<1>4. Behind'     BY DEF Behind
<1>5. Races'      BY DEF Races, Busy
<1>6. OAuth!RefusedOnlyInRace'  BY DEF OAuth!RefusedOnlyInRace
<1> QED  BY <1>1, <1>2, <1>3, <1>4, <1>5, <1>6

LEMMA GetStep ==
  ASSUME TokenInv, NEW r \in Requests, NEW s \in Ids, OAuth!Get(r, s) PROVE TokenInv'
<1> USE DEF TokenInv
<1> DEFINE others == {q \in Requests : request[q].at # "idle" /\ request[q].sid = s}
<1>1. /\ request[r].at = "idle" /\ stored[s] # 0 /\ stored[s] \in 1..MaxTokens
      /\ UNCHANGED <<rotates, stored, current, login, logout, made, spoilt, unpruned>>
  BY OAuthNumbers DEF OAuth!Get, OAuth!Live, OAuth!faults, OAuthType
<1>2. /\ request'[r] = [at |-> "refresh", sid |-> s, token |-> stored[s], raced |-> others # {}]
      /\ \A q \in Requests \ {r} :
           request'[q] = IF q \in others THEN [request[q] EXCEPT !.raced = TRUE] ELSE request[q]
      /\ request' = [q \in Requests |-> request'[q]]
  BY DEF OAuth!Get
<1>3. /\ request'[r].at = "refresh" /\ request'[r].sid = s /\ request'[r].token = stored[s]
      /\ request'[r].raced = (others # {}) /\ request'[r] \in Uses
  BY <1>1, <1>2 DEF Uses
<1>4. \A q \in Requests \ {r} :
        /\ request'[q].at = request[q].at
        /\ request[q].at # "idle" =>
             /\ request'[q].sid = request[q].sid /\ request'[q].token = request[q].token
             /\ request'[q].raced = (request[q].raced \/ q \in others)
        /\ request'[q] \in {OAuth!Idle} \cup Uses
  <2> SUFFICES ASSUME NEW q \in Requests \ {r}
               PROVE  /\ request'[q].at = request[q].at
                      /\ request[q].at # "idle" =>
                           /\ request'[q].sid = request[q].sid
                           /\ request'[q].token = request[q].token
                           /\ request'[q].raced = (request[q].raced \/ q \in others)
                      /\ request'[q] \in {OAuth!Idle} \cup Uses
    OBVIOUS
  <2>1. CASE q \in others
    <3>1. request[q] \in Uses
      BY <2>1, RequestShape DEF Busy
    <3>2. request'[q] = [request[q] EXCEPT !.raced = TRUE]
      BY <1>2, <2>1
    <3> QED  BY <2>1, <3>1, <3>2 DEF Uses
  <2>2. CASE q \notin others
    <3>1. request'[q] = request[q]
      BY <1>2, <2>2
    <3>2. request[q].at # "idle" => request[q].raced \in BOOLEAN
      BY RequestShape DEF Busy, Uses
    <3> QED  BY <2>2, <3>1, <3>2 DEF OAuthType
  <2> QED  BY <2>1, <2>2
<1>5. \A q \in Requests : q \in others <=> (q # r /\ request[q].at # "idle" /\ request[q].sid = s)
  BY <1>1
<1> HIDE DEF others
<1>6. OAuthType'
  <2>1. \A q \in Requests : request'[q] \in {OAuth!Idle} \cup Uses
    BY <1>3, <1>4
  <2> QED  BY <1>1, <1>2, <2>1 DEF OAuthType
<1>7. Created'
  BY <1>1, <1>3, <1>4 DEF Created, Busy
<1>8. Tokens'
  <2>1. stored[s] <= current[s]
    BY DEF Tokens
  <2>2. ASSUME NEW q \in Requests, rotates, request'[q].at = "store", NEW o \in Requests \ {q},
               AtSession(o, request[q].sid)'
        PROVE  /\ stored[request[q].sid] # current[request[q].sid]
               /\ request'[o].at # "store"
               /\ request'[o].at = "refresh" => request'[o].token # current[request[q].sid]
    BY <1>1, <1>3, <1>4, <2>2 DEF Tokens, AtSession, Busy
  <2> QED  BY <1>1, <1>3, <1>4, <2>1, <2>2 DEF Tokens, AtSession, Busy
<1>9. Behind'
  BY <1>1, <1>3, <1>4 DEF Behind
<1>10. Races'
  <2>1. ASSUME NEW q \in Requests, NEW o \in Requests, q # o, Busy(q)', Busy(o)',
               request'[q].sid = request'[o].sid
        PROVE  request'[q].raced
    <3>1. CASE q = r
      BY <1>3, <1>4, <1>5, <2>1, <3>1 DEF Busy
    <3>2. CASE o = r
      BY <1>3, <1>4, <1>5, <2>1, <3>2 DEF Busy
    <3>3. CASE q # r /\ o # r
      <4>1. Busy(q) /\ Busy(o) /\ request[q].sid = request[o].sid
        BY <1>4, <2>1, <3>3 DEF Busy
      <4> QED  BY <1>4, <2>1, <3>3, <4>1 DEF Races, Busy
    <3> QED  BY <3>1, <3>2, <3>3
  <2>2. ASSUME NEW q \in Requests, request'[q].at = "refresh"
        PROVE  request'[q].token = current'[request'[q].sid] \/ request'[q].raced
               \/ request'[q].sid \in spoilt'
    <3>1. CASE q # r
      BY <1>1, <1>4, <2>2, <3>1 DEF Races
    <3>2. CASE q = r
      <4>1. (\E o \in Requests : request[o].at \in {"store", "failed"} /\ request[o].sid = s)
              => others # {}
        BY <1>1, <1>5
      <4> QED  BY <1>1, <1>3, <3>2, <4>1 DEF Behind
    <3> QED  BY <3>1, <3>2
  <2> QED  BY <2>1, <2>2 DEF Races
<1>11. OAuth!RefusedOnlyInRace'
  BY <1>1, <1>3, <1>4 DEF OAuth!RefusedOnlyInRace
<1> QED  BY <1>6, <1>7, <1>8, <1>9, <1>10, <1>11

\* The provider's answer: a new token, if any, that the request has or that is
\* lost on the way.
LEMMA AnsweredStep ==
  ASSUME TokenInv, NEW r \in Requests, request[r].at = "refresh",
         NEW step \in {"store", "refused", "failed"}, NEW token \in 1..MaxTokens,
         NEW new \in 1..MaxTokens, OAuth!GoOn(r, step, token),
         current' = [current EXCEPT ![request[r].sid] = new],
         \/ new = current[request[r].sid]
         \/ /\ rotates /\ request[r].token = current[request[r].sid]
            /\ new = current[request[r].sid] + 1 /\ step # "refused",
         step = "store" => token = new /\ request[r].token = current[request[r].sid]
                         /\ (rotates => new # current[request[r].sid]),
         step = "refused" => request[r].token # current[request[r].sid],
         UNCHANGED <<rotates, stored, login, logout, made, spoilt, unpruned>>
  PROVE  TokenInv'
<1> USE DEF TokenInv
<1> DEFINE s == request[r].sid
<1>1. Busy(r) /\ s \in Ids /\ request[r] \in Uses /\ request[r].token \in 1..MaxTokens
  BY RequestShape
<1>2. PICK u \in Uses : /\ u.at = step /\ u.token = token /\ u.sid = s /\ u.raced = request[r].raced
                        /\ request' = [request EXCEPT ![r] = u]
  BY <1>1, GoOnShape
<1>3. PICK k \in Ids : k = s
  BY <1>1
<1>4. request'[r] = u /\ \A q \in Requests \ {r} : request'[q] = request[q]
  BY <1>2 DEF OAuthType
<1>5. /\ current'[k] = new /\ \A t \in Ids \ {k} : current'[t] = current[t]
      /\ current[k] \in 0..MaxTokens /\ new >= current[k]
  BY <1>3, OAuthNumbers DEF OAuthType
<1>6. u.sid = k /\ request[r].sid = k
  BY <1>2, <1>3
<1>7. new # current[k] => new = current[k] + 1 /\ rotates /\ request[r].token = current[k]
  BY <1>3
\* Nobody else waits to store a token when the provider replaces it.
<1>8. new # current[k] => \A q \in Requests \ {r} : ~(request[q].at = "store" /\ request[q].sid = k)
  <2> SUFFICES ASSUME new # current[k], NEW q \in Requests \ {r},
                      request[q].at = "store", request[q].sid = k
               PROVE  FALSE
    OBVIOUS
  <2>1. AtSession(r, request[q].sid) /\ r \in Requests \ {q}
    BY <1>1, <1>6 DEF AtSession
  <2> QED  BY <1>7, <2>1 DEF Tokens
<1> HIDE DEF s
<1>9. OAuthType'
  <2>1. request' \in [Requests -> {OAuth!Idle} \cup Uses]
    BY <1>2 DEF OAuthType
  <2>2. current' \in [Ids -> 0..MaxTokens]
    BY <1>6, OAuthNumbers DEF OAuthType
  <2> QED  BY <2>1, <2>2 DEF OAuthType
<1>10. Created'
  BY <1>1, <1>4, <1>6 DEF Created, Busy
<1>11. Tokens'
  <2>1. \A t \in Ids : stored[t] <= current'[t]
    <3>1. ASSUME NEW t \in Ids PROVE stored[t] <= current'[t]
      BY <1>5, OAuthNumbers, SMTT(40) DEF Tokens, OAuthType
    <3> QED  BY <3>1
  <2>2. ASSUME NEW q \in Requests, request'[q].at = "refresh"
        PROVE  request'[q].token <= current'[request'[q].sid]
    <3>1. q # r /\ request[q].at = "refresh" /\ request'[q] = request[q]
      BY <1>2, <1>4, <2>2
    <3>2. /\ request[q].token <= current[request[q].sid] /\ request[q].token \in 1..MaxTokens
          /\ request[q].sid \in Ids
      BY <3>1, RequestShape DEF Tokens
    <3>3. CASE request[q].sid = k
      BY <1>5, <3>1, <3>2, <3>3, OAuthNumbers
    <3>4. CASE request[q].sid # k
      BY <1>5, <3>1, <3>2, <3>4
    <3> QED  BY <3>3, <3>4
  <2>3. ASSUME NEW q \in Requests, request'[q].at = "store"
        PROVE  request'[q].token = current'[request'[q].sid]
    <3>1. CASE q = r
      BY <1>2, <1>4, <1>5, <1>6, <2>3, <3>1
    <3>2. CASE q # r
      <4>1. request'[q] = request[q] /\ request[q].token = current[request[q].sid]
            /\ request[q].sid \in Ids
        BY <1>4, <2>3, <3>2, RequestShape DEF Tokens
      <4> QED  BY <1>5, <1>8, <2>3, <3>2, <4>1
    <3> QED  BY <3>1, <3>2
  <2>4. ASSUME rotates, NEW q \in Requests, request'[q].at = "store"
        PROVE  stored[request'[q].sid] # current'[request'[q].sid]
    <3>1. CASE q = r
      <4>1. new = current[k] + 1 /\ stored[k] <= current[k] /\ stored[k] \in 0..MaxTokens
        BY <1>2, <1>4, <1>6, <1>7, <2>4, <3>1 DEF Tokens, OAuthType
      <4> QED  BY <1>4, <1>5, <1>6, <3>1, <4>1, OAuthNumbers
    <3>2. CASE q # r
      <4>1. request'[q] = request[q] /\ stored[request[q].sid] # current[request[q].sid]
            /\ request[q].sid \in Ids
        BY <1>4, <2>4, <3>2, RequestShape DEF Tokens
      <4> QED  BY <1>5, <1>8, <2>4, <3>2, <4>1
    <3> QED  BY <3>1, <3>2
  <2>5. ASSUME rotates, NEW q \in Requests, request'[q].at = "store",
               NEW o \in Requests \ {q}, AtSession(o, request[q].sid)'
        PROVE  /\ request'[o].at # "store"
               /\ request'[o].at = "refresh" => request'[o].token # current'[request'[q].sid]
    <3>1. CASE q = r
      <4>1. new = current[k] + 1 /\ o # r /\ request'[o] = request[o] /\ request[o].sid = k
            /\ Busy(o)
        BY <1>2, <1>4, <1>6, <1>7, <2>5, <3>1 DEF AtSession, Busy
      <4>2. request[o].at # "store"
        BY <1>5, <1>8, <4>1
      <4>3. request[o].at = "refresh" => request[o].token <= current[k]
                                         /\ request[o].token \in 1..MaxTokens
        BY <4>1, RequestShape DEF Tokens
      <4> QED  BY <1>4, <1>5, <1>6, <3>1, <4>1, <4>2, <4>3, OAuthNumbers
    <3>2. CASE q # r
      <4>1. /\ request'[q] = request[q] /\ request[q].at = "store" /\ request[q].sid \in Ids
            /\ current'[request[q].sid] = current[request[q].sid]
        <5>1. request'[q] = request[q] /\ request[q].at = "store" /\ request[q].sid \in Ids
          BY <1>4, <2>5, <3>2, RequestShape
        <5> QED  BY <1>5, <1>8, <3>2, <5>1
      <4>2. CASE o = r
        <5>1. request[q].sid = k
          BY <1>4, <1>6, <2>5, <4>1, <4>2 DEF AtSession
        <5>2. request[r].token # current[k] /\ AtSession(r, request[q].sid)
          BY <1>1, <1>6, <2>5, <3>2, <4>1, <5>1 DEF Tokens, AtSession
        <5>3. step # "store"
          BY <1>6, <5>2
        <5> QED  BY <1>2, <1>4, <4>2, <5>3
      <4>3. CASE o # r
        <5>1. AtSession(o, request[q].sid) /\ request'[o] = request[o]
          BY <1>4, <2>5, <4>1, <4>3 DEF AtSession, Busy
        <5> QED  BY <2>5, <4>1, <5>1 DEF Tokens
      <4> QED  BY <4>2, <4>3
    <3> QED  BY <3>1, <3>2
  <2> QED  BY <2>1, <2>2, <2>3, <2>4, <2>5 DEF Tokens, AtSession, Busy
<1>12. Behind'
  <2> SUFFICES ASSUME NEW t \in Ids, stored[t] \notin {0, current'[t]}, t \notin spoilt
               PROVE  \E q \in Requests : request'[q].at \in {"store", "failed"}
                                          /\ request'[q].sid = t
    BY DEF Behind
  <2>1. CASE t = k /\ step # "refused"
    BY <1>2, <1>4, <1>6, <2>1
  <2>2. CASE t # k \/ step = "refused"
    <3>1. current'[t] = current[t]
      BY <1>3, <1>5, <2>2
    <3>2. PICK q \in Requests : request[q].at \in {"store", "failed"} /\ request[q].sid = t
      BY <3>1 DEF Behind
    <3> QED  BY <1>4, <3>2
  <2> QED  BY <2>1, <2>2
<1>13. Races'
  <2>1. ASSUME NEW q \in Requests, NEW o \in Requests, q # o, Busy(q)', Busy(o)',
               request'[q].sid = request'[o].sid
        PROVE  request'[q].raced
    BY <1>1, <1>2, <1>4, <1>6, <2>1 DEF Races, Busy
  <2>2. ASSUME NEW q \in Requests, request'[q].at = "refresh"
        PROVE  request'[q].token = current'[request'[q].sid] \/ request'[q].raced
               \/ request'[q].sid \in spoilt
    <3>1. q # r /\ request[q].at = "refresh" /\ request'[q] = request[q] /\ Busy(q)
          /\ request[q].sid \in Ids
      BY <1>2, <1>4, <2>2, RequestShape
    <3>2. CASE request[q].sid = k
      BY <1>1, <1>6, <3>1, <3>2 DEF Races
    <3>3. CASE request[q].sid # k
      BY <1>5, <3>1, <3>3 DEF Races
    <3> QED  BY <3>2, <3>3
  <2> QED  BY <2>1, <2>2 DEF Races
<1>14. OAuth!RefusedOnlyInRace'
  <2> SUFFICES ASSUME NEW q \in Requests, request'[q].at = "refused"
               PROVE  request'[q].raced \/ request'[q].sid \in spoilt
    BY DEF OAuth!RefusedOnlyInRace
  <2>1. CASE q = r
    <3>1. request[r].raced \/ request[r].sid \in spoilt
      BY <1>2, <1>4, <2>1 DEF Races
    <3> QED  BY <1>2, <1>4, <1>6, <2>1, <3>1
  <2>2. CASE q # r
    BY <1>4, <2>2 DEF OAuth!RefusedOnlyInRace
  <2> QED  BY <2>1, <2>2
<1> QED  BY <1>9, <1>10, <1>11, <1>12, <1>13, <1>14

LEMMA GrantedStep == ASSUME TokenInv, NEW r \in Requests, OAuth!Granted(r) PROVE TokenInv'
<1> DEFINE s == request[r].sid
           next == IF rotates THEN current[s] + 1 ELSE current[s]
<1>1. request[r].at = "refresh" /\ request[r].token = current[s] /\ next <= MaxTokens
  BY DEF OAuth!Granted
<1>2. s \in Ids /\ request[r].token \in 1..MaxTokens
  BY <1>1, RequestShape DEF TokenInv
<1>3. PICK new \in 1..MaxTokens : new = next
  BY <1>1, <1>2, OAuthNumbers
<1>4. /\ current' = [current EXCEPT ![s] = new] /\ OAuth!GoOn(r, "store", new)
      /\ UNCHANGED <<rotates, stored, login, logout, made, spoilt, unpruned>>
  BY <1>3 DEF OAuth!Granted, OAuth!faults
<1>5. new = current[s] \/ (rotates /\ new = current[s] + 1)
  BY <1>3
<1>6. rotates => new # current[s]
  BY <1>1, <1>2, <1>3
<1> HIDE DEF next
<1> QED  BY <1>1, <1>4, <1>5, <1>6, AnsweredStep

LEMMA RefusedStep == ASSUME TokenInv, NEW r \in Requests, OAuth!Refused(r) PROVE TokenInv'
<1> DEFINE s == request[r].sid
<1>1. /\ request[r].at = "refresh" /\ request[r].token # current[s]
      /\ UNCHANGED <<rotates, stored, current, login, logout, made, spoilt, unpruned>>
  BY DEF OAuth!Refused, OAuth!faults
<1>2. s \in Ids /\ request[r].token \in 1..MaxTokens
  BY <1>1, RequestShape DEF TokenInv
<1>3. PICK token \in 1..MaxTokens : token = request[r].token /\ OAuth!GoOn(r, "refused", token)
  BY <1>2 DEF OAuth!Refused
<1>4. current[s] \in 1..MaxTokens
  BY <1>1, <1>2, OAuthNumbers DEF TokenInv, Tokens, OAuthType
<1>5. PICK new \in 1..MaxTokens : new = current[s] /\ current' = [current EXCEPT ![s] = new]
  BY <1>1, <1>4 DEF TokenInv, OAuthType
<1> QED  BY <1>1, <1>3, <1>5, AnsweredStep

LEMMA UnansweredStep ==
  ASSUME TokenInv, NEW r \in Requests, OAuth!Unanswered(r) PROVE TokenInv'
<1> DEFINE s == request[r].sid
<1>1. /\ request[r].at = "refresh"
      /\ UNCHANGED <<rotates, stored, login, logout, made, spoilt, unpruned>>
  BY DEF OAuth!Unanswered, OAuth!faults
<1>2. s \in Ids /\ request[r].token \in 1..MaxTokens
  BY <1>1, RequestShape DEF TokenInv
<1>3. PICK token \in 1..MaxTokens : token = request[r].token /\ OAuth!GoOn(r, "failed", token)
  BY <1>2 DEF OAuth!Unanswered
<1>4. current[s] \in 1..MaxTokens
  BY <1>1, <1>2, OAuthNumbers DEF TokenInv, Tokens, OAuthType
<1>5. CASE current' = current
  <2>1. PICK new \in 1..MaxTokens : new = current[s] /\ current' = [current EXCEPT ![s] = new]
    BY <1>4, <1>5 DEF TokenInv, OAuthType
  <2> QED  BY <1>1, <1>3, <2>1, AnsweredStep
<1>6. CASE /\ rotates /\ request[r].token = current[s] /\ current[s] < MaxTokens
           /\ current' = [current EXCEPT ![s] = @ + 1]
  <2>1. PICK new \in 1..MaxTokens : new = current[s] + 1
    BY <1>4, <1>6, OAuthNumbers
  <2>2. current' = [current EXCEPT ![s] = new]
    BY <1>2, <1>6, <2>1 DEF TokenInv, OAuthType
  <2> QED  BY <1>1, <1>3, <1>6, <2>1, <2>2, AnsweredStep
<1> QED  BY <1>5, <1>6 DEF OAuth!Unanswered

\* A request that ends leaves its session's row behind the provider only if it
\* was cut off.
LEMMA FinishStep ==
  ASSUME TokenInv, NEW r \in Requests, Busy(r), OAuth!Finish(r),
         UNCHANGED <<rotates, current, login, logout, made>>,
         stored' \in [Ids -> 0..MaxTokens],
         \A s \in Ids \ {request[r].sid} : stored'[s] = stored[s],
         \/ stored'[request[r].sid] = 0
         \/ request[r].at = "store" /\ stored[request[r].sid] # 0
            /\ stored'[request[r].sid] = request[r].token
         \/ request[r].sid \in spoilt' /\ stored' = stored,
         spoilt \subseteq spoilt', spoilt' \subseteq Ids, unpruned' \in 0..MaxFaults
  PROVE  TokenInv'
<1> USE DEF TokenInv
<1>1. request[r].sid \in Ids /\ request[r].token \in 1..MaxTokens
  BY RequestShape
<1>2. PICK k \in Ids : k = request[r].sid
  BY <1>1
<1>3. request'[r] = OAuth!Idle /\ \A q \in Requests \ {r} : request'[q] = request[q]
  BY DEF OAuthType, OAuth!Finish
<1>4. OAuth!Idle.at = "idle"
  BY DEF OAuth!Idle
<1>5. \A q \in Requests : request'[q].at # "idle" => q # r /\ request'[q] = request[q]
  BY <1>3, <1>4
<1>6. OAuthType'
  <2>1. request' \in [Requests -> {OAuth!Idle} \cup Uses]
    BY DEF OAuthType, OAuth!Finish
  <2> QED  BY <2>1 DEF OAuthType
<1>7. Created'
  BY <1>1, <1>5 DEF Created, Busy
<1>8. Tokens'
  <2>1. \A s \in Ids : stored'[s] <= current[s]
    <3>1. stored'[k] <= current[k]
      BY <1>1, <1>2, OAuthNumbers, SMTT(40) DEF Tokens, OAuthType
    <3> QED  BY <1>2, <3>1 DEF Tokens
  <2>2. ASSUME rotates, NEW q \in Requests \ {r}, request[q].at = "store"
        PROVE  stored'[request[q].sid] # current[request[q].sid]
    <3>1. /\ stored[request[q].sid] # current[request[q].sid] /\ request[q].sid \in Ids
          /\ current[request[q].sid] # 0
      BY <2>2, RequestShape DEF Tokens
    <3>2. CASE request[q].sid = k
      <4>1. AtSession(r, request[q].sid)
        BY <1>2, <3>2 DEF AtSession
      <4>2. request[r].at # "store"
        BY <2>2, <4>1 DEF Tokens
      <4> QED  BY <1>2, <3>1, <3>2, <4>2
    <3> QED  BY <1>2, <3>1, <3>2
  <2>3. ASSUME NEW q \in Requests
        PROVE  /\ request'[q].at = "refresh" =>
                     request'[q].token <= current'[request'[q].sid]
               /\ request'[q].at = "store" =>
                     request'[q].token = current'[request'[q].sid]
    BY <1>5 DEF Tokens
  <2>4. ASSUME NEW q \in Requests, rotates, request'[q].at = "store"
        PROVE  /\ stored'[request'[q].sid] # current'[request'[q].sid]
               /\ \A o \in Requests \ {q} : AtSession(o, request[q].sid)' =>
                    /\ request'[o].at # "store"
                    /\ request'[o].at = "refresh" =>
                           request'[o].token # current'[request'[q].sid]
    BY <1>5, <2>2, <2>4 DEF Tokens, AtSession, Busy
  <2> QED  BY <2>1, <2>3, <2>4 DEF Tokens
<1>9. Behind'
  <2> SUFFICES ASSUME NEW t \in Ids, stored'[t] \notin {0, current[t]}, t \notin spoilt'
               PROVE  \E q \in Requests : request'[q].at \in {"store", "failed"}
                                          /\ request'[q].sid = t
    BY DEF Behind
  <2>1. t # k
    BY <1>2 DEF Tokens
  <2>2. PICK q \in Requests : request[q].at \in {"store", "failed"} /\ request[q].sid = t
    BY <1>2, <2>1 DEF Behind
  <2> QED  BY <1>2, <1>3, <2>1, <2>2
<1>10. Races'
  BY <1>5 DEF Races, Busy
<1>11. OAuth!RefusedOnlyInRace'
  BY <1>5 DEF OAuth!RefusedOnlyInRace
<1> QED  BY <1>6, <1>7, <1>8, <1>9, <1>10, <1>11

LEMMA EndStep ==
  ASSUME TokenInv, NEW r \in Requests,
         \/ OAuth!Store(r) \/ OAuth!StoreFails(r) \/ OAuth!DropSession(r)
         \/ OAuth!DropFails(r) \/ OAuth!Die(r)
  PROVE  /\ TokenInv'
         /\ \A s \in Ids : stored'[s] # 0 => stored[s] # 0
         /\ UNCHANGED <<login, logout, made, unpruned>>
<1> USE DEF TokenInv
<1>0. CASE OAuth!StoreFails(r) \/ OAuth!DropFails(r) \/ OAuth!Die(r)
  <2>1. Busy(r) /\ OAuth!Spoils(r)
    BY <1>0 DEF OAuth!StoreFails, OAuth!DropFails, OAuth!Die, Busy
  <2>2. request[r].sid \in Ids
    BY <2>1, RequestShape
  <2>3. /\ OAuth!Finish(r) /\ spoilt' = spoilt \cup {request[r].sid}
        /\ UNCHANGED <<rotates, stored, current, login, logout, made, unpruned>>
    BY <2>1 DEF OAuth!Spoils
  <2>4. stored' \in [Ids -> 0..MaxTokens] /\ spoilt' \subseteq Ids /\ unpruned' \in 0..MaxFaults
    BY <2>2, <2>3 DEF OAuthType
  <2>5. TokenInv'
    BY <2>1, <2>2, <2>3, <2>4, FinishStep
  <2> QED  BY <2>3, <2>5
<1>1. ASSUME OAuth!Store(r) \/ OAuth!DropSession(r)
      PROVE  /\ TokenInv' /\ \A s \in Ids : stored'[s] # 0 => stored[s] # 0
             /\ UNCHANGED <<login, logout, made, unpruned>>
  <2>1. /\ Busy(r) /\ request[r].sid \in Ids /\ request[r].token \in 0..MaxTokens
        /\ 0 \in 0..MaxTokens
    BY <1>1, RequestShape, OAuthNumbers DEF OAuth!Store, OAuth!DropSession, Busy
  <2>2. /\ OAuth!Finish(r)
        /\ UNCHANGED <<rotates, current, login, logout, made, spoilt, unpruned>>
    BY <1>1 DEF OAuth!Store, OAuth!DropSession, OAuth!faults
  <2>3. spoilt' \subseteq Ids /\ unpruned' \in 0..MaxFaults
    BY <2>2 DEF OAuthType
  <2>4. CASE OAuth!Store(r)
    <3>1. /\ request[r].at = "store"
          /\ stored'[request[r].sid] =
               IF stored[request[r].sid] # 0 THEN request[r].token ELSE 0
      BY <2>1, <2>4 DEF OAuth!Store, OAuth!Live, Ids, OAuthType
    <3>2. /\ stored' \in [Ids -> 0..MaxTokens]
          /\ \A s \in Ids \ {request[r].sid} : stored'[s] = stored[s]
      BY <2>1, <2>4 DEF OAuthType, OAuth!Store
    <3> QED  BY <2>1, <2>2, <2>3, <3>1, <3>2, FinishStep
  <2>5. CASE OAuth!DropSession(r)
    <3>1. /\ stored' \in [Ids -> 0..MaxTokens] /\ stored'[request[r].sid] = 0
          /\ \A s \in Ids \ {request[r].sid} : stored'[s] = stored[s]
      BY <2>1, <2>5 DEF OAuthType, OAuth!DropSession
    <3> QED  BY <2>1, <2>2, <2>3, <3>1, FinishStep
  <2> QED  BY <1>1, <2>4, <2>5
<1> QED  BY <1>0, <1>1
-----------------------------------------------------------------------------
LEMMA LiveIsFinite ==
  ASSUME TokenInv
  PROVE  /\ Live = {s \in Ids : stored[s] # 0} /\ Live \in SUBSET Ids
         /\ IsFiniteSet(Ids) /\ IsFiniteSet(Live) /\ Cardinality(Live) \in Nat
         /\ IsFiniteSet(Logins) /\ Cardinality(Logins) \in Nat
<1>1. 1 \in Int /\ MaxSessions \in Int
  BY OAuthNumbers
<1>2. IsFiniteSet(Ids)
  BY <1>1, FS_Interval, OAuthNumbers
<1>3. Live = {s \in Ids : stored[s] # 0}
  BY DEF Live, OAuth!Live, Ids
<1>4. Live \in SUBSET Ids
  BY <1>3
<1> QED  BY <1>2, <1>3, <1>4, FS_Subset, FS_CardinalityType, OAuthAssumption

\* A set of sessions has an oldest one: what was created before it shrinks, and
\* finite sets do not shrink for ever.
LEMMA Oldest ==
  ASSUME NEW S \in SUBSET Ids, S # {}
  PROVE  \E x \in S : \A y \in S : x <= y
<1> DEFINE AtMost(x) == {y \in S : y <= x}
           Chains == {AtMost(x) : x \in S}
<1>1. \A x \in S : x \in Nat
  BY OAuthNumbers
<1>2. IsFiniteSet(S)
  <2>1. 1 \in Int /\ MaxSessions \in Int
    BY OAuthNumbers
  <2>2. IsFiniteSet(Ids)
    BY <2>1, FS_Interval, OAuthNumbers
  <2> QED  BY <2>2, FS_Subset
<1>3. \A x \in S : AtMost(x) \in FiniteSubsetsOf(S)
  BY <1>2, FS_Subset DEF FiniteSubsetsOf
<1>4. PICK C \in Chains : \A D \in Chains : <<D, C>> \notin StrictSubsetOrdering(S)
  <2>1. Chains \subseteq FiniteSubsetsOf(S) /\ Chains # {}
    BY <1>3
  <2> HIDE DEF Chains
  <2> QED  BY <2>1, WFMin, FS_StrictSubsetOrderingWellFounded
<1>5. PICK x \in S : C = AtMost(x)
  BY <1>4
<1>6. ASSUME NEW y \in S, y < x PROVE FALSE
  <2>1. AtMost(y) \subseteq AtMost(x) /\ AtMost(y) # AtMost(x)
    <3>1. ASSUME NEW z \in S, z <= y PROVE z <= x
      <4>1. x \in Nat /\ y \in Nat /\ z \in Nat
        BY <1>1
      <4> QED  BY <1>6, <3>1, <4>1
    <3>2. x \in AtMost(x) /\ x \notin AtMost(y)
      BY <1>1, <1>6
    <3> QED  BY <3>1, <3>2
  <2>2. AtMost(y) \in SUBSET S /\ AtMost(x) \in SUBSET S
    OBVIOUS
  <2>3. <<AtMost(y), AtMost(x)>> \in StrictSubsetOrdering(S)
    BY <2>1, <2>2 DEF StrictSubsetOrdering
  <2> QED  BY <1>4, <1>5, <2>3
<1>7. \A y \in S : x <= y
  BY <1>1, <1>6
<1> QED  BY <1>7

\* An instance has a Cardinality of its own.
LEMMA SameSize == \A S : OAuth!Cardinality(S) = Cardinality(S)
  BY DEF Cardinality, OAuth!Cardinality

\* A login keeps fewer sessions than the limit: the oldest that it keeps has
\* fewer than Limit - 1 newer ones, and there are no others.
LEMMA FewAreKept == ASSUME TokenInv PROVE Cardinality(Live \ OAuth!TooMany) <= LoginLimit - 1
<1> DEFINE Kept == Live \ OAuth!TooMany
           NewerThan(s) == {t \in Live : t > s}
<1>1. \A s \in Live : IsFiniteSet(NewerThan(s)) /\ Cardinality(NewerThan(s)) \in Nat
  BY LiveIsFinite, FS_Subset, FS_CardinalityType
<1>2. \A s \in Kept : s \in Live /\ Cardinality(NewerThan(s)) < LoginLimit - 1
  <2>1. \A s \in Live : Cardinality(NewerThan(s)) >= LoginLimit - 1 => s \in OAuth!TooMany
    <3>1. \A s \in Live : NewerThan(s) = {t \in Live : OAuth!Newer(t, s)}
      BY DEF OAuth!Newer
    <3>2. ASSUME NEW s \in Live, Cardinality(NewerThan(s)) >= LoginLimit - 1
          PROVE  s \in OAuth!TooMany
      <4>1. Cardinality({t \in OAuth!Live : OAuth!Newer(t, s)}) >= LoginLimit - 1
        BY <3>1, <3>2 DEF Live
      <4> QED  BY <3>2, <4>1, SameSize DEF OAuth!TooMany, Live
    <3> QED  BY <3>2
  <2>2. \A n \in Nat : n >= LoginLimit - 1 \/ n < LoginLimit - 1
    BY OAuthNumbers
  <2> HIDE DEF NewerThan
  <2> QED  BY <1>1, <2>1, <2>2
<1>3. Kept \in SUBSET Ids
  BY LiveIsFinite
<1>4. CASE Kept = {}
  BY <1>4, FS_EmptySet, OAuthNumbers
<1>5. CASE Kept # {}
  <2>1. PICK s \in Kept : \A t \in Kept : s <= t
    <3> HIDE DEF Kept
    <3> QED  BY <1>3, <1>5, Oldest
  <2>2. \A t \in Kept : t = s \/ t > s
    BY <1>3, <2>1, OAuthNumbers
  <2>3. Kept \subseteq NewerThan(s) \cup {s}
    BY <2>2
  <2>4. /\ IsFiniteSet(NewerThan(s)) /\ Cardinality(NewerThan(s)) \in Nat
        /\ Cardinality(NewerThan(s)) < LoginLimit - 1
    BY <1>1, <1>2
  <2> HIDE DEF Kept, NewerThan
  <2>5. /\ IsFiniteSet(NewerThan(s) \cup {s}) /\ Cardinality(NewerThan(s) \cup {s}) \in Nat
        /\ Cardinality(NewerThan(s) \cup {s}) <= Cardinality(NewerThan(s)) + 1
    BY <2>4, FS_AddElement, FS_CardinalityType, SMTT(40)
  <2>6. IsFiniteSet(Kept) /\ Cardinality(Kept) <= Cardinality(NewerThan(s) \cup {s})
    BY <2>3, <2>5, FS_Subset
  <2>7. Cardinality(Kept) \in Nat
    BY <2>6, FS_CardinalityType
  <2>8. Cardinality(Kept) <= LoginLimit - 1
    BY <2>4, <2>5, <2>6, <2>7, OAuthNumbers
  <2> QED  BY <2>8 DEF Kept
<1> QED  BY <1>4, <1>5

\* The numbers of a login's bound.
LEMMA BoundIsNumber ==
  ASSUME TokenInv, NEW age \in [Logins -> Nat], NEW l \in Logins
  PROVE  /\ IsFiniteSet(Listers(age, l)) /\ Cardinality(Listers(age, l)) \in Nat
         /\ Cardinality(Listers(age, l)) <= Cardinality(Logins)
         /\ IsFiniteSet(Live \ login[l].todo) /\ Cardinality(Live \ login[l].todo) \in Nat
<1>1. Listers(age, l) \in SUBSET Logins /\ Live \ login[l].todo \in SUBSET Live
  BY DEF Listers
<1> QED  BY <1>1, LiveIsFinite, FS_Subset, FS_CardinalityType

\* A login that has nothing left to delete counts all the rows, and itself.
LEMMA RoomToCreate ==
  ASSUME TokenInv, NEW age \in [Logins -> Nat], Paced(age), NEW m \in Logins,
         login[m].at = "prune", login[m].todo = {}
  PROVE  /\ Cardinality(Live) + Cardinality(Listers(age, m))
                <= LoginLimit - 1 + Cardinality(Logins) + unpruned
         /\ m \in Listers(age, m) /\ Cardinality(Listers(age, m)) >= 1
<1>1. Live \ login[m].todo = Live
  OBVIOUS
<1>2. m \in Listers(age, m)
  BY DEF Listers
<1>3. Cardinality(Listers(age, m)) # 0
  BY <1>2, BoundIsNumber, FS_EmptySet
<1>4. Cardinality(Live) + Cardinality(Listers(age, m))
          <= LoginLimit - 1 + Cardinality(Logins) + unpruned
  BY <1>1 DEF Paced
<1>5. Cardinality(Listers(age, m)) \in Nat
  BY BoundIsNumber
<1> QED  BY <1>2, <1>3, <1>4, <1>5

BoundInv ==
    Pruned /\ OAuth!SessionsStayBounded /\ \E age \in [Logins -> Nat] : Paced(age)

OAuthInv == TokenInv /\ BoundInv

LEMMA UnprunedIsNumber ==
  ASSUME TokenInv PROVE unpruned \in Nat
  BY OAuthNumbers DEF TokenInv, OAuthType

LEMMA BoundMeans ==
  OAuth!SessionsStayBounded <=> Cardinality(Live) <= LoginLimit + Cardinality(Logins) - 1 + unpruned
  BY SameSize DEF OAuth!SessionsStayBounded, Live

LEMMA InitBoundInv == OAuth!Init => BoundInv
<1> SUFFICES ASSUME OAuth!Init PROVE BoundInv
  OBVIOUS
<1>1. TokenInv /\ Live = {}
  BY InitTokenInv DEF OAuth!Init, Live, OAuth!Live
<1>2. OAuth!SessionsStayBounded
  <2>1. Cardinality(Live) = 0
    BY <1>1, FS_EmptySet
  <2>2. Cardinality(Logins) \in Nat /\ unpruned = 0
    BY <1>1, LiveIsFinite DEF OAuth!Init
  <2> QED  BY <2>1, <2>2, OAuthNumbers, BoundMeans
<1>3. [l \in Logins |-> 0] \in [Logins -> Nat] /\ Paced([l \in Logins |-> 0])
  BY DEF OAuth!Init, OAuth!NotRunning, Paced
<1> QED  BY <1>2, <1>3 DEF BoundInv, Pruned, OAuth!Init, OAuth!NotRunning

\* Sessions that go, but for those a login has on its list, leave room.
LEMMA FewerStep ==
  ASSUME TokenInv, TokenInv', BoundInv, \A s \in Ids : stored'[s] # 0 => stored[s] # 0,
         unpruned' = unpruned,
         login' \in [Logins -> [at : {"idle", "prune"}, todo : SUBSET Ids]],
         \A l \in Logins : /\ login'[l].at = login[l].at
                           /\ login'[l].todo \subseteq login[l].todo
                           /\ \A s \in login[l].todo \ login'[l].todo : stored'[s] = 0
  PROVE  BoundInv'
<1>1. Live' \in SUBSET Live
  BY LiveIsFinite DEF Live, OAuth!Live, Ids
<1>2. Cardinality(Live') <= Cardinality(Live) /\ Cardinality(Live') \in Nat
  BY <1>1, LiveIsFinite, FS_Subset, FS_CardinalityType
<1>3. OAuth!SessionsStayBounded'
  <2>1. Cardinality(Live) <= LoginLimit + Cardinality(Logins) - 1 + unpruned
    BY BoundMeans DEF BoundInv
  <2>2. Cardinality(Logins) \in Nat /\ Cardinality(Live) \in Nat /\ unpruned \in Nat
    BY LiveIsFinite, UnprunedIsNumber
  <2>3. Cardinality(Live') <= LoginLimit + Cardinality(Logins) - 1 + unpruned
    BY <1>2, <2>1, <2>2, OAuthNumbers
  <2> QED  BY <2>3, SameSize DEF OAuth!SessionsStayBounded, Live
<1>4. PICK age \in [Logins -> Nat] : Paced(age)
  BY DEF BoundInv
<1>5. Paced(age)'
  <2> SUFFICES ASSUME NEW l \in Logins, login'[l].at = "prune"
               PROVE  Cardinality(Live' \ login'[l].todo) + Cardinality(Listers(age, l)')
                          <= LoginLimit - 1 + Cardinality(Logins) + unpruned'
    BY <1>4 DEF Paced
  <2>1. Listers(age, l)' = Listers(age, l)
    BY DEF Listers
  <2>2. Live' \ login'[l].todo \in SUBSET (Live \ login[l].todo)
    BY <1>1 DEF Live, OAuth!Live
  <2>3. Cardinality(Live' \ login'[l].todo) <= Cardinality(Live \ login[l].todo)
        /\ Cardinality(Live' \ login'[l].todo) \in Nat
    BY <2>2, BoundIsNumber, FS_Subset, FS_CardinalityType
  <2>4. Cardinality(Live \ login[l].todo) + Cardinality(Listers(age, l))
            <= LoginLimit - 1 + Cardinality(Logins) + unpruned
    BY <1>4 DEF Paced
  <2>5. /\ Cardinality(Listers(age, l)) \in Nat /\ Cardinality(Logins) \in Nat
        /\ Cardinality(Live \ login[l].todo) \in Nat /\ unpruned \in Nat
    BY BoundIsNumber, LiveIsFinite, UnprunedIsNumber
  <2>6. Cardinality(Live' \ login'[l].todo) + Cardinality(Listers(age, l))
            <= LoginLimit - 1 + Cardinality(Logins) + unpruned
    BY <2>3, <2>4, <2>5, OAuthNumbers
  <2> QED  BY <2>1, <2>6
<1>6. Pruned'
  BY DEF BoundInv, Pruned
<1> QED  BY <1>3, <1>4, <1>5, <1>6 DEF BoundInv

\* A row that a login fails to delete is one more that it counts, and one more that
\* it may count; the others may count one more as well.
LEMMA KeptStep ==
  ASSUME TokenInv, TokenInv', BoundInv, UNCHANGED stored, unpruned' = unpruned + 1,
         NEW m \in Logins, NEW s \in login[m].todo,
         login'[m].at = login[m].at, login'[m].todo = login[m].todo \ {s},
         \A l \in Logins \ {m} : login'[l] = login[l]
  PROVE  BoundInv'
<1>1. Live' = Live
  BY DEF Live, OAuth!Live
<1>2. /\ Cardinality(Live) \in Nat /\ Cardinality(Logins) \in Nat /\ unpruned \in Nat
  BY LiveIsFinite, UnprunedIsNumber
<1>3. OAuth!SessionsStayBounded'
  <2>1. Cardinality(Live) <= LoginLimit + Cardinality(Logins) - 1 + unpruned
    BY BoundMeans DEF BoundInv
  <2>2. Cardinality(Live') <= LoginLimit + Cardinality(Logins) - 1 + unpruned'
    BY <1>1, <1>2, <2>1, OAuthNumbers
  <2> QED  BY <2>2, SameSize DEF OAuth!SessionsStayBounded, Live
<1>4. PICK age \in [Logins -> Nat] : Paced(age)
  BY DEF BoundInv
<1>5. Paced(age)'
  <2> SUFFICES ASSUME NEW l \in Logins, login'[l].at = "prune"
               PROVE  /\ \A k \in Logins \ {l} : login'[k].at = "prune" => age[k] # age[l]
                      /\ Cardinality(Live' \ login'[l].todo) + Cardinality(Listers(age, l)')
                             <= LoginLimit - 1 + Cardinality(Logins) + unpruned'
    BY DEF Paced
  <2>1. login[l].at = "prune" /\ \A k \in Logins : login'[k].at = login[k].at
    OBVIOUS
  <2>2. \A k \in Logins \ {l} : login'[k].at = "prune" => age[k] # age[l]
    BY <1>4, <2>1 DEF Paced
  <2>3. Listers(age, l)' = Listers(age, l)
    BY <2>1 DEF Listers
  <2>4. Cardinality(Live \ login[l].todo) + Cardinality(Listers(age, l))
            <= LoginLimit - 1 + Cardinality(Logins) + unpruned
    BY <1>4, <2>1 DEF Paced
  <2>5. /\ IsFiniteSet(Live \ login[l].todo) /\ Cardinality(Listers(age, l)) \in Nat
        /\ Cardinality(Live \ login[l].todo) \in Nat
    BY BoundIsNumber
  <2>6. /\ Cardinality(Live' \ login'[l].todo) <= Cardinality(Live \ login[l].todo) + 1
        /\ Cardinality(Live' \ login'[l].todo) \in Nat
    <3>1. Live' \ login'[l].todo \in SUBSET ((Live \ login[l].todo) \cup {s})
      BY <1>1
    <3>2. /\ IsFiniteSet((Live \ login[l].todo) \cup {s})
          /\ Cardinality((Live \ login[l].todo) \cup {s})
                 \in {Cardinality(Live \ login[l].todo), Cardinality(Live \ login[l].todo) + 1}
      BY <2>5, FS_AddElement
    <3>3. /\ Cardinality(Live' \ login'[l].todo)
                 <= Cardinality((Live \ login[l].todo) \cup {s})
          /\ Cardinality(Live' \ login'[l].todo) \in Nat
      BY <3>1, <3>2, FS_Subset, FS_CardinalityType
    <3> QED  BY <2>5, <3>2, <3>3
  <2>7. Cardinality(Live' \ login'[l].todo) + Cardinality(Listers(age, l))
            <= LoginLimit - 1 + Cardinality(Logins) + unpruned'
    BY <1>2, <2>4, <2>5, <2>6, OAuthNumbers
  <2> QED  BY <2>2, <2>3, <2>7
<1>6. Pruned'
  BY DEF BoundInv, Pruned
<1> QED  BY <1>3, <1>4, <1>5, <1>6 DEF BoundInv

\* A login that lists the sessions is the youngest, and the others age.
LEMMA LoginListStep ==
  ASSUME TokenInv, TokenInv', BoundInv, NEW m \in Logins, OAuth!LoginList(m) PROVE BoundInv'
<1>1. PICK todo \in {OAuth!TooMany, {}} :
        /\ login[m].at = "idle" /\ UNCHANGED stored
        /\ login' = [login EXCEPT ![m] = [at |-> "prune", todo |-> todo]]
        /\ unpruned' = unpruned + OAuth!Cardinality(OAuth!TooMany \ todo)
  BY DEF OAuth!LoginList, OAuth!Unpruned
<1>2. Live' = Live /\ Live = OAuth!Live /\ OAuth!TooMany \in SUBSET Live
  BY <1>1 DEF Live, OAuth!Live, OAuth!TooMany
<1>3. /\ login'[m].at = "prune" /\ login'[m].todo = todo
      /\ \A l \in Logins \ {m} : login'[l] = login[l]
  BY <1>1 DEF TokenInv, OAuthType
<1>n. /\ Cardinality(Live) \in Nat /\ Cardinality(Logins) \in Nat /\ unpruned \in Nat
      /\ unpruned' = unpruned + Cardinality(OAuth!TooMany \ todo)
      /\ Cardinality(OAuth!TooMany \ todo) \in Nat
  <2>1. OAuth!TooMany \ todo \in SUBSET Live
    BY <1>2
  <2> QED  BY <1>1, <2>1, SameSize, LiveIsFinite, UnprunedIsNumber, FS_Subset, FS_CardinalityType
<1>k. /\ Cardinality(Live \ todo) \in Nat
      /\ Cardinality(Live \ todo) <= LoginLimit - 1 + Cardinality(OAuth!TooMany \ todo)
  <2>1. /\ IsFiniteSet(OAuth!TooMany) /\ IsFiniteSet(Live \ OAuth!TooMany)
        /\ Cardinality(OAuth!TooMany) \in Nat /\ Cardinality(Live \ OAuth!TooMany) \in Nat
    BY <1>2, LiveIsFinite, FS_Subset, FS_Difference, FS_CardinalityType
  <2>2. Cardinality(Live \ OAuth!TooMany) <= LoginLimit - 1
    BY FewAreKept
  <2>3. CASE todo = OAuth!TooMany
    <3>1. OAuth!TooMany \ todo = {}
      BY <2>3
    <3>2. Cardinality(OAuth!TooMany \ todo) = 0
      BY <3>1, FS_EmptySet
    <3> QED  BY <2>1, <2>2, <2>3, <3>2, OAuthNumbers
  <2>4. CASE todo = {}
    <3>1. Live \ todo = Live /\ OAuth!TooMany \ todo = OAuth!TooMany
      BY <2>4
    <3>2. Cardinality(Live \ OAuth!TooMany)
              = Cardinality(Live) - Cardinality(Live \cap OAuth!TooMany)
      BY LiveIsFinite, FS_Difference
    <3>3. Live \cap OAuth!TooMany = OAuth!TooMany
      BY <1>2
    <3>4. Cardinality(Live) = Cardinality(Live \ OAuth!TooMany) + Cardinality(OAuth!TooMany)
      BY <1>n, <2>1, <3>2, <3>3
    <3>5. Cardinality(Live) <= LoginLimit - 1 + Cardinality(OAuth!TooMany)
      BY <2>1, <2>2, <3>4, OAuthNumbers
    <3> QED  BY <1>n, <3>1, <3>5
  <2> QED  BY <1>1, <2>3, <2>4
<1>4. PICK age \in [Logins -> Nat] : Paced(age)
  BY DEF BoundInv
<1>5. PICK now2 \in [Logins -> Nat] : /\ now2[m] = 0
                                     /\ \A l \in Logins \ {m} : now2[l] = age[l] + 1
  <2>1. [l \in Logins |-> IF l = m THEN 0 ELSE age[l] + 1] \in [Logins -> Nat]
    OBVIOUS
  <2> QED  BY <2>1
<1>6. Paced(now2)'
  <2> SUFFICES ASSUME NEW l \in Logins, login'[l].at = "prune"
               PROVE  /\ \A k \in Logins \ {l} : login'[k].at = "prune" => now2[k] # now2[l]
                      /\ Cardinality(Live' \ login'[l].todo) + Cardinality(Listers(now2, l)')
                             <= LoginLimit - 1 + Cardinality(Logins) + unpruned'
    BY DEF Paced
  <2>1. \A k \in Logins \ {l} : login'[k].at = "prune" => now2[k] # now2[l]
    <3> SUFFICES ASSUME NEW k \in Logins \ {l}, login'[k].at = "prune"
                 PROVE  now2[k] # now2[l]
      OBVIOUS
    <3>1. age[k] \in Nat /\ age[l] \in Nat
      OBVIOUS
    <3>2. CASE k = m
      BY <1>5, <3>1, <3>2
    <3>3. CASE l = m
      BY <1>5, <3>1, <3>3
    <3>4. CASE k # m /\ l # m
      <4>1. age[k] # age[l]
        BY <1>3, <1>4, <3>4 DEF Paced
      <4> QED  BY <1>5, <3>1, <3>4, <4>1
    <3> QED  BY <3>2, <3>3, <3>4
  <2>2. CASE l = m
    <3>1. /\ Cardinality(Listers(now2, l)') \in Nat
          /\ Cardinality(Listers(now2, l)') <= Cardinality(Logins)
      <4>1. Listers(now2, l)' \in SUBSET Logins
        BY DEF Listers
      <4> QED  BY <4>1, LiveIsFinite, FS_Subset, FS_CardinalityType
    <3>2. Live' \ login'[l].todo = Live \ todo
      BY <1>2, <1>3, <2>2
    <3>3. Cardinality(Live \ todo) + Cardinality(Listers(now2, l)')
              <= LoginLimit - 1 + Cardinality(Logins) + unpruned'
      BY <1>n, <1>k, <3>1, OAuthNumbers
    <3> QED  BY <2>1, <3>2, <3>3
  <2>3. CASE l # m
    <3>1. login'[l] = login[l] /\ login[l].at = "prune"
      BY <1>3, <2>3
    <3>2. Listers(now2, l)' = Listers(age, l)
      BY <1>1, <1>3, <1>5, <2>3 DEF Listers
    <3>3. Cardinality(Live \ login[l].todo) + Cardinality(Listers(age, l))
              <= LoginLimit - 1 + Cardinality(Logins) + unpruned
      BY <1>4, <3>1 DEF Paced
    <3>4. Cardinality(Live \ login[l].todo) \in Nat /\ Cardinality(Listers(age, l)) \in Nat
      BY BoundIsNumber
    <3>5. Cardinality(Live \ login[l].todo) + Cardinality(Listers(age, l))
              <= LoginLimit - 1 + Cardinality(Logins) + unpruned'
      BY <1>n, <3>3, <3>4, OAuthNumbers
    <3> QED  BY <1>2, <2>1, <3>1, <3>2, <3>5
  <2> QED  BY <2>2, <2>3
<1>7. Pruned'
  BY <1>3 DEF BoundInv, Pruned
<1>8. OAuth!SessionsStayBounded'
  <2>1. Cardinality(Live) <= LoginLimit + Cardinality(Logins) - 1 + unpruned
    BY BoundMeans DEF BoundInv
  <2>2. Cardinality(Live') <= LoginLimit + Cardinality(Logins) - 1 + unpruned'
    BY <1>2, <1>n, <2>1, OAuthNumbers
  <2> QED  BY <2>2, SameSize DEF OAuth!SessionsStayBounded, Live
<1> QED  BY <1>6, <1>7, <1>8 DEF BoundInv

\* A login that creates its session: those that listed the sessions before it
\* have one less login to allow for, and those that did so after it allow for
\* more than it does.
LEMMA LoginCreateStep ==
  ASSUME TokenInv, TokenInv', BoundInv, NEW m \in Logins, OAuth!LoginCreate(m) PROVE BoundInv'
<1> DEFINE new == made + 1
<1>1. /\ login[m].at = "prune" /\ login[m].todo = {} /\ new \in Ids
      /\ stored' = [stored EXCEPT ![new] = 1] /\ login' = [login EXCEPT ![m] = OAuth!NotRunning]
      /\ unpruned' = unpruned
  BY OAuthNumbers DEF OAuth!LoginCreate, OAuth!faults, TokenInv, OAuthType
<1>2. /\ login'[m] = OAuth!NotRunning /\ login'[m].at # "prune"
      /\ \A l \in Logins \ {m} : login'[l] = login[l]
  BY <1>1 DEF TokenInv, OAuthType, OAuth!NotRunning
<1>3. Live' = Live \cup {new} /\ new \notin Live
  <2>1. stored'[new] = 1 /\ \A s \in Ids \ {new} : stored'[s] = stored[s]
    BY <1>1 DEF TokenInv, OAuthType
  <2>2. stored[new] = 0
    BY <1>1, OAuthNumbers DEF TokenInv, OAuthType, Created
  <2> HIDE DEF new
  <2> QED  BY <1>1, <2>1, <2>2 DEF Live, OAuth!Live, Ids
<1> HIDE DEF new
<1>4. Cardinality(Live') = Cardinality(Live) + 1 /\ IsFiniteSet(Live')
  BY <1>3, LiveIsFinite, FS_AddElement
<1>5. PICK age \in [Logins -> Nat] : Paced(age)
  BY DEF BoundInv
<1>6. /\ Cardinality(Live) + Cardinality(Listers(age, m))
             <= LoginLimit - 1 + Cardinality(Logins) + unpruned
      /\ m \in Listers(age, m) /\ Cardinality(Listers(age, m)) >= 1
  BY <1>1, <1>5, RoomToCreate
<1>7. /\ Cardinality(Live) \in Nat /\ Cardinality(Logins) \in Nat
      /\ Cardinality(Listers(age, m)) \in Nat /\ unpruned \in Nat
  BY LiveIsFinite, BoundIsNumber, UnprunedIsNumber
<1>8. OAuth!SessionsStayBounded'
  <2>1. Cardinality(Live') <= LoginLimit + Cardinality(Logins) - 1 + unpruned
    BY <1>4, <1>6, <1>7, OAuthNumbers
  <2> QED  BY <1>1, <2>1, SameSize DEF OAuth!SessionsStayBounded, Live
<1>9. Paced(age)'
  <2> SUFFICES ASSUME NEW l \in Logins, login'[l].at = "prune"
               PROVE  /\ \A k \in Logins \ {l} : login'[k].at = "prune" => age[k] # age[l]
                      /\ Cardinality(Live' \ login'[l].todo) + Cardinality(Listers(age, l)')
                             <= LoginLimit - 1 + Cardinality(Logins) + unpruned
    BY <1>1 DEF Paced
  <2>1. l # m /\ login'[l] = login[l] /\ login[l].at = "prune"
    BY <1>2
  <2>2. \A k \in Logins \ {l} : login'[k].at = "prune" => age[k] # age[l]
    BY <1>2, <1>5, <2>1 DEF Paced
  <2>3. Listers(age, l)' = Listers(age, l) \ {m}
    BY <1>2 DEF Listers
  <2>4. /\ IsFiniteSet(Listers(age, l)) /\ Cardinality(Listers(age, l)) \in Nat
        /\ IsFiniteSet(Live \ login[l].todo) /\ Cardinality(Live \ login[l].todo) \in Nat
    BY BoundIsNumber
  <2>5. Cardinality(Live \ login[l].todo) + Cardinality(Listers(age, l))
            <= LoginLimit - 1 + Cardinality(Logins) + unpruned
    BY <1>5, <2>1 DEF Paced
  <2>6. CASE m \in Listers(age, l)
    <3>1. Cardinality(Listers(age, l)') = Cardinality(Listers(age, l)) - 1
      BY <2>3, <2>4, <2>6, FS_RemoveElement, ZenonT(60)
    <3>2. /\ Cardinality(Live' \ login'[l].todo) <= Cardinality(Live \ login[l].todo) + 1
          /\ Cardinality(Live' \ login'[l].todo) \in Nat
      <4>1. Live' \ login'[l].todo \in SUBSET ((Live \ login[l].todo) \cup {new})
        BY <1>3, <2>1
      <4>2. /\ IsFiniteSet((Live \ login[l].todo) \cup {new})
            /\ Cardinality((Live \ login[l].todo) \cup {new})
                   <= Cardinality(Live \ login[l].todo) + 1
            /\ Cardinality((Live \ login[l].todo) \cup {new}) \in Nat
        <5>1. /\ IsFiniteSet((Live \ login[l].todo) \cup {new})
              /\ Cardinality((Live \ login[l].todo) \cup {new})
                     \in {Cardinality(Live \ login[l].todo), Cardinality(Live \ login[l].todo) + 1}
          BY <2>4, FS_AddElement
        <5> QED  BY <2>4, <5>1
      <4>3. /\ Cardinality(Live' \ login'[l].todo)
                   <= Cardinality((Live \ login[l].todo) \cup {new})
            /\ Cardinality(Live' \ login'[l].todo) \in Nat
        BY <4>1, <4>2, FS_Subset, FS_CardinalityType
      <4> QED  BY <2>4, <4>2, <4>3
    <3>3. Cardinality(Live' \ login'[l].todo) + Cardinality(Listers(age, l)')
              <= LoginLimit - 1 + Cardinality(Logins) + unpruned
      <4> DEFINE kept == Cardinality(Live \ login[l].todo)
                 keeps == Cardinality(Live' \ login'[l].todo)
                 listers == Cardinality(Listers(age, l))
      <4>1. /\ kept \in Nat /\ keeps \in Nat /\ listers \in Nat /\ keeps <= kept + 1
            /\ kept + listers <= LoginLimit - 1 + Cardinality(Logins) + unpruned
        BY <2>4, <2>5, <3>2
      <4>2. Cardinality(Listers(age, l)') = listers - 1
        BY <3>1
      <4> HIDE DEF kept, keeps, listers
      <4>3. keeps + (listers - 1) <= LoginLimit - 1 + Cardinality(Logins) + unpruned
        BY <1>7, <4>1, OAuthNumbers
      <4> QED  BY <4>2, <4>3 DEF keeps
    <3> QED  BY <2>2, <3>3
  <2>7. CASE m \notin Listers(age, l)
    <3>1. Listers(age, l)' = Listers(age, l)
      BY <2>3, <2>7
    <3>2. age[m] < age[l]
      <4>1. age[m] \in Nat /\ age[l] \in Nat
        OBVIOUS
      <4> QED  BY <1>1, <2>7, <4>1 DEF Listers
    <3>3. Listers(age, l) \subseteq Listers(age, m) \ {m}
      <4>1. ASSUME NEW k \in Logins, age[k] >= age[l] PROVE age[k] >= age[m] /\ k # m
        BY <3>2, <4>1
      <4> QED  BY <4>1 DEF Listers
    <3>4. Cardinality(Listers(age, l)) + 1 <= Cardinality(Listers(age, m))
      <4>1. IsFiniteSet(Listers(age, m))
        BY BoundIsNumber
      <4>2. /\ IsFiniteSet(Listers(age, m) \ {m})
            /\ Cardinality(Listers(age, m) \ {m}) = Cardinality(Listers(age, m)) - 1
        BY <1>6, <4>1, FS_RemoveElement
      <4>3. Cardinality(Listers(age, l)) <= Cardinality(Listers(age, m) \ {m})
        BY <3>3, <4>2, FS_Subset
      <4> QED  BY <1>7, <2>4, <4>2, <4>3
    <3>5. /\ Cardinality(Live' \ login'[l].todo) <= Cardinality(Live')
          /\ Cardinality(Live' \ login'[l].todo) \in Nat
      <4>1. Live' \ login'[l].todo \in SUBSET Live'
        OBVIOUS
      <4> QED  BY <1>4, <4>1, FS_Subset, FS_CardinalityType
    <3>6. Cardinality(Live' \ login'[l].todo) + Cardinality(Listers(age, l))
              <= LoginLimit - 1 + Cardinality(Logins) + unpruned
      BY <1>4, <1>6, <1>7, <2>4, <3>4, <3>5, OAuthNumbers
    <3> QED  BY <2>2, <3>1, <3>6
  <2> QED  BY <2>6, <2>7
<1>10. Pruned'
  BY <1>2 DEF BoundInv, Pruned, OAuth!NotRunning
<1> QED  BY <1>5, <1>8, <1>9, <1>10 DEF BoundInv
-----------------------------------------------------------------------------
\* The faults that a login meets are within their bound.
LEMMA UnprunedStays ==
  ASSUME TokenInv, NEW n \in Nat, OAuth!Unpruned(n) PROVE unpruned' \in 0..MaxFaults
<1>1. unpruned \in Nat /\ OAuth!Cardinality(spoilt) \in Nat
  <2>1. IsFiniteSet(spoilt)
    BY LiveIsFinite, FS_Subset DEF TokenInv, OAuthType
  <2> QED  BY <2>1, SameSize, FS_CardinalityType, UnprunedIsNumber
<1> QED  BY <1>1, OAuthNumbers DEF OAuth!Unpruned

LEMMA CreatesToken == ASSUME TokenInv, NEW l \in Logins, OAuth!LoginCreate(l) PROVE TokenInv'
<1> USE DEF TokenInv
<1>1. PICK new \in Ids : new = made + 1
  BY OAuthNumbers DEF OAuth!LoginCreate, OAuthType
<1>2. /\ stored' = [stored EXCEPT ![new] = 1] /\ current' = [current EXCEPT ![new] = 1]
      /\ login' = [login EXCEPT ![l] = OAuth!NotRunning] /\ made' = new
      /\ UNCHANGED <<rotates, request, logout, spoilt, unpruned>>
  BY <1>1 DEF OAuth!LoginCreate, OAuth!faults
<1>3. /\ stored'[new] = 1 /\ current'[new] = 1
      /\ \A s \in Ids \ {new} : stored'[s] = stored[s] /\ current'[s] = current[s]
  BY <1>2 DEF OAuthType
<1>4. \A r \in Requests : Busy(r) => request[r].sid \in Ids \ {new}
  <2>1. \A r \in Requests : Busy(r) => request[r].sid <= made /\ request[r].sid \in Ids
    BY RequestShape DEF Created
  <2> QED  BY <1>1, <2>1, OAuthNumbers DEF OAuthType
<1>5. \A r \in Requests : request[r].at \in {"refresh", "store", "refused", "failed"} => Busy(r)
  BY DEF Busy
<1>6. OAuthType'
  <2>1. stored' \in [Ids -> 0..MaxTokens] /\ current' \in [Ids -> 0..MaxTokens]
    BY <1>2, OAuthNumbers DEF OAuthType
  <2>2. login' \in [Logins -> [at : {"idle", "prune"}, todo : SUBSET Ids]]
    BY <1>2 DEF OAuthType, OAuth!NotRunning
  <2>3. made' \in 0..MaxSessions
    BY <1>1, <1>2, OAuthNumbers
  <2> QED  BY <1>2, <2>1, <2>2, <2>3 DEF OAuthType
<1>7. Created'
  <2>1. made \in Nat /\ made' = made + 1
    BY <1>1, <1>2 DEF OAuthType
  <2>2. \A s \in Ids : stored'[s] # 0 => s <= made'
    BY <1>1, <1>2, <1>3, <2>1, OAuthNumbers DEF Created
  <2>3. \A r \in Requests : Busy(r) => request[r].sid <= made'
    BY <2>1, RequestShape, OAuthNumbers DEF Created
  <2> QED  BY <1>2, <2>2, <2>3 DEF Created, Busy
<1>8. Tokens'
  <2>1. \A s \in Ids : stored'[s] <= current'[s]
    BY <1>3 DEF Tokens
  <2>2. ASSUME NEW r \in Requests, Busy(r)
        PROVE  /\ stored'[request[r].sid] = stored[request[r].sid]
               /\ current'[request[r].sid] = current[request[r].sid]
    BY <1>3, <1>4, <2>2
  <2> QED  BY <1>2, <1>5, <2>1, <2>2 DEF Tokens, AtSession, Busy
<1>9. Behind'
  BY <1>2, <1>3 DEF Behind
<1>10. Races'
  BY <1>2, <1>3, <1>4, <1>5 DEF Races, Busy
<1>11. OAuth!RefusedOnlyInRace'
  BY <1>2 DEF OAuth!RefusedOnlyInRace
<1> QED  BY <1>6, <1>7, <1>8, <1>9, <1>10, <1>11

LEMMA PruneStep ==
  ASSUME OAuthInv, NEW l \in Logins, OAuth!LoginPrune(l) PROVE OAuthInv'
<1> USE DEF OAuthInv
<1>1. PICK s \in login[l].todo :
        /\ \/ stored' = [stored EXCEPT ![s] = 0] /\ unpruned' = unpruned
           \/ UNCHANGED stored /\ OAuth!Unpruned(1)
        /\ login' = [login EXCEPT ![l].todo = @ \ {s}]
  BY DEF OAuth!LoginPrune
<1>2. UNCHANGED <<rotates, current, request, logout, made, spoilt>> /\ s \in Ids
  BY <1>1 DEF OAuth!LoginPrune, TokenInv, OAuthType
<1>3. /\ login' \in [Logins -> [at : {"idle", "prune"}, todo : SUBSET Ids]]
      /\ login'[l].at = login[l].at /\ login'[l].todo = login[l].todo \ {s}
      /\ \A m \in Logins \ {l} : login'[m] = login[m]
  BY <1>1 DEF TokenInv, OAuthType
<1>4. stored' \in [Ids -> 0..MaxTokens] /\ \A t \in Ids : stored'[t] \in {0, stored[t]}
  BY <1>1, <1>2, OAuthNumbers DEF TokenInv, OAuthType
<1>5. unpruned' \in 0..MaxFaults
  BY <1>1, UnprunedStays DEF TokenInv, OAuthType
<1>6. TokenInv'
  BY <1>2, <1>3, <1>4, <1>5, ShedStep DEF TokenInv, OAuthType
<1>7. CASE stored' = [stored EXCEPT ![s] = 0] /\ unpruned' = unpruned
  <2>1. stored'[s] = 0
    BY <1>2, <1>7 DEF TokenInv, OAuthType
  <2> QED  BY <1>3, <1>4, <1>6, <1>7, <2>1, FewerStep
<1>8. CASE UNCHANGED stored /\ OAuth!Unpruned(1)
  BY <1>3, <1>6, <1>8, KeptStep DEF OAuth!Unpruned
<1> QED  BY <1>1, <1>7, <1>8

LEMMA LogoutStep ==
  ASSUME OAuthInv,
         OAuth!LogoutList \/ OAuth!LogoutDelete \/ OAuth!LogoutEnds \/ OAuth!Disconnect
  PROVE  OAuthInv'
<1> USE DEF OAuthInv
<1>1. UNCHANGED <<rotates, current, request, login, made, spoilt, unpruned>>
  BY DEF OAuth!LogoutList, OAuth!LogoutDelete, OAuth!LogoutEnds, OAuth!Disconnect, OAuth!faults
<1>2. stored' \in [Ids -> 0..MaxTokens] /\ \A t \in Ids : stored'[t] \in {0, stored[t]}
  <2>1. CASE OAuth!LogoutDelete
    <3>1. PICK s \in logout.todo : stored' = [stored EXCEPT ![s] = 0]
      BY <2>1 DEF OAuth!LogoutDelete
    <3> QED  BY <3>1, OAuthNumbers DEF TokenInv, OAuthType
  <2>2. CASE OAuth!Disconnect
    BY <2>2, OAuthNumbers DEF OAuth!Disconnect, TokenInv, OAuthType, Ids
  <2>3. CASE OAuth!LogoutList \/ OAuth!LogoutEnds
    BY <2>3 DEF OAuth!LogoutList, OAuth!LogoutEnds, TokenInv, OAuthType
  <2> QED  BY <2>1, <2>2, <2>3
<1>3. logout' \in [at : {"idle", "delete"}, todo : SUBSET Ids]
  <2>1. CASE OAuth!LogoutList
    BY <2>1, LiveIsFinite DEF OAuth!LogoutList, Live
  <2>2. CASE OAuth!LogoutDelete
    BY <2>2 DEF OAuth!LogoutDelete, TokenInv, OAuthType
  <2>3. CASE OAuth!LogoutEnds
    BY <2>3 DEF OAuth!LogoutEnds, OAuth!NotRunning
  <2>4. CASE OAuth!Disconnect
    BY <2>4 DEF OAuth!Disconnect, TokenInv, OAuthType
  <2> QED  BY <2>1, <2>2, <2>3, <2>4
<1>4. login' \in [Logins -> [at : {"idle", "prune"}, todo : SUBSET Ids]]
  BY <1>1 DEF TokenInv, OAuthType
<1>5. TokenInv'
  <2>1. unpruned' \in 0..MaxFaults
    BY <1>1 DEF TokenInv, OAuthType
  <2> QED  BY <1>1, <1>2, <1>3, <1>4, <2>1, ShedStep
<1> QED  BY <1>1, <1>2, <1>4, <1>5, FewerStep

LEMMA NextOAuthInv == OAuthInv /\ [OAuth!Next]_(OAuth!oauthVars) => OAuthInv'
<1> SUFFICES ASSUME OAuthInv, [OAuth!Next]_(OAuth!oauthVars) PROVE OAuthInv'
  OBVIOUS
<1> USE DEF OAuthInv
<1>1. ASSUME TokenInv', UNCHANGED <<stored, login, unpruned>> PROVE BoundInv'
  <2>1. login' \in [Logins -> [at : {"idle", "prune"}, todo : SUBSET Ids]]
    BY <1>1 DEF TokenInv, OAuthType
  <2> QED  BY <1>1, <2>1, FewerStep
<1>2. CASE UNCHANGED OAuth!oauthVars
  <2>1. TokenInv'
    BY <1>2 DEF OAuth!oauthVars, OAuth!faults, TokenInv, OAuthType, Created, Tokens, Behind,
                Races, Busy, AtSession, OAuth!RefusedOnlyInRace
  <2> QED  BY <1>1, <1>2, <2>1 DEF OAuth!oauthVars, OAuth!faults
<1>3. ASSUME NEW r \in Requests, NEW s \in OAuth!Ids, OAuth!Get(r, s) PROVE OAuthInv'
  <2>1. TokenInv'
    BY <1>3, GetStep DEF Ids
  <2> QED  BY <1>1, <1>3, <2>1 DEF OAuth!Get, OAuth!faults
<1>4. ASSUME NEW r \in Requests,
             OAuth!Granted(r) \/ OAuth!Refused(r) \/ OAuth!Unanswered(r)
      PROVE  OAuthInv'
  <2>1. TokenInv'
    BY <1>4, GrantedStep, RefusedStep, UnansweredStep
  <2> QED  BY <1>1, <1>4, <2>1
           DEF OAuth!Granted, OAuth!Refused, OAuth!Unanswered, OAuth!faults
<1>5. ASSUME NEW r \in Requests,
             OAuth!Store(r) \/ OAuth!StoreFails(r) \/ OAuth!DropSession(r)
             \/ OAuth!DropFails(r) \/ OAuth!Die(r)
      PROVE  OAuthInv'
  <2>1. /\ TokenInv' /\ \A s \in Ids : stored'[s] # 0 => stored[s] # 0
        /\ UNCHANGED <<login, logout, made, unpruned>>
    BY <1>5, EndStep
  <2>2. login' \in [Logins -> [at : {"idle", "prune"}, todo : SUBSET Ids]]
    BY <2>1 DEF TokenInv, OAuthType
  <2> QED  BY <2>1, <2>2, FewerStep
<1>6. ASSUME NEW l \in Logins, OAuth!LoginList(l) PROVE OAuthInv'
  <2>1. /\ UNCHANGED <<rotates, stored, current, request, logout, made, spoilt>>
        /\ login' \in [Logins -> [at : {"idle", "prune"}, todo : SUBSET Ids]]
        /\ unpruned' \in 0..MaxFaults
    <3>1. OAuth!TooMany \in SUBSET Ids /\ OAuth!TooMany \in SUBSET Live
      BY LiveIsFinite DEF OAuth!TooMany, Live
    <3>2. PICK todo \in {OAuth!TooMany, {}} :
            /\ login' = [login EXCEPT ![l] = [at |-> "prune", todo |-> todo]]
            /\ OAuth!Unpruned(OAuth!Cardinality(OAuth!TooMany \ todo))
      BY <1>6 DEF OAuth!LoginList
    <3>3. OAuth!Cardinality(OAuth!TooMany \ todo) \in Nat
      <4>1. OAuth!TooMany \ todo \in SUBSET Live
        BY <3>1
      <4> QED  BY <4>1, SameSize, LiveIsFinite, FS_Subset, FS_CardinalityType
    <3> QED  BY <1>6, <3>1, <3>2, <3>3, UnprunedStays DEF OAuth!LoginList, TokenInv, OAuthType
  <2>2. TokenInv'
    BY <2>1, ShedStep DEF TokenInv, OAuthType
  <2> QED  BY <1>6, <2>2, LoginListStep
<1>7. ASSUME NEW l \in Logins, OAuth!LoginPrune(l) PROVE OAuthInv'
  BY <1>7, PruneStep
<1>8. ASSUME NEW l \in Logins, OAuth!LoginCreate(l) PROVE OAuthInv'
  <2>1. TokenInv'
    BY <1>8, CreatesToken
  <2> QED  BY <1>8, <2>1, LoginCreateStep
<1>9. CASE OAuth!LogoutList \/ OAuth!LogoutDelete \/ OAuth!LogoutEnds \/ OAuth!Disconnect
  BY <1>9, LogoutStep
<1> QED  BY <1>2, <1>3, <1>4, <1>5, <1>6, <1>7, <1>8, <1>9 DEF OAuth!Next

LEMMA OAuthInvHolds == Spec => []OAuthInv
<1>1. Init => OAuthInv
  BY SessionsInit, InitTokenInv, InitBoundInv DEF OAuthInv
<1>2. OAuthInv /\ [Next]_vars => OAuthInv'
  BY SessionsStep, NextOAuthInv
<1> QED  BY <1>1, <1>2, PTL DEF Spec

\* A provider refuses a token, and the session is deleted for it, only if two
\* requests refreshed it at the same time, or an earlier refresh of the session was cut
\* off or could not write its row: get_oauth_token, _perform_token_refresh and
\* update_session_by_id.
THEOREM RefusedOnlyWhenRaced == Spec => []RefusedOnlyInRace
<1>1. OAuthInv => RefusedOnlyInRace
  BY DEF OAuthInv, TokenInv, RefusedOnlyInRace
<1> QED  BY <1>1, OAuthInvHolds, PTL

\* Logins at the same time exceed OAUTH_MAX_SESSIONS_PER_USER by less than their
\* number, and by the rows that an error kept from being deleted: handle_callback prunes
\* by the list it has read.
THEOREM SessionsAreBounded == Spec => []SessionsStayBounded
<1>1. OAuthInv => SessionsStayBounded
  BY DEF OAuthInv, BoundInv, SessionsStayBounded
<1> QED  BY <1>1, OAuthInvHolds, PTL

\* A session that was deleted stays out: the UPDATE of a refresh that was under
\* way finds no row.
THEOREM DeletedSessionsStayOut == Spec => LoggedOutStaysOut
<1>1. OAuthInv /\ [Next]_vars
        => [\A s \in 1..made : stored[s] = 0 => stored'[s] = 0]_(OAuth!oauthVars)
  <2> SUFFICES ASSUME OAuthInv, OAuth!Next, NEW s \in 1..made, stored[s] = 0
               PROVE  stored'[s] = 0
    BY SessionsStep
  <2> USE DEF OAuthInv, TokenInv, OAuthType
  <2>1. s \in Ids
    BY OAuthNumbers
  <2>2. ASSUME NEW r \in Requests, NEW t \in OAuth!Ids, OAuth!Get(r, t) PROVE stored'[s] = 0
    BY <2>2 DEF OAuth!Get
  <2>3. ASSUME NEW r \in Requests,
               OAuth!Granted(r) \/ OAuth!Refused(r) \/ OAuth!Unanswered(r)
        PROVE  stored'[s] = 0
    BY <2>3 DEF OAuth!Granted, OAuth!Refused, OAuth!Unanswered
  <2>4. ASSUME NEW r \in Requests,
               OAuth!Store(r) \/ OAuth!StoreFails(r) \/ OAuth!DropSession(r)
               \/ OAuth!DropFails(r) \/ OAuth!Die(r)
        PROVE  stored'[s] = 0
    BY <2>1, <2>4, EndStep
  <2>5. ASSUME NEW l \in Logins, OAuth!LoginList(l) PROVE stored'[s] = 0
    BY <2>5 DEF OAuth!LoginList
  <2>6. ASSUME NEW l \in Logins, OAuth!LoginPrune(l) PROVE stored'[s] = 0
    BY <2>1, <2>6 DEF OAuth!LoginPrune
  <2>7. ASSUME NEW l \in Logins, OAuth!LoginCreate(l) PROVE stored'[s] = 0
    <3>1. s # made + 1
      BY OAuthNumbers
    <3> QED  BY <2>1, <2>7, <3>1 DEF OAuth!LoginCreate
  <2>8. CASE OAuth!LogoutList \/ OAuth!LogoutDelete \/ OAuth!LogoutEnds \/ OAuth!Disconnect
    BY <2>1, <2>8 DEF OAuth!LogoutList, OAuth!LogoutDelete, OAuth!LogoutEnds, OAuth!Disconnect,
                      Ids
  <2> QED  BY <2>2, <2>3, <2>4, <2>5, <2>6, <2>7, <2>8 DEF OAuth!Next
<1> QED  BY <1>1, OAuthInvHolds, PTL DEF Spec, LoggedOutStaysOut, OAuth!LoggedOutStaysOut
-----------------------------------------------------------------------------
\* The event, what an edit has loaded and what it sets.
CalendarType ==
    /\ AlertType /\ Calendar!TypeOK
    /\ userPc = "loaded" => {loaded, form} \subseteq EventRows

LEMMA CalendarTyped ==
  /\ Calendar!Init => CalendarType
  /\ CalendarType /\ [Calendar!Next]_(Calendar!vars) => CalendarType'
<1> USE AlertNumbers DEF Numbers
<1>b. Horizon \in Nat /\ MaxEdits \in Nat
  BY CalendarAssumption
<1>e. EventRows = Calendar!Events /\ NoRow \in EventRows \cup {NoRow}
  BY DEF EventRows, Options, Calendar!Events
<1>1. ASSUME Calendar!Init PROVE CalendarType
  <2>1. event \in EventRows /\ event.start \in EventStarts
    BY <1>1 DEF Calendar!Init, EventRows, Options
  <2>2. timer \in [AlertWorkers -> Nat] /\ budget \in [AlertWorkers -> Nat]
    BY <1>1 DEF Calendar!Init
  <2>3. Calendar!TypeOK
    BY <1>1, <1>b, <1>e, <2>1, <2>2 DEF Calendar!Init, Calendar!TypeOK
  <2>4. AlertType
    BY <1>1, <2>1, <2>2 DEF Calendar!Init, AlertType, AlertSteps
  <2> QED  BY <1>1, <2>3, <2>4 DEF CalendarType, Calendar!Init
<1>2. ASSUME CalendarType, Calendar!Next PROVE CalendarType'
  <2> USE <1>2 DEF CalendarType
  <2>0. AlertType
    OBVIOUS
  <2>1. ASSUME NEW v \in AlertWorkers, Calendar!Step(v) PROVE CalendarType'
    <3>1. /\ alertPc' \in [AlertWorkers -> AlertSteps]
          /\ timer' \in [AlertWorkers -> Nat] /\ budget' \in [AlertWorkers -> Nat]
      <4>1. \/ \E l \in AlertSteps, d \in Nat, n \in Nat : Calendar!GoTo(v, l, d, n)
            \/ \E l \in AlertSteps : Calendar!GoOn(v, l)
            \/ Calendar!Sleep(v)
        BY <2>1 DEF Calendar!Step, Calendar!Scan, Calendar!RoundFails, Calendar!Alert,
           Calendar!MarkLoad,
           Calendar!MarkWrite, Calendar!MarkFails, Calendar!Notify, Calendar!Die,
           Calendar!Restart, AlertSteps
      <4> QED  BY <2>0, <4>1, GoToKeeps, GoOnKeeps, SleepKeeps
    <3>2. /\ UNCHANGED <<now, userPc, form, loaded, edits, written>>
          /\ found' \in [AlertWorkers -> EventStarts]
          /\ loadedLead' \in [AlertWorkers -> Options \cup {NoRow}]
          /\ alerted' \subseteq EventStarts /\ failed' \subseteq AlertWorkers
      BY <2>1 DEF Calendar!Step, Calendar!Scan, Calendar!RoundFails, Calendar!Alert,
         Calendar!MarkLoad,
           Calendar!MarkWrite, Calendar!MarkFails, Calendar!Notify, Calendar!Die,
           Calendar!Restart, Calendar!userVars, AlertType, EventRows, Calendar!TypeOK
    <3>3. /\ event' \in EventRows
          /\ \A w \in AlertWorkers : alertPc'[w] = "marking" => loadedLead'[w] \in Options
      <4>1. CASE Calendar!MarkWrite(v)
        <5>1. /\ Calendar!GoOn(v, "rest") /\ loadedLead[v] \in Options
              /\ event' = [event EXCEPT !.alerted = TRUE, !.lead = loadedLead[v]]
              /\ loadedLead' = [loadedLead EXCEPT ![v] = NoRow] /\ "rest" \in AlertSteps
          BY <4>1 DEF Calendar!MarkWrite, AlertType, AlertSteps
        <5>2. event' \in EventRows
          BY <2>0, <5>1 DEF AlertType, EventRows
        <5>3. alertPc' = [alertPc EXCEPT ![v] = "rest"]
          BY <5>1 DEF Calendar!GoOn
        <5> QED  BY <2>0, <5>1, <5>2, <5>3 DEF AlertType
      <4>2. CASE ~Calendar!MarkWrite(v)
        <5>1. event' = event
          BY <2>1, <4>2 DEF Calendar!Step, Calendar!Scan, Calendar!RoundFails, Calendar!Alert,
             Calendar!MarkLoad,
             Calendar!MarkFails, Calendar!Notify, Calendar!Die, Calendar!Restart
        <5>2. \/ alertPc'[v] = "marking" /\ loadedLead'[v] \in Options
              \/ alertPc'[v] # "marking"
          BY <2>1, <4>2 DEF Calendar!Step, Calendar!Scan, Calendar!RoundFails, Calendar!Alert,
             Calendar!MarkLoad,
             Calendar!MarkFails, Calendar!Notify, Calendar!Die, Calendar!Restart,
             Calendar!Sleep, Calendar!GoTo, Calendar!GoOn, AlertType, EventRows
        <5>3. \A w \in AlertWorkers \ {v} :
                 alertPc'[w] = alertPc[w] /\ loadedLead'[w] = loadedLead[w]
          BY <2>1, <4>2 DEF Calendar!Step, Calendar!Scan, Calendar!RoundFails, Calendar!Alert,
             Calendar!MarkLoad,
             Calendar!MarkFails, Calendar!Notify, Calendar!Die, Calendar!Restart,
             Calendar!Sleep, Calendar!GoTo, Calendar!GoOn, AlertType
        <5> QED  BY <2>0, <5>1, <5>2, <5>3 DEF AlertType
      <4> QED  BY <4>1, <4>2
    <3> QED  BY <1>e, <3>1, <3>2, <3>3 DEF AlertType, AlertSteps, Calendar!TypeOK, Options
  <2>2. CASE Calendar!EditLoad
    <3>1. event \in EventRows /\ form' \in EventRows
      BY <2>2 DEF Calendar!EditLoad, AlertType, EventRows, Options
    <3>2. edits' \in 0..MaxEdits
      BY <1>b, <2>2 DEF Calendar!EditLoad, Calendar!TypeOK
    <3> QED  BY <1>e, <2>2, <3>1, <3>2
             DEF Calendar!EditLoad, Calendar!loopVars, AlertType, Calendar!TypeOK
  <2>3. CASE Calendar!EditWrite
    <3>1. /\ event \in EventRows /\ form \in EventRows /\ loaded \in EventRows
      BY <2>3 DEF Calendar!EditWrite, AlertType
    <3>2. /\ form.start \in EventStarts /\ form.cancelled \in BOOLEAN /\ form.lead \in Options
          /\ loaded.alerted \in BOOLEAN
      BY <3>1 DEF EventRows
    <3>3. event' \in EventRows
      <4>1. CASE ~event.there
        BY <2>3, <3>1, <4>1 DEF Calendar!EditWrite
      <4>2. CASE event.there
        <5>1. PICK start \in {form.start, event.start}, off \in {form.cancelled, event.cancelled},
                   lead \in {form.lead, event.lead}, mark \in {loaded.alerted, event.alerted} :
                event' = [event EXCEPT !.start = start, !.cancelled = off, !.lead = lead,
                                       !.alerted = mark]
          BY <2>3, <4>2 DEF Calendar!EditWrite
        <5> QED  BY <3>1, <3>2, <5>1 DEF EventRows
      <4> QED  BY <4>1, <4>2
    <3> QED  BY <1>e, <2>3, <3>3
             DEF Calendar!EditWrite, Calendar!loopVars, AlertType, Calendar!TypeOK
  <2>4. CASE Calendar!Delete
    <3>1. event' \in EventRows
      BY <2>4 DEF Calendar!Delete, AlertType, EventRows
    <3>2. edits' \in 0..MaxEdits
      BY <1>b, <2>4 DEF Calendar!Delete, Calendar!TypeOK
    <3> QED  BY <1>e, <2>4, <3>1, <3>2
             DEF Calendar!Delete, Calendar!loopVars, AlertType, Calendar!TypeOK
  <2>5. CASE Calendar!Tick
    <3>1. now' \in 0..Horizon
      BY <1>b, <2>5 DEF Calendar!Tick, Calendar!TypeOK
    <3>2. timer' \in [AlertWorkers -> Nat] /\ budget' \in [AlertWorkers -> Nat]
      BY <2>5 DEF Calendar!Tick, Calendar!Minus1, AlertType
    <3> QED  BY <2>5, <3>1, <3>2 DEF Calendar!Tick, Calendar!userVars, AlertType, Calendar!TypeOK
  <2> QED  BY <2>1, <2>2, <2>3, <2>4, <2>5 DEF Calendar!Next
<1>3. ASSUME CalendarType, UNCHANGED Calendar!vars PROVE CalendarType'
  BY <1>3 DEF Calendar!vars, Calendar!loopVars, Calendar!userVars, CalendarType, AlertType,
              Calendar!TypeOK
<1> QED  BY <1>1, <1>2, <1>3
-----------------------------------------------------------------------------
\* The failed attempts of the lock's loop are counted up to its limit.
LockCounts ==
    /\ lockBudget \in [LockProcs -> Nat] /\ tries \in [LockProcs -> 0..Attempts]
LockTyped == WaitInv(0) /\ LockCounts

LEMMA LockIsTyped ==
  /\ Lock!Init => LockTyped
  /\ LockTyped /\ [Lock!Next]_(Lock!vars) => LockTyped'
<1> USE LockAssumption
<1>1. ASSUME Lock!Init PROVE LockTyped
  <2>1. WaitInv(0)
    BY <1>1, InitWait
  <2>2. LockCounts
    BY <1>1 DEF Lock!Init, LockCounts
  <2> QED  BY <2>1, <2>2 DEF LockTyped
<1>2. ASSUME LockTyped, [Lock!Next]_(Lock!vars) PROVE LockTyped'
  <2>1. WaitInv(0)'
    <3>1. \A d \in RetryDelays : 0 <= d
      OBVIOUS
    <3> QED  BY <1>2, <3>1, NextWait DEF LockTyped
  <2> SUFFICES LockCounts'
    BY <2>1 DEF LockTyped
  <2> USE DEF LockCounts
  <2>2. ASSUME NEW p \in LockProcs, NEW l, NEW d \in Nat, Lock!GoTo(p, l, d)
        PROVE  lockBudget' \in [LockProcs -> Nat]
    BY <1>2, <2>2 DEF LockTyped, Lock!GoTo
  <2>3. ASSUME NEW p \in LockProcs,
               Lock!Starting(p) \/ Lock!Cleaning(p) \/ Lock!Ending(p) \/ Lock!Outside(p)
        PROVE  LockCounts'
    <3>1. CASE Lock!AcquireFails(p)
      <4>1. tries' = [tries EXCEPT ![p] = tries[p] + 1] /\ tries[p] + 1 < Attempts
        BY <3>1 DEF Lock!AcquireFails, Lock!MoreTries
      <4>2. lockBudget' \in [LockProcs -> Nat]
        BY <2>2, <3>1 DEF Lock!AcquireFails
      <4>3. tries[p] \in 0..Attempts
        BY <1>2 DEF LockTyped
      <4>4. tries[p] + 1 \in 0..Attempts
        BY <4>1, <4>3
      <4> QED  BY <1>2, <4>1, <4>2, <4>4 DEF LockTyped
    <3>2. CASE Lock!WakeToRenew(p)
      BY <1>2, <3>2 DEF Lock!WakeToRenew, Lock!procVars, LockTyped
    <3>3. CASE ~Lock!AcquireFails(p) /\ ~Lock!WakeToRenew(p)
      <4>1. tries' = tries /\ \E l, d : d \in Nat /\ Lock!GoTo(p, l, d)
        BY <2>3, <3>3 DEF Lock!Starting, Lock!Cleaning, Lock!Ending, Lock!Outside,
           Lock!Acquire, Lock!Skip, Lock!WakeToRetry, Lock!Renew, Lock!CleanPass, Lock!Boot,
           Lock!PassRaises, Lock!ReleaseRead, Lock!ReleaseDelete, Lock!Die, Lock!procVars,
           Lock!EndLoop
      <4> QED  BY <1>2, <2>2, <4>1 DEF LockTyped
    <3> QED  BY <3>1, <3>2, <3>3
  <2>a. lockBudget \in [LockProcs -> Nat] /\ tries \in [LockProcs -> 0..Attempts]
    BY <1>2 DEF LockTyped
  <2>4. CASE Lock!Tick
    <3>1. /\ lockBudget' = [p \in LockProcs |-> Lock!Minus1(lockBudget[p])]
          /\ tries' = tries
      BY <2>4 DEF Lock!Tick, Lock!procVars
    <3>2. \A n \in Nat : Lock!Minus1(n) \in Nat
      BY DEF Lock!Minus1
    <3> QED  BY <2>a, <3>1, <3>2
  <2>5. CASE UNCHANGED Lock!vars
    BY <2>a, <2>5 DEF Lock!vars, Lock!procVars
  <2> HIDE DEF LockCounts
  <2> QED  BY <1>2, <2>3, <2>4, <2>5 DEF Lock!Next
<1> QED  BY <1>1, <1>2

LEMMA LockTypeOK == LockTyped => Lock!TypeOK
  BY LockAssumption DEF LockTyped, LockCounts, WaitInv, LockType, LockSteps, Lock!TypeOK
-----------------------------------------------------------------------------
\* A process that is on its own is one of the processes.
ModelsTyped == AgreeInv /\ alone \subseteq Writers

LEMMA ModelsAreTyped ==
  /\ Models!Init => ModelsTyped
  /\ ModelsTyped /\ [Models!Next]_(Models!modelVars) => ModelsTyped'
<1>1. Models!Init => ModelsTyped
  BY InitAgreeInv DEF Models!Init, ModelsTyped
<1>2. ASSUME ModelsTyped, [Models!Next]_(Models!modelVars) PROVE (alone \subseteq Writers)'
  BY <1>2 DEF ModelsTyped, Models!modelVars, Models!Next, Models!Clear, Models!ReadKeys,
              Models!WriteEntries, Models!RemoveEntries, Models!SetFails, Models!Restart
<1> QED  BY <1>1, <1>2, NextAgreeInv DEF ModelsTyped

LEMMA ModelsTypeOK == ModelsTyped => Models!TypeOK
<1> SUFFICES ASSUME ModelsTyped PROVE Models!TypeOK
  OBVIOUS
<1>1. /\ ModelInv /\ Settings
  BY DEF ModelsTyped, AgreeInv
<1>2. ASSUME NEW q \in Writers
      PROVE  setting[q] \in [at : {"idle", "hset", "hdel"}, list : Lists \cup {{}},
                             remove : SUBSET UNION Lists]
  <2>1. CASE setting[q].at = "idle"
    BY <1>1, <2>1 DEF Settings, Models!Nothing
  <2>2. CASE setting[q].at # "idle"
    BY <1>1, <2>2 DEF Settings, ModelInv, RemovesStale
  <2> QED  BY <2>1, <2>2
<1>3. setting = [q \in Writers |-> setting[q]]
  BY <1>1 DEF ModelInv, RemovesStale
<1> QED  BY <1>1, <1>2, <1>3 DEF Models!TypeOK, ModelsTyped, ModelInv, Settings
-----------------------------------------------------------------------------
\* The directories' type, for any number of movers.
Deletions == [at : {"commit"}, dir : Dirs, up : Tree!Nodes \ {NoRow}, keep : BOOLEAN]
Filings == [at : {"update"}, file : Files, to : Dirs \cup {Root}]
TreeType ==
    /\ parent \in [Dirs -> Tree!Nodes] /\ place \in [Files -> Tree!Nodes] /\ fresh \subseteq Dirs
    /\ move \in [Movers -> {Tree!Free} \cup Walks]
    /\ del \in [Deleters -> {Tree!Free} \cup Deletions]
    /\ filing \in [Filers -> {Tree!Free} \cup Filings]

LEMMA TreeIsTyped ==
  /\ Tree!Init => TreeType
  /\ TreeType /\ [Tree!Next]_(Tree!treeVars) => TreeType'
<1>1. Tree!Init => TreeType
  BY DEF Tree!Init, TreeType, Tree!Nodes
<1>2. ASSUME TreeType, [Tree!Next]_(Tree!treeVars) PROVE TreeType'
  <2> USE <1>2 DEF TreeType
  <2>r. Root \in Tree!Nodes /\ NoRow \in Tree!Nodes /\ Dirs \subseteq Tree!Nodes
    BY DEF Tree!Nodes
  <2>1. ASSUME NEW d \in Dirs, NEW p \in Dirs \cup {Root}, Tree!Create(d, p) PROVE TreeType'
    BY <2>1, <2>r DEF Tree!Create
  <2>2. ASSUME NEW m \in Movers PROVE
          /\ \A d \in Dirs, to \in Dirs \cup {Root} : Tree!MoveBegin(m, d, to) => TreeType'
          /\ Tree!MoveRefused(m) \/ Tree!MoveWalk(m) \/ Tree!MoveUpdate(m) => TreeType'
    <3>1. ASSUME NEW d \in Dirs, NEW to \in Dirs \cup {Root}, Tree!MoveBegin(m, d, to)
          PROVE  TreeType'
      <4>1. [at |-> "walk", dir |-> d, to |-> to, cur |-> to, seen |-> {}] \in Walks
        BY <2>r DEF Walks
      <4> QED  BY <3>1, <4>1 DEF Tree!MoveBegin
    <3>2. CASE Tree!MoveRefused(m)
      BY <3>2 DEF Tree!MoveRefused
    <3>3. CASE Tree!MoveWalk(m)
      <4> DEFINE w == move[m]
      <4>1. w \in Walks /\ w.cur \in Dirs
        BY <3>3 DEF Tree!MoveWalk, Tree!Walking, Tree!Free
      <4>2. [w EXCEPT !.seen = @ \cup {w.cur}, !.cur = parent[w.cur]] \in Walks
        BY <4>1 DEF Walks
      <4> QED  BY <3>3, <4>2 DEF Tree!MoveWalk
    <3>4. CASE Tree!MoveUpdate(m)
      <4>1. move[m] \in Walks
        BY <3>4 DEF Tree!MoveUpdate, Tree!Free
      <4>2. move[m].to \in Tree!Nodes
        BY <2>r, <4>1 DEF Walks
      <4> QED  BY <3>4, <4>2 DEF Tree!MoveUpdate
    <3> QED  BY <3>1, <3>2, <3>3, <3>4
  <2>3. ASSUME NEW x \in Deleters PROVE
          /\ \A d \in Dirs, keep \in BOOLEAN : Tree!DeleteLoad(x, d, keep) => TreeType'
          /\ Tree!DeleteCommit(x) => TreeType'
    <3>1. ASSUME NEW d \in Dirs, NEW keep \in BOOLEAN, Tree!DeleteLoad(x, d, keep)
          PROVE  TreeType'
      <4>1. [at |-> "commit", dir |-> d, up |-> parent[d], keep |-> keep] \in Deletions
        BY <3>1 DEF Tree!DeleteLoad, Tree!Rows, Deletions
      <4> QED  BY <3>1, <4>1 DEF Tree!DeleteLoad
    <3>2. CASE Tree!DeleteCommit(x)
      <4>1. del[x] \in Deletions
        BY <3>2 DEF Tree!DeleteCommit, Tree!Free
      <4>2. del[x].dir \in Dirs /\ del[x].up \in Tree!Nodes
        BY <4>1 DEF Deletions
      <4>3. parent' \in [Dirs -> Tree!Nodes] /\ place' \in [Files -> Tree!Nodes]
        BY <2>r, <3>2, <4>2 DEF Tree!DeleteCommit
      <4> QED  BY <3>2, <4>3 DEF Tree!DeleteCommit
    <3> QED  BY <3>1, <3>2
  <2>4. ASSUME NEW v \in Filers PROVE
          /\ \A f \in Files, to \in Dirs \cup {Root} : Tree!FileCheck(v, f, to) => TreeType'
          /\ Tree!FileUpdate(v) => TreeType'
    <3>1. ASSUME NEW f \in Files, NEW to \in Dirs \cup {Root}, Tree!FileCheck(v, f, to)
          PROVE  TreeType'
      <4>1. [at |-> "update", file |-> f, to |-> to] \in Filings
        BY DEF Filings
      <4> QED  BY <3>1, <4>1 DEF Tree!FileCheck
    <3>2. CASE Tree!FileUpdate(v)
      <4>1. filing[v] \in Filings
        BY <3>2 DEF Tree!FileUpdate, Tree!Free
      <4>2. filing[v].to \in Tree!Nodes
        BY <2>r, <4>1 DEF Filings
      <4> QED  BY <3>2, <4>2 DEF Tree!FileUpdate
    <3> QED  BY <3>1, <3>2
  <2>5. CASE UNCHANGED Tree!treeVars
    BY <2>5 DEF Tree!treeVars
  <2> QED  BY <2>1, <2>2, <2>3, <2>4, <2>5 DEF Tree!Next
<1> QED  BY <1>1, <1>2

LEMMA TreeTypeOK == TreeType => Tree!TypeOK
  BY DEF TreeType, Tree!TypeOK, Walks, Deletions, Filings
-----------------------------------------------------------------------------
\* The checks that began at t and have not answered.
Unanswered(t) == {p \in Checkers : Checking(p) /\ check[p].since = t}

\* An attempt is answered once at most.
Answers ==
    /\ \A t \in 0..LastTime : allowed[t] + Cardinality(Unanswered(t)) <= attempts
    /\ \A b \in Limiter!Buckets : expiry[b] <= Limiter!Never
LimiterTyped == LimiterType /\ LimiterTimes /\ Answers

LEMMA UnansweredIs ==
  ASSUME NEW t
  PROVE  /\ IsFiniteSet(Unanswered(t)) /\ Cardinality(Unanswered(t)) \in Nat
         /\ \A p \in Checkers : p \in Unanswered(t) =>
                Cardinality(Unanswered(t) \ {p}) = Cardinality(Unanswered(t)) - 1
         /\ \A p \in Checkers :
                Cardinality(Unanswered(t) \cup {p}) <= Cardinality(Unanswered(t)) + 1
         /\ \A S \in SUBSET Unanswered(t) :
                Cardinality(S) \in Nat /\ Cardinality(S) <= Cardinality(Unanswered(t))
<1>1. Unanswered(t) \in SUBSET Checkers
  BY DEF Unanswered
<1>2. IsFiniteSet(Unanswered(t)) /\ Cardinality(Unanswered(t)) \in Nat
  BY <1>1, SomeCheckers
<1> HIDE DEF Unanswered
<1>3. ASSUME NEW p \in Checkers
      PROVE  Cardinality(Unanswered(t) \cup {p}) <= Cardinality(Unanswered(t)) + 1
  <2>1. CASE p \in Unanswered(t)
    <3>1. Unanswered(t) \cup {p} = Unanswered(t)
      BY <2>1
    <3>2. Cardinality(Unanswered(t) \cup {p}) = Cardinality(Unanswered(t))
      BY <3>1, Zenon
    <3> QED  BY <1>2, <3>2
  <2>2. CASE p \notin Unanswered(t)
    <3>1. Cardinality(Unanswered(t) \cup {p}) = Cardinality(Unanswered(t)) + 1
      BY <1>2, <2>2, FS_AddElement
    <3> QED  BY <1>2, <3>1
  <2> QED  BY <2>1, <2>2
<1> QED  BY <1>2, <1>3, FS_RemoveElement, FS_Subset, FS_CardinalityType

LEMMA NextAnswers == ASSUME LimiterTyped, Limiter!Next PROVE Answers'
<1> USE DEF LimiterTyped
<1>n. attempts \in Nat /\ clock \in 0..LastTime /\ \A t \in 0..LastTime : allowed[t] \in Nat
  BY LimiterNumbers DEF LimiterType
<1>1. ASSUME NEW p \in Checkers, Limiter!Increment(p) PROVE Answers'
  <2>1. /\ attempts' = attempts + 1 /\ UNCHANGED <<clock, expiry, allowed>>
        /\ \A q \in Checkers \ {p} : check'[q] = check[q]
    BY <1>1 DEF Limiter!Increment, LimiterType
  <2>2. ASSUME NEW t \in 0..LastTime
        PROVE  allowed'[t] + Cardinality(Unanswered(t)') <= attempts'
    <3>1. Unanswered(t)' \in SUBSET (Unanswered(t) \cup {p})
      BY <2>1 DEF Unanswered, Checking
    <3>2. Cardinality(Unanswered(t)') <= Cardinality(Unanswered(t) \cup {p})
          /\ Cardinality(Unanswered(t)') \in Nat
          /\ Cardinality(Unanswered(t) \cup {p}) \in Nat
      BY <3>1, UnansweredIs, FS_AddElement, FS_Subset, FS_CardinalityType
    <3>3. /\ Cardinality(Unanswered(t) \cup {p}) <= Cardinality(Unanswered(t)) + 1
          /\ Cardinality(Unanswered(t)) \in Nat
      BY UnansweredIs
    <3>4. allowed[t] + Cardinality(Unanswered(t)) <= attempts
      BY DEF Answers
    <3> QED  BY <1>n, <2>1, <3>2, <3>3, <3>4
  <2> QED  BY <2>1, <2>2 DEF Answers
<1>2. ASSUME NEW p \in Checkers, Limiter!SetExpiry(p) PROVE Answers'
  <2>1. \A q \in Checkers : /\ Checking(q)' <=> Checking(q)
                            /\ Checking(q) => check'[q].since = check[q].since
    BY <1>2, SetExpiryKeepsChecks
  <2>2. UNCHANGED <<attempts, allowed>> /\ \A t : Unanswered(t)' = Unanswered(t)
    BY <1>2, <2>1 DEF Limiter!SetExpiry, Unanswered
  <2>3. clock + Window + BucketSize <= Limiter!Never
    BY <1>n, LimiterNumbers DEF Limiter!Never
  <2>4. \A b \in Limiter!Buckets :
            expiry'[b] = expiry[b] \/ expiry'[b] = clock + Window + BucketSize
    BY <1>2 DEF Limiter!SetExpiry, LimiterType
  <2> QED  BY <2>2, <2>3, <2>4 DEF Answers
<1>3. ASSUME NEW p \in Checkers, Limiter!Sum(p) PROVE Answers'
  <2> DEFINE s == check[p].since
  <2>1. Checking(p) /\ s \in 0..LastTime
    BY <1>3 DEF Limiter!Sum, LimiterType, Checking, Check, Limiter!NoCheck
  <2>2. /\ UNCHANGED <<attempts, expiry>> /\ check' = [check EXCEPT ![p] = Limiter!NoCheck]
        /\ allowed' = allowed \/ allowed' = [allowed EXCEPT ![s] = @ + 1]
    BY <1>3 DEF Limiter!Sum
  <2>3. \A t \in 0..LastTime : Unanswered(t)' = Unanswered(t) \ {p}
    BY <2>2 DEF Unanswered, Checking, LimiterType
  <2>4. p \in Unanswered(s)
    BY <2>1 DEF Unanswered
  <2> HIDE DEF s
  <2>5. ASSUME NEW t \in 0..LastTime
        PROVE  allowed'[t] + Cardinality(Unanswered(t)') <= attempts'
    <3>1. /\ Cardinality(Unanswered(t) \ {p}) \in Nat /\ Cardinality(Unanswered(t)) \in Nat
          /\ Cardinality(Unanswered(t) \ {p}) <= Cardinality(Unanswered(t))
          /\ t = s => Cardinality(Unanswered(t) \ {p}) = Cardinality(Unanswered(t)) - 1
      BY <2>4, UnansweredIs
    <3>2. allowed'[t] = allowed[t] \/ (t = s /\ allowed'[t] = allowed[t] + 1)
      BY <2>1, <2>2 DEF LimiterType
    <3>3. allowed[t] + Cardinality(Unanswered(t)) <= attempts /\ attempts' = attempts
      BY <2>2 DEF Answers
    <3> QED  BY <1>n, <2>3, <3>1, <3>2, <3>3
  <2> QED  BY <2>2, <2>5 DEF Answers
<1>4. ASSUME NEW p \in Checkers, Limiter!Stop(p) PROVE Answers'
  <2>1. UNCHANGED <<attempts, expiry, allowed>> /\ \A t : Unanswered(t)' \in SUBSET Unanswered(t)
    BY <1>4 DEF Limiter!Stop, Unanswered, Checking, LimiterType
  <2>2. ASSUME NEW t \in 0..LastTime
        PROVE  allowed'[t] + Cardinality(Unanswered(t)') <= attempts'
    <3>1. /\ Cardinality(Unanswered(t)') \in Nat /\ Cardinality(Unanswered(t)) \in Nat
          /\ Cardinality(Unanswered(t)') <= Cardinality(Unanswered(t))
      BY <2>1, UnansweredIs
    <3>2. allowed[t] + Cardinality(Unanswered(t)) <= attempts
      BY DEF Answers
    <3> QED  BY <1>n, <2>1, <3>1, <3>2
  <2> QED  BY <2>1, <2>2 DEF Answers
<1>5. ASSUME Limiter!Pass PROVE Answers'
  <2>1. UNCHANGED <<attempts, allowed>> /\ \A t : Unanswered(t)' = Unanswered(t)
    BY <1>5 DEF Limiter!Pass, Unanswered, Checking
  <2>2. \A b \in Limiter!Buckets : expiry'[b] = expiry[b] \/ expiry'[b] = Limiter!Never
    BY <1>5 DEF Limiter!Pass
  <2>3. Limiter!Never <= Limiter!Never
    BY KeyTimes
  <2> QED  BY <2>1, <2>2, <2>3 DEF Answers
<1> QED  BY <1>1, <1>2, <1>3, <1>4, <1>5 DEF Limiter!Next

LEMMA LimiterIsTyped ==
  /\ Limiter!Init => LimiterTyped
  /\ LimiterTyped /\ [Limiter!Next]_(Limiter!limiterVars) => LimiterTyped'
<1>1. ASSUME Limiter!Init PROVE LimiterTyped
  <2>1. \A t : Unanswered(t) = {}
    BY <1>1 DEF Limiter!Init, Unanswered, Checking
  <2>2. Answers
    <3>1. ASSUME NEW t \in 0..LastTime PROVE allowed[t] + Cardinality(Unanswered(t)) <= attempts
      <4>1. allowed[t] = 0 /\ attempts = 0 /\ Unanswered(t) = {}
        BY <1>1, <2>1 DEF Limiter!Init
      <4> QED  BY <4>1, FS_EmptySet
    <3>2. Limiter!Never <= Limiter!Never
      BY KeyTimes
    <3> QED  BY <1>1, <3>1, <3>2 DEF Limiter!Init, Answers
  <2> QED  BY <1>1, <2>2, InitLimits DEF LimiterTyped, LimiterInv
<1>2. ASSUME LimiterTyped, UNCHANGED Limiter!limiterVars PROVE LimiterTyped'
  BY <1>2 DEF Limiter!limiterVars, LimiterTyped, LimiterType, LimiterTimes, Answers, Unanswered,
              Checking
<1> QED  BY <1>1, <1>2, NextLimiterTyped, NextAnswers DEF LimiterTyped

LEMMA LimiterTypeOK == LimiterTyped => Limiter!TypeOK
<1> SUFFICES ASSUME LimiterTyped PROVE Limiter!TypeOK
  OBVIOUS
<1>n. MaxAttempts \in Nat /\ attempts \in 0..MaxAttempts /\ Limiter!Never \in Nat
  BY LimiterNumbers, KeyTimes DEF LimiterTyped, LimiterType
<1>1. counter \in [Limiter!Buckets -> 0..MaxAttempts]
  <2>1. \A b \in Limiter!Buckets : counter[b] \in Nat /\ counter[b] <= attempts
    BY DEF LimiterTyped, LimiterType, LimiterTimes
  <2> QED  BY <1>n, <2>1 DEF LimiterTyped, LimiterType
<1>2. expiry \in [Limiter!Buckets -> 0..Limiter!Never]
  <2>1. \A b \in Limiter!Buckets : expiry[b] \in Nat /\ expiry[b] <= Limiter!Never
    BY DEF LimiterTyped, LimiterType, Answers
  <2> QED  BY <1>n, <2>1 DEF LimiterTyped, LimiterType
<1>3. allowed \in [0..LastTime -> 0..MaxAttempts]
  <2>1. ASSUME NEW t \in 0..LastTime PROVE allowed[t] \in 0..MaxAttempts
    <3>1. allowed[t] \in Nat /\ allowed[t] + Cardinality(Unanswered(t)) <= attempts
      BY DEF LimiterTyped, LimiterType, Answers
    <3> QED  BY <1>n, <3>1, UnansweredIs
  <2> QED  BY <2>1 DEF LimiterTyped, LimiterType
<1>4. ASSUME NEW p \in Checkers, Checking(p)
      PROVE  check[p] \in [at : {"expire", "sum"}, bucket : Limiter!Buckets, since : 0..LastTime]
  <2>1. check[p] \in Check /\ check[p].bucket \in Limiter!Buckets
    BY <1>4, CheckTimes DEF LimiterTyped
  <2> QED  BY <2>1 DEF Check
<1> QED  BY <1>n, <1>1, <1>2, <1>3, <1>4 DEF Limiter!TypeOK, LimiterTyped, LimiterType, Checking
-----------------------------------------------------------------------------
\* The bounds of a response, and that every recorded call has been made.
StreamCounts ==
    /\ api \in Apis /\ recorded \subseteq 1..calls
    /\ iterations \in 0..IterationLimit /\ retries \in 0..MaxRetries
    /\ continues \in 0..MaxContinues
StreamTyped == StreamType /\ Queued /\ Known /\ StreamCounts

LEMMA NextStreamCounts ==
  ASSUME StreamType, Known, StreamCounts, [Stream!Next]_(Stream!vars)
  PROVE  StreamCounts'
<1> USE DEF Stream!config, Stream!loop, Stream!asked, Stream!history
<1>0. /\ {IterationLimit, MaxRetries, MaxContinues} \subseteq Nat /\ calls \in Nat
  BY StreamAssumption DEF StreamType
<1>1. api' = api
  BY DEF Stream!Next, Stream!StreamText, Stream!StreamCall, Stream!StreamItem, Stream!EndStream,
     Stream!EndStreamWithCode, Stream!StreamEnds, Stream!StreamRaises, Stream!BeginTurn,
     Stream!RunTool, Stream!Record, Stream!AskAgain, Stream!AskFails, Stream!LeaveLoop,
     Stream!RunCode, Stream!AskCode, Stream!Finish, Stream!Cancel, Stream!Continue, Stream!vars
<1>2. recorded' \subseteq 1..calls'
  <2>1. CASE Stream!Record
    <3>1. recorded' = recorded \cup Stream!Range(turn) /\ calls' = calls
      BY <2>1 DEF Stream!Record
    <3> QED  BY <3>1 DEF StreamCounts, Known
  <2>2. CASE ~Stream!Record
    <3>1. recorded' = recorded /\ (calls' = calls \/ calls' = calls + 1)
      BY <2>2 DEF Stream!Next, Stream!StreamText, Stream!StreamCall, Stream!StreamItem,
         Stream!EndStream, Stream!EndStreamWithCode, Stream!StreamEnds, Stream!StreamRaises,
         Stream!BeginTurn, Stream!RunTool, Stream!AskAgain, Stream!AskFails, Stream!LeaveLoop,
         Stream!RunCode, Stream!AskCode, Stream!Finish, Stream!Cancel, Stream!Continue, Stream!vars
    <3>2. 1..calls \subseteq 1..(calls + 1)
      BY <1>0
    <3> QED  BY <3>1, <3>2 DEF StreamCounts
  <2> QED  BY <2>1, <2>2
<1>3. /\ \/ iterations' \in {0, iterations}
         \/ iterations < IterationLimit /\ iterations' = iterations + 1
      /\ \/ retries' \in {0, retries}
         \/ retries < MaxRetries /\ retries' = retries + 1
      /\ \/ continues' = continues
         \/ continues < MaxContinues /\ continues' = continues + 1
  BY DEF Stream!Next, Stream!StreamText, Stream!StreamCall, Stream!StreamItem, Stream!EndStream,
     Stream!EndStreamWithCode, Stream!StreamEnds, Stream!StreamRaises, Stream!BeginTurn,
     Stream!RunTool, Stream!Record, Stream!AskAgain, Stream!AskFails, Stream!LeaveLoop,
     Stream!RunCode, Stream!CodeIsLast, Stream!AskCode, Stream!Finish, Stream!Cancel,
     Stream!Continue, Stream!vars
<1> QED  BY <1>0, <1>1, <1>2, <1>3 DEF StreamCounts

LEMMA StreamIsTyped ==
  /\ Stream!Init => StreamTyped
  /\ StreamTyped /\ [Stream!Next]_(Stream!vars) => StreamTyped'
<1>1. Stream!Init => StreamCounts
  BY StreamAssumption DEF Stream!Init, StreamCounts
<1> QED  BY <1>1, InitStreamType, InitQueued, InitKnown, NextStreamType, NextQueued, NextKnown,
            NextStreamCounts DEF StreamTyped

LEMMA StreamTypeOK == StreamTyped => Stream!TypeOK
<1> SUFFICES ASSUME StreamTyped PROVE Stream!TypeOK
  OBVIOUS
<1>1. {output, prior, items, row.output} \subseteq Seq(Stream!ItemSet)
  BY DEF StreamTyped, StreamType, Items
<1>2. /\ {streamed, turn} \subseteq Seq(Stream!Calls) /\ queue \in Seq(Seq(Stream!Calls))
      /\ at \in 0..Len(turn) /\ row.done \in BOOLEAN /\ row.error \in BOOLEAN
  BY DEF StreamTyped, StreamType
<1> QED  BY <1>1, <1>2 DEF StreamTyped, StreamType, StreamCounts, Stream!TypeOK
-----------------------------------------------------------------------------
LEMMA PoolTypeOK == PoolInv => Pools!TypeOK
  BY DEF PoolInv, PoolType, Copies, Ages, Pools!TypeOK

LEMMA OAuthTypeOK == OAuthInv => OAuth!TypeOK
  BY DEF OAuthInv, TokenInv, OAuthType, Ids, Uses, OAuth!TypeOK

\* Whichever component runs, and however many processes, requests and lists it has,
\* its variables keep their types.  It takes the invariants above: an edit that
\* writes has loaded a row, a deletion has the parent of a row that was there
\* (delete_directory), aquire_lock is not tried more often than allowed, an attempt
\* is let pass once at most (is_limited), and a result is recorded only for a call
\* that the model has made.
THEOREM TypesAreKept == Spec => []TypeOK
<1> DEFINE Typed == /\ CalendarType /\ LockTyped /\ ModelsTyped /\ TreeType
                    /\ LimiterTyped /\ StreamTyped
           Inv == part \in Parts /\ Typed /\ PoolInv /\ OAuthInv
<1>1. Init => part \in Parts /\ Typed
  BY ServicesInit, CalendarTyped, LockIsTyped, ModelsAreTyped, TreeIsTyped, LimiterIsTyped,
     StreamIsTyped DEF Init
<1>2. (part \in Parts /\ Typed) /\ [Next]_vars => (part \in Parts /\ Typed)'
  <2>1. [Next]_vars => part' = part
    BY DEF Next, Only, vars
  <2> QED  BY <2>1, ServicesStep, CalendarTyped, LockIsTyped, ModelsAreTyped, TreeIsTyped,
              LimiterIsTyped, StreamIsTyped
<1>3. Inv => TypeOK
  <2> SUFFICES ASSUME Inv PROVE TypeOK
    OBVIOUS
  <2>1. /\ Calendar!TypeOK /\ Pools!TypeOK /\ OAuth!TypeOK /\ Models!TypeOK
        /\ Tree!TypeOK /\ Limiter!TypeOK /\ Stream!TypeOK /\ Lock!TypeOK
    BY PoolTypeOK, OAuthTypeOK, ModelsTypeOK, TreeTypeOK, LimiterTypeOK, StreamTypeOK, LockTypeOK
       DEF CalendarType
  <2> QED  BY <2>1 DEF TypeOK, Parts
<1>4. Spec => [](part \in Parts /\ Typed)
  BY <1>1, <1>2, PTL DEF Spec
<1> QED  BY <1>3, <1>4, PoolInvHolds, OAuthInvHolds, PTL
=============================================================================
