------------------------- MODULE YdocDocumentProof --------------------------
(***************************************************************************)
(* Joining a document loses nothing and neither does Redis, for every      *)
(* number of sessions and edits.  The order of the awaits is enough (enter *)
(* the room, then read the updates; store an update, then broadcast it),   *)
(* as long as every compaction writes back the list it has read: what the  *)
(* code would have if LRANGE, DELETE and RPUSH were one atomic step.       *)
(***************************************************************************)
EXTENDS YdocDocument, FiniteSetTheorems, TLAPS

\* An author has its own edits, whatever becomes of them.
AuthorHas == \A u \in Updates : updatePc[u] # "unmade" => u \in has[AuthorOf[u]]

RoomInv == TypeOK /\ AuthorHas /\ RoomIsUpToDate

\* A compaction in this step replaces the list that it has read.
CompactionIsCurrent == \A u \in Updates : Replace(u) => seen[u] = list

\* A session that has had the document open from the start.
Stays(s) == s \in Present /\ \A e \in Exits : exitPc[e][s] = "idle"

\* While one stays, it is listed as a user, nobody is clearing the document, and
\* the list holds every stored edit.
Kept ==
    \A s \in Sessions : Stays(s) =>
        /\ s \in users
        /\ \A e \in Exits, r \in Sessions : exitPc[e][r] \notin {"clearList", "clearUsers"}
        /\ Pushed \subseteq Content(list)

KeptInv == TypeOK /\ Kept

-----------------------------------------------------------------------------
\* An update is in the document if some entry holds it.
LEMMA ContentMember ==
    ASSUME NEW l \in Seq(SUBSET Updates), NEW x
    PROVE  x \in Content(l) <=> \E i \in 1..Len(l) : x \in l[i]
<1>1. DOMAIN l = 1..Len(l)
  OBVIOUS
<1>2. Content(l) = UNION {l[i] : i \in DOMAIN l}
  BY DEF Content, ToSet
<1> QED BY <1>1, <1>2

\* RPUSH adds one update to the document.
LEMMA ContentAppend ==
    ASSUME NEW l \in Seq(SUBSET Updates), NEW u \in Updates
    PROVE  Content(Append(l, {u})) = Content(l) \cup {u}
<1> DEFINE m == Append(l, {u})
<1>1. m \in Seq(SUBSET Updates) /\ Len(m) = Len(l) + 1
  OBVIOUS
<1>2. /\ \A i \in 1..Len(l) : m[i] = l[i]
      /\ m[Len(l) + 1] = {u}
  OBVIOUS
<1>3. Len(l) \in Nat
  OBVIOUS
<1> HIDE DEF m
<1>4. ASSUME NEW x PROVE x \in Content(m) <=> x \in Content(l) \cup {u}
  <2>1. x \in Content(m) <=> \E i \in 1..Len(m) : x \in m[i]
    BY <1>1, ContentMember
  <2>2. x \in Content(l) <=> \E i \in 1..Len(l) : x \in l[i]
    BY ContentMember
  <2> QED BY <2>1, <2>2, <1>1, <1>2, <1>3
<1>5. Content(m) = Content(l) \cup {u}
  BY <1>4
<1> QED BY <1>5 DEF m

\* An emptied list stands for the empty document.
LEMMA ContentEmpty == Content(<< >>) = {}
BY DEF Content, ToSet

LEMMA ContentType ==
    ASSUME NEW l \in Seq(SUBSET Updates)
    PROVE  Content(l) \subseteq Updates
BY DEF Content, ToSet
-----------------------------------------------------------------------------
LEMMA InitRoomInv == Init => RoomInv
<1> SUFFICES ASSUME Init PROVE RoomInv
  OBVIOUS
<1>1. TypeOK
  BY YdocConstants DEF Init, TypeOK, Exits
<1>2. AuthorHas
  BY DEF Init, AuthorHas
<1>3. RoomIsUpToDate
  BY ContentEmpty DEF Init, RoomIsUpToDate
<1> QED BY <1>1, <1>2, <1>3 DEF RoomInv
-----------------------------------------------------------------------------
\* The oldest half as one entry and the rest are again a list of entries.
LEMMA CompactedType ==
    ASSUME NEW l \in Seq(SUBSET Updates)
    PROVE  Compacted(l) \in Seq(SUBSET Updates)
<1> DEFINE mid == Len(l) \div 2
<1>1. Len(l) \in Nat /\ mid \in Nat /\ mid <= Len(l)
  OBVIOUS
<1>2. SubSeq(l, 1, mid) \in Seq(SUBSET Updates)
  BY <1>1
<1>3. SubSeq(l, mid + 1, Len(l)) \in Seq(SUBSET Updates)
  BY <1>1
<1>4. Content(SubSeq(l, 1, mid)) \in SUBSET Updates
  BY <1>2, ContentType
<1>5. <<Content(SubSeq(l, 1, mid))>> \in Seq(SUBSET Updates)
  BY <1>4
<1> HIDE DEF mid
<1>6. <<Content(SubSeq(l, 1, mid))>> \o SubSeq(l, mid + 1, Len(l)) \in Seq(SUBSET Updates)
  BY <1>3, <1>5
<1> QED BY <1>6 DEF Compacted, mid

\* Compaction does not change the document.
LEMMA CompactedContent ==
    ASSUME NEW l \in Seq(SUBSET Updates)
    PROVE  Content(Compacted(l)) = Content(l)
<1> DEFINE mid == Len(l) \div 2
           old == SubSeq(l, 1, mid)
           young == SubSeq(l, mid + 1, Len(l))
           all == <<Content(old)>> \o young
<1>1. Len(l) \in Nat /\ mid \in Nat /\ mid <= Len(l)
  OBVIOUS
<1> HIDE DEF mid
<1>2. /\ old \in Seq(SUBSET Updates) /\ Len(old) = mid
      /\ \A i \in 1..mid : old[i] = l[i]
  BY <1>1
<1>3. /\ young \in Seq(SUBSET Updates) /\ Len(young) = Len(l) - mid
      /\ \A i \in 1..(Len(l) - mid) : young[i] = l[mid + i]
  BY <1>1
<1> HIDE DEF old, young
<1>4. Content(old) \in SUBSET Updates
  BY <1>2, ContentType
<1>5. /\ all \in Seq(SUBSET Updates) /\ Len(all) = 1 + Len(young)
      /\ all[1] = Content(old)
      /\ \A i \in 1..Len(young) : all[i + 1] = young[i]
  BY <1>3, <1>4
<1> HIDE DEF all
<1>6. ASSUME NEW x PROVE x \in Content(all) <=> x \in Content(l)
  <2>1. x \in Content(old) <=> \E i \in 1..mid : x \in l[i]
    BY <1>2, ContentMember
  <2>2. x \in Content(l) <=> \E i \in 1..Len(l) : x \in l[i]
    BY ContentMember
  <2>3. x \in Content(all) <=> \E i \in 1..Len(all) : x \in all[i]
    BY <1>5, ContentMember
  <2>4. ASSUME x \in Content(all) PROVE x \in Content(l)
    <3>1. PICK i \in 1..Len(all) : x \in all[i]
      BY <2>3, <2>4
    <3>2. CASE i = 1
      <4>1. x \in Content(old)
        BY <3>1, <3>2, <1>5
      <4> QED BY <4>1, <1>1, <2>1, <2>2
    <3>3. CASE i # 1
      <4>1. i - 1 \in 1..Len(young) /\ i = (i - 1) + 1
        BY <3>3, <1>1, <1>3, <1>5
      <4>2. x \in young[i - 1]
        BY <3>1, <4>1, <1>5
      <4>3. i - 1 \in 1..(Len(l) - mid)
        BY <4>1, <1>3
      <4>4. young[i - 1] = l[mid + (i - 1)]
        BY <4>3, <1>3
      <4>5. mid + (i - 1) \in 1..Len(l)
        BY <4>3, <1>1
      <4> QED BY <4>2, <4>4, <4>5, <2>2
    <3> QED BY <3>2, <3>3
  <2>5. ASSUME x \in Content(l) PROVE x \in Content(all)
    <3>1. PICK i \in 1..Len(l) : x \in l[i]
      BY <2>2, <2>5
    <3>2. CASE i <= mid
      <4>1. x \in Content(old)
        BY <3>1, <3>2, <1>1, <2>1
      <4>2. 1 \in 1..Len(all)
        BY <1>1, <1>3, <1>5
      <4> QED BY <4>1, <4>2, <1>5, <2>3
    <3>3. CASE i > mid
      <4>1. i - mid \in 1..Len(young) /\ mid + (i - mid) = i
        BY <3>3, <1>1, <1>3
      <4>2. x \in young[i - mid]
        BY <3>1, <4>1, <1>3
      <4>3. x \in all[(i - mid) + 1] /\ (i - mid) + 1 \in 1..Len(all)
        BY <4>1, <4>2, <1>1, <1>3, <1>5
      <4> QED BY <4>3, <2>3
    <3> QED BY <3>2, <3>3, <1>1
  <2> QED BY <2>4, <2>5
<1> QED BY <1>6 DEF all, old, young, mid, Compacted

\* Every step keeps the types.
LEMMA TypeStep == TypeOK /\ [Next]_vars => TypeOK'
<1> SUFFICES ASSUME TypeOK, [Next]_vars PROVE TypeOK'
  OBVIOUS
<1> USE YdocConstants DEF TypeOK, Exits, vars, redisVars, socketVars
<1>1. ASSUME NEW s \in Sessions, JoinUsers(s) PROVE TypeOK'
  BY <1>1 DEF JoinUsers, JoinTo
<1>2. ASSUME NEW s \in Sessions, JoinIndex(s) PROVE TypeOK'
  BY <1>2 DEF JoinIndex, JoinTo
<1>3. ASSUME NEW s \in Sessions, JoinRoom(s) PROVE TypeOK'
  BY <1>3 DEF JoinRoom, JoinTo
<1>4. ASSUME NEW s \in Sessions, JoinRead(s) PROVE TypeOK'
  BY <1>4, ContentType DEF JoinRead, JoinTo
<1>5. ASSUME NEW s \in Sessions, SendState(s) PROVE TypeOK'
  BY <1>5, ContentType DEF SendState
<1>6. ASSUME NEW s \in Sessions, LeaveUsers(s) PROVE TypeOK'
  BY <1>6 DEF LeaveUsers, ExitTo
<1>7. ASSUME NEW s \in Sessions, LeaveIndex(s) PROVE TypeOK'
  BY <1>7 DEF LeaveIndex, ExitTo
<1>8. ASSUME NEW s \in Sessions, LeaveRoom(s) PROVE TypeOK'
  BY <1>8 DEF LeaveRoom, ExitTo
<1>9. ASSUME NEW s \in Sessions, LeaveExists(s) PROVE TypeOK'
  BY <1>9 DEF LeaveExists, ExitTo
<1>10. ASSUME NEW s \in Sessions, Disconnect(s) PROVE TypeOK'
  BY <1>10 DEF Disconnect, ExitTo
<1>11. ASSUME NEW s \in Sessions, DropUser(s) PROVE TypeOK'
  BY <1>11 DEF DropUser, ExitTo
<1>12. ASSUME NEW s \in Sessions, DropIndex(s) PROVE TypeOK'
  BY <1>12 DEF DropIndex, ExitTo
<1>13. ASSUME NEW u \in Updates, Edit(u) PROVE TypeOK'
  BY <1>13 DEF Edit, UpdateTo
<1>14. ASSUME NEW u \in Updates, Push(u) PROVE TypeOK'
  BY <1>14 DEF Push, UpdateTo
<1>15. ASSUME NEW u \in Updates, Length(u) PROVE TypeOK'
  BY <1>15 DEF Length, UpdateTo
<1>16. ASSUME NEW u \in Updates, ReadRange(u) PROVE TypeOK'
  BY <1>16 DEF ReadRange, UpdateTo
<1>17. ASSUME NEW u \in Updates, Replace(u) PROVE TypeOK'
  BY <1>17, CompactedType DEF Replace, UpdateTo
<1>18. ASSUME NEW u \in Updates, Broadcast(u) PROVE TypeOK'
  BY <1>18 DEF Broadcast, UpdateTo
<1>19. ASSUME NEW e \in Exits, NEW s \in Sessions, CountUsers(e, s) PROVE TypeOK'
  <2>1. PICK l \in {"clearList", "done", "index"} : ExitTo(e, s, l)
    BY <1>19 DEF CountUsers, AfterClear
  <2> QED BY <1>19, <2>1 DEF CountUsers, ExitTo
<1>20. ASSUME NEW e \in Exits, NEW s \in Sessions, ClearList(e, s) PROVE TypeOK'
  BY <1>20 DEF ClearList, ExitTo
<1>21. ASSUME NEW e \in Exits, NEW s \in Sessions, ClearUsers(e, s) PROVE TypeOK'
  <2>1. PICK l \in {"done", "index"} : ExitTo(e, s, l)
    BY <1>21 DEF ClearUsers, AfterClear
  <2> QED BY <1>21, <2>1 DEF ClearUsers, ExitTo
<1>22. CASE UNCHANGED vars
  BY <1>22
<1> HIDE YdocConstants DEF TypeOK, Exits, vars, redisVars, socketVars
<1> QED
  BY <1>1, <1>2, <1>3, <1>4, <1>5, <1>6, <1>7, <1>8, <1>9, <1>10, <1>11,
     <1>12, <1>13, <1>14, <1>15, <1>16, <1>17, <1>18, <1>19, <1>20, <1>21, <1>22
     DEF Next, Joining, Updating, Leaving, Dropping, Clearing

\* TypeOK: the type invariant of the document.
THEOREM TypeCorrect == Spec => []TypeOK
<1>1. Init => TypeOK
  BY InitRoomInv DEF RoomInv
<1>2. TypeOK /\ [Next]_vars => TypeOK'
  BY TypeStep
<1> QED BY <1>1, <1>2, PTL DEF Spec
-----------------------------------------------------------------------------
\* Every step keeps AuthorHas and RoomIsUpToDate.
LEMMA RoomStep ==
    ASSUME RoomInv, [Next]_vars, CompactionIsCurrent
    PROVE  AuthorHas' /\ RoomIsUpToDate'
<1> USE YdocConstants DEF RoomInv, TypeOK, AuthorHas, RoomIsUpToDate, InFlight,
        vars, redisVars, socketVars
<1>1. ASSUME NEW s \in Sessions, JoinUsers(s) PROVE AuthorHas' /\ RoomIsUpToDate'
  BY <1>1 DEF JoinUsers, JoinTo
<1>2. ASSUME NEW s \in Sessions, JoinIndex(s) PROVE AuthorHas' /\ RoomIsUpToDate'
  BY <1>2 DEF JoinIndex, JoinTo
<1>3. ASSUME NEW s \in Sessions, JoinRoom(s) PROVE AuthorHas' /\ RoomIsUpToDate'
  BY <1>3 DEF JoinRoom, JoinTo
<1>4. ASSUME NEW s \in Sessions, JoinRead(s) PROVE AuthorHas' /\ RoomIsUpToDate'
  BY <1>4 DEF JoinRead, JoinTo
<1>5. ASSUME NEW s \in Sessions, SendState(s) PROVE AuthorHas' /\ RoomIsUpToDate'
  BY <1>5 DEF SendState
<1>6. ASSUME NEW s \in Sessions, LeaveUsers(s) PROVE AuthorHas' /\ RoomIsUpToDate'
  BY <1>6 DEF LeaveUsers
<1>7. ASSUME NEW s \in Sessions, LeaveIndex(s) PROVE AuthorHas' /\ RoomIsUpToDate'
  BY <1>7 DEF LeaveIndex
<1>8. ASSUME NEW s \in Sessions, LeaveRoom(s) PROVE AuthorHas' /\ RoomIsUpToDate'
  BY <1>8 DEF LeaveRoom
<1>9. ASSUME NEW s \in Sessions, LeaveExists(s) PROVE AuthorHas' /\ RoomIsUpToDate'
  BY <1>9 DEF LeaveExists
<1>10. ASSUME NEW s \in Sessions, Disconnect(s) PROVE AuthorHas' /\ RoomIsUpToDate'
  BY <1>10 DEF Disconnect
<1>11. ASSUME NEW s \in Sessions, DropUser(s) PROVE AuthorHas' /\ RoomIsUpToDate'
  BY <1>11 DEF DropUser
<1>12. ASSUME NEW s \in Sessions, DropIndex(s) PROVE AuthorHas' /\ RoomIsUpToDate'
  BY <1>12 DEF DropIndex
<1>13. ASSUME NEW u \in Updates, Edit(u) PROVE AuthorHas' /\ RoomIsUpToDate'
  BY <1>13 DEF Edit, UpdateTo
<1>14. ASSUME NEW u \in Updates, Push(u) PROVE AuthorHas' /\ RoomIsUpToDate'
  <2>1. Content(list') = Content(list) \cup {u}
    BY <1>14, ContentAppend DEF Push
  <2>2. u \in InFlight' /\ InFlight' = InFlight
    BY <1>14 DEF Push, UpdateTo
  <2>3. AuthorHas'
    BY <1>14 DEF Push, UpdateTo
  <2>4. RoomIsUpToDate'
    <3> HIDE DEF InFlight
    <3> QED BY <1>14, <2>1, <2>2 DEF Push
  <2> QED BY <2>3, <2>4
<1>15. ASSUME NEW u \in Updates, Length(u) PROVE AuthorHas' /\ RoomIsUpToDate'
  BY <1>15 DEF Length, UpdateTo
<1>16. ASSUME NEW u \in Updates, ReadRange(u) PROVE AuthorHas' /\ RoomIsUpToDate'
  BY <1>16 DEF ReadRange, UpdateTo
<1>17. ASSUME NEW u \in Updates, Broadcast(u) PROVE AuthorHas' /\ RoomIsUpToDate'
  BY <1>17 DEF Broadcast, UpdateTo
<1>18. ASSUME NEW u \in Updates, Replace(u) PROVE AuthorHas' /\ RoomIsUpToDate'
  <2>1. Content(list') = Content(list)
    BY <1>18, CompactedContent DEF Replace, CompactionIsCurrent
  <2>2. InFlight' = InFlight
    BY <1>18 DEF Replace, UpdateTo
  <2>3. AuthorHas'
    BY <1>18 DEF Replace, UpdateTo
  <2>4. RoomIsUpToDate'
    <3> HIDE DEF InFlight
    <3> QED BY <1>18, <2>1, <2>2 DEF Replace
  <2> QED BY <2>3, <2>4
<1>19. ASSUME NEW e \in Exits, NEW s \in Sessions, CountUsers(e, s)
      PROVE AuthorHas' /\ RoomIsUpToDate'
  BY <1>19 DEF CountUsers
<1>20. ASSUME NEW e \in Exits, NEW s \in Sessions, ClearList(e, s)
      PROVE AuthorHas' /\ RoomIsUpToDate'
  BY <1>20, ContentEmpty DEF ClearList
<1>21. ASSUME NEW e \in Exits, NEW s \in Sessions, ClearUsers(e, s)
      PROVE AuthorHas' /\ RoomIsUpToDate'
  BY <1>21 DEF ClearUsers
<1>22. CASE UNCHANGED vars
  BY <1>22
<1> HIDE YdocConstants DEF RoomInv, TypeOK, AuthorHas, RoomIsUpToDate, InFlight,
         vars, redisVars, socketVars
<1>23. CASE \E s \in Sessions : Joining(s) \/ SendState(s) \/ Leaving(s) \/ Dropping(s)
  BY <1>23, <1>1, <1>2, <1>3, <1>4, <1>5, <1>6, <1>7, <1>8, <1>9, <1>10, <1>11, <1>12
     DEF Joining, Leaving, Dropping
<1>24. CASE \E u \in Updates : Edit(u) \/ Updating(u)
  BY <1>24, <1>13, <1>14, <1>15, <1>16, <1>17, <1>18 DEF Updating
<1>25. CASE \E e \in Exits, s \in Sessions : Clearing(e, s)
  BY <1>25, <1>19, <1>20, <1>21 DEF Clearing
<1> QED BY <1>22, <1>23, <1>24, <1>25 DEF Next

\* RoomIsUpToDate: unless a compaction overwrites newer entries, a session in the
\* room has every edit that Redis has, except those whose broadcast is still to
\* come; for every number of sessions that join, leave and close in any order.
THEOREM JoiningLosesNothing == Spec /\ [][CompactionIsCurrent]_vars => []RoomIsUpToDate
<1>1. Init => RoomInv
  BY InitRoomInv
<1>2. RoomInv /\ [Next]_vars /\ [CompactionIsCurrent]_vars => RoomInv'
  <2> SUFFICES ASSUME RoomInv, [Next]_vars, [CompactionIsCurrent]_vars PROVE RoomInv'
    OBVIOUS
  <2>1. CASE CompactionIsCurrent
    BY <2>1, RoomStep, TypeStep DEF RoomInv
  <2>2. CASE UNCHANGED vars
    BY <2>2 DEF RoomInv, TypeOK, AuthorHas, RoomIsUpToDate, InFlight, vars, redisVars,
                socketVars
  <2> QED BY <2>1, <2>2
<1>3. RoomInv => RoomIsUpToDate
  BY DEF RoomInv
<1> QED BY <1>1, <1>2, <1>3, PTL DEF Spec
-----------------------------------------------------------------------------
\* Every step keeps Kept.
LEMMA KeptStep ==
    ASSUME KeptInv, [Next]_vars, CompactionIsCurrent
    PROVE  Kept'
<1> USE YdocConstants DEF KeptInv, TypeOK, Kept, Stays, Pushed, Exits,
        vars, redisVars, socketVars
<1>1. ASSUME NEW s \in Sessions, JoinUsers(s) PROVE Kept'
  BY <1>1 DEF JoinUsers
<1>2. ASSUME NEW s \in Sessions, JoinIndex(s) PROVE Kept'
  BY <1>2 DEF JoinIndex
<1>3. ASSUME NEW s \in Sessions, JoinRoom(s) PROVE Kept'
  BY <1>3 DEF JoinRoom
<1>4. ASSUME NEW s \in Sessions, JoinRead(s) PROVE Kept'
  BY <1>4 DEF JoinRead
<1>5. ASSUME NEW s \in Sessions, SendState(s) PROVE Kept'
  BY <1>5 DEF SendState
<1>6. ASSUME NEW s \in Sessions, LeaveUsers(s) PROVE Kept'
  BY <1>6 DEF LeaveUsers, ExitTo
<1>7. ASSUME NEW s \in Sessions, LeaveIndex(s) PROVE Kept'
  BY <1>7 DEF LeaveIndex, ExitTo
<1>8. ASSUME NEW s \in Sessions, LeaveRoom(s) PROVE Kept'
  BY <1>8 DEF LeaveRoom, ExitTo
<1>9. ASSUME NEW s \in Sessions, LeaveExists(s) PROVE Kept'
  BY <1>9 DEF LeaveExists, ExitTo
<1>10. ASSUME NEW s \in Sessions, Disconnect(s) PROVE Kept'
  BY <1>10 DEF Disconnect, ExitTo
<1>11. ASSUME NEW s \in Sessions, DropUser(s) PROVE Kept'
  BY <1>11 DEF DropUser, ExitTo
<1>12. ASSUME NEW s \in Sessions, DropIndex(s) PROVE Kept'
  BY <1>12 DEF DropIndex, ExitTo
<1>13. ASSUME NEW u \in Updates, Edit(u) PROVE Kept'
  BY <1>13 DEF Edit, UpdateTo
<1>14. ASSUME NEW u \in Updates, Push(u) PROVE Kept'
  <2>1. Content(list') = Content(list) \cup {u}
    BY <1>14, ContentAppend DEF Push
  <2>2. Pushed' = Pushed \cup {u}
    BY <1>14 DEF Push, UpdateTo
  <2> HIDE DEF Pushed
  <2> QED BY <1>14, <2>1, <2>2 DEF Push
<1>15. ASSUME NEW u \in Updates, Length(u) PROVE Kept'
  BY <1>15 DEF Length, UpdateTo
<1>16. ASSUME NEW u \in Updates, ReadRange(u) PROVE Kept'
  BY <1>16 DEF ReadRange, UpdateTo
<1>17. ASSUME NEW u \in Updates, Replace(u) PROVE Kept'
  <2>1. Content(list') = Content(list)
    BY <1>17, CompactedContent DEF Replace, CompactionIsCurrent
  <2>2. Pushed' = Pushed
    BY <1>17 DEF Replace, UpdateTo
  <2> HIDE DEF Pushed
  <2> QED BY <1>17, <2>1, <2>2 DEF Replace
<1>18. ASSUME NEW u \in Updates, Broadcast(u) PROVE Kept'
  BY <1>18 DEF Broadcast, UpdateTo
<1>19. ASSUME NEW e \in Exits, NEW s \in Sessions, CountUsers(e, s) PROVE Kept'
  <2>1. CASE users = {}
    BY <1>19, <2>1 DEF CountUsers, ExitTo
  <2>2. CASE users # {}
    <3>1. PICK l \in {"done", "index"} : ExitTo(e, s, l)
      BY <1>19, <2>2 DEF CountUsers, AfterClear
    <3> QED BY <1>19, <3>1 DEF CountUsers, ExitTo
  <2> QED BY <2>1, <2>2
<1>20. ASSUME NEW e \in Exits, NEW s \in Sessions, ClearList(e, s) PROVE Kept'
  BY <1>20 DEF ClearList, ExitTo
<1>21. ASSUME NEW e \in Exits, NEW s \in Sessions, ClearUsers(e, s) PROVE Kept'
  <2>1. PICK l \in {"done", "index"} : ExitTo(e, s, l)
    BY <1>21 DEF ClearUsers, AfterClear
  <2> QED BY <1>21, <2>1 DEF ClearUsers, ExitTo
<1>22. CASE UNCHANGED vars
  BY <1>22
<1> HIDE YdocConstants DEF KeptInv, TypeOK, Kept, Stays, Pushed, Exits,
         vars, redisVars, socketVars
<1>23. CASE \E s \in Sessions : Joining(s) \/ SendState(s) \/ Leaving(s) \/ Dropping(s)
  BY <1>23, <1>1, <1>2, <1>3, <1>4, <1>5, <1>6, <1>7, <1>8, <1>9, <1>10, <1>11, <1>12
     DEF Joining, Leaving, Dropping
<1>24. CASE \E u \in Updates : Edit(u) \/ Updating(u)
  BY <1>24, <1>13, <1>14, <1>15, <1>16, <1>17, <1>18 DEF Updating
<1>25. CASE \E e \in Exits, s \in Sessions : Clearing(e, s)
  BY <1>25, <1>19, <1>20, <1>21 DEF Clearing
<1> QED BY <1>22, <1>23, <1>24, <1>25 DEF Next

\* EditsAreKept: while a session keeps the document open, no leave, disconnect or
\* clear of the others loses an edit, whatever the order of their Redis calls;
\* only a compaction that overwrites newer entries does.
THEOREM OpenDocumentsAreKept == Spec /\ [][CompactionIsCurrent]_vars => []EditsAreKept
<1>1. Init => KeptInv
  <2> SUFFICES ASSUME Init PROVE Kept
    BY InitRoomInv DEF KeptInv, RoomInv
  <2> QED BY DEF Init, Kept, Stays, Pushed, Exits
<1>2. KeptInv /\ [Next]_vars /\ [CompactionIsCurrent]_vars => KeptInv'
  <2> SUFFICES ASSUME KeptInv, [Next]_vars, [CompactionIsCurrent]_vars PROVE KeptInv'
    OBVIOUS
  <2>1. CASE CompactionIsCurrent
    BY <2>1, KeptStep, TypeStep DEF KeptInv
  <2>2. CASE UNCHANGED vars
    BY <2>2 DEF KeptInv, TypeOK, Kept, Stays, Pushed, vars, redisVars, socketVars
  <2> QED BY <2>1, <2>2
<1>3. KeptInv => EditsAreKept
  BY YdocConstants DEF KeptInv, Kept, Stays, EditsAreKept
<1> QED BY <1>1, <1>2, <1>3, PTL DEF Spec
-----------------------------------------------------------------------------
\* Where a session is on its way in and out.  Who is on the way out has closed.
\* Who leaves has joined, and is off the users.  Who is in and listed is in its
\* index until it closes, so that the disconnect finds it; and then it is off.
MemberInv ==
    /\ closed = Sessions \ pool
    /\ \A s \in Sessions : LET dis == exitPc["disconnect"][s] IN
        /\ s \in closed <=> dis # "idle"
        /\ exitPc["leave"][s] # "idle" => joinPc[s] = "in" /\ s \notin users
        /\ joinPc[s] \in {"room", "read", "in"} /\ s \in users /\ dis = "idle" => s \in index
        /\ joinPc[s] \in {"read", "in"} /\ dis \notin {"idle", "users"} => s \notin users

\* Every step keeps MemberInv.
LEMMA MemberStep ==
    ASSUME TypeOK, MemberInv, [Next]_vars
    PROVE  MemberInv'
<1> USE YdocConstants DEF TypeOK, MemberInv, Exits, vars, redisVars, socketVars
<1>1. ASSUME NEW s \in Sessions, JoinUsers(s) PROVE MemberInv'
  BY <1>1 DEF JoinUsers, JoinTo
<1>2. ASSUME NEW s \in Sessions, JoinIndex(s) PROVE MemberInv'
  BY <1>2 DEF JoinIndex, JoinTo
<1>3. ASSUME NEW s \in Sessions, JoinRoom(s) PROVE MemberInv'
  BY <1>3 DEF JoinRoom, JoinTo
<1>4. ASSUME NEW s \in Sessions, JoinRead(s) PROVE MemberInv'
  BY <1>4 DEF JoinRead, JoinTo
<1>5. ASSUME NEW s \in Sessions, SendState(s) PROVE MemberInv'
  BY <1>5 DEF SendState
<1>6. ASSUME NEW s \in Sessions, LeaveUsers(s) PROVE MemberInv'
  BY <1>6 DEF LeaveUsers, ExitTo
<1>7. ASSUME NEW s \in Sessions, LeaveIndex(s) PROVE MemberInv'
  BY <1>7 DEF LeaveIndex, ExitTo
<1>8. ASSUME NEW s \in Sessions, LeaveRoom(s) PROVE MemberInv'
  BY <1>8 DEF LeaveRoom, ExitTo
<1>9. ASSUME NEW s \in Sessions, LeaveExists(s) PROVE MemberInv'
  BY <1>9 DEF LeaveExists, ExitTo
<1>10. ASSUME NEW s \in Sessions, Disconnect(s) PROVE MemberInv'
  BY <1>10 DEF Disconnect, ExitTo
<1>11. ASSUME NEW s \in Sessions, DropUser(s) PROVE MemberInv'
  BY <1>11 DEF DropUser, ExitTo
<1>12. ASSUME NEW s \in Sessions, DropIndex(s) PROVE MemberInv'
  BY <1>12 DEF DropIndex, ExitTo
<1>13. ASSUME NEW u \in Updates, Edit(u) \/ Updating(u) PROVE MemberInv'
  BY <1>13 DEF Edit, Updating, Push, Length, ReadRange, Replace, Broadcast
<1>14. ASSUME NEW e \in Exits, NEW s \in Sessions, CountUsers(e, s) PROVE MemberInv'
  <2>1. CASE users = {}
    BY <1>14, <2>1 DEF CountUsers, ExitTo
  <2>2. CASE users # {}
    <3>1. ExitTo(e, s, IF e = "leave" THEN "done" ELSE "index")
      BY <1>14, <2>2 DEF CountUsers, AfterClear
    <3> QED BY <1>14, <3>1 DEF CountUsers, ExitTo
  <2> QED BY <2>1, <2>2
<1>15. ASSUME NEW e \in Exits, NEW s \in Sessions, ClearList(e, s) PROVE MemberInv'
  BY <1>15 DEF ClearList, ExitTo
<1>16. ASSUME NEW e \in Exits, NEW s \in Sessions, ClearUsers(e, s) PROVE MemberInv'
  BY <1>16 DEF ClearUsers, AfterClear, ExitTo
<1>17. CASE UNCHANGED vars
  BY <1>17
<1> HIDE YdocConstants DEF TypeOK, MemberInv, Exits, vars, redisVars, socketVars
<1>18. CASE \E s \in Sessions : Joining(s) \/ SendState(s) \/ Leaving(s) \/ Dropping(s)
  BY <1>18, <1>1, <1>2, <1>3, <1>4, <1>5, <1>6, <1>7, <1>8, <1>9, <1>10, <1>11, <1>12
     DEF Joining, Leaving, Dropping
<1>19. CASE \E e \in Exits, s \in Sessions : Clearing(e, s)
  BY <1>19, <1>14, <1>15, <1>16 DEF Clearing
<1> QED BY <1>13, <1>17, <1>18, <1>19 DEF Next

\* ClosedMemberIsNoUser: the reverse index is enough for the disconnect to find a
\* document the session was in, however its join, leave and disconnect interleave;
\* nothing is assumed about compactions.
THEOREM ClosedMembersAreDropped == Spec => []ClosedMemberIsNoUser
<1>1. Init => TypeOK /\ MemberInv
  <2>1. Init => MemberInv
    BY YdocConstants DEF Init, MemberInv, Exits
  <2> QED BY <2>1, InitRoomInv DEF RoomInv
<1>2. TypeOK /\ MemberInv /\ [Next]_vars => (TypeOK /\ MemberInv)'
  BY TypeStep, MemberStep
<1>3. TypeOK /\ MemberInv => ClosedMemberIsNoUser
  BY DEF TypeOK, MemberInv, ClosedMemberIsNoUser
<1> QED BY <1>1, <1>2, <1>3, PTL DEF Spec
-----------------------------------------------------------------------------
\* The handlers that have pushed and not yet made up for it.
Working == {u \in Updates : updatePc[u] \in {"length", "range", "replace"}}

\* The list exceeds the threshold by less than there are such handlers, and what a
\* compaction has read is no longer than a list can be.
LengthInv ==
    /\ IsFiniteSet(InFlight) /\ Cardinality(InFlight) <= MaxInFlight
    /\ Len(list) < Threshold + Cardinality(Working)
    /\ \A u \in Updates : updatePc[u] = "replace" => Len(seen[u]) < Threshold + MaxInFlight

LEMMA WorkingCount ==
    ASSUME IsFiniteSet(InFlight)
    PROVE  /\ IsFiniteSet(Working) /\ Cardinality(Working) \in Nat
           /\ Cardinality(InFlight) \in Nat
           /\ Cardinality(Working) <= Cardinality(InFlight)
<1>1. Working \in SUBSET InFlight
  BY DEF Working, InFlight
<1> QED BY <1>1, FS_Subset, FS_CardinalityType

\* Compaction halves the list, or nearly.
LEMMA CompactedLength ==
    ASSUME NEW l \in Seq(SUBSET Updates), Len(l) < Threshold + MaxInFlight
    PROVE  Len(Compacted(l)) < Threshold
<1> DEFINE mid == Len(l) \div 2
           young == SubSeq(l, mid + 1, Len(l))
<1>1. Len(l) \in Nat /\ mid \in Nat /\ mid <= Len(l) /\ 2 * mid + 1 >= Len(l)
  OBVIOUS
<1> HIDE DEF mid
<1>2. young \in Seq(SUBSET Updates) /\ Len(young) = Len(l) - mid
  BY <1>1
<1> HIDE DEF young
<1>3. Content(SubSeq(l, 1, mid)) \in SUBSET Updates
  <2>1. SubSeq(l, 1, mid) \in Seq(SUBSET Updates)
    BY <1>1
  <2> QED BY <2>1, ContentType
<1>4. Len(<<Content(SubSeq(l, 1, mid))>> \o young) = 1 + Len(young)
  BY <1>2, <1>3
<1>5. Len(Compacted(l)) = 1 + (Len(l) - mid)
  BY <1>2, <1>4 DEF Compacted, mid, young
<1> QED BY <1>1, <1>5, YdocConstants

\* Every step keeps LengthInv.
LEMMA LengthStep ==
    ASSUME TypeOK, LengthInv, [Next]_vars
    PROVE  LengthInv'
<1> USE DEF LengthInv
<1>1. /\ Threshold \in Nat /\ MaxInFlight \in Nat /\ Threshold > MaxInFlight + 2
      /\ list \in Seq(SUBSET Updates) /\ Len(list) \in Nat
      /\ updatePc \in [Updates -> {"unmade", "push", "length", "range", "replace",
                                   "broadcast", "done"}]
      /\ seen \in [Updates -> Seq(SUBSET Updates)]
  BY YdocConstants DEF TypeOK
<1>2. /\ IsFiniteSet(Working) /\ Cardinality(Working) \in Nat
      /\ Cardinality(InFlight) \in Nat
      /\ Cardinality(Working) <= Cardinality(InFlight)
  BY WorkingCount
<1>3. CASE UNCHANGED <<list, updatePc, seen>>
  BY <1>3 DEF InFlight, Working
<1>4. ASSUME NEW u \in Updates, Edit(u) PROVE LengthInv'
  <2>1. InFlight' = InFlight \cup {u} /\ Working' = Working
    BY <1>1, <1>4 DEF Edit, UpdateTo, InFlight, Working
  <2>2. IsFiniteSet(InFlight') /\ Cardinality(InFlight') <= MaxInFlight
    <3>1. u \notin InFlight /\ Cardinality(InFlight) < MaxInFlight
      BY <1>4 DEF Edit, InFlight
    <3>2. IsFiniteSet(InFlight \cup {u}) /\ Cardinality(InFlight \cup {u}) = Cardinality(InFlight) + 1
      BY <3>1, FS_AddElement
    <3> QED BY <2>1, <3>1, <3>2, <1>1, <1>2
  <2> QED BY <1>1, <1>4, <2>1, <2>2 DEF Edit, UpdateTo, redisVars
<1>5. ASSUME NEW u \in Updates, Push(u) PROVE LengthInv'
  <2>1. InFlight' = InFlight /\ Working' = Working \cup {u} /\ u \notin Working
    BY <1>1, <1>5 DEF Push, UpdateTo, InFlight, Working
  <2>2. Cardinality(Working') = Cardinality(Working) + 1
    BY <1>2, <2>1, FS_AddElement
  <2>3. Len(list') = Len(list) + 1
    BY <1>1, <1>5 DEF Push
  <2> QED BY <1>1, <1>2, <1>5, <2>1, <2>2, <2>3 DEF Push, UpdateTo
<1>6. ASSUME NEW u \in Updates, Length(u) PROVE LengthInv'
  <2>1. CASE IsLong(list)
    <3>1. InFlight' = InFlight /\ Working' = Working
      BY <1>1, <1>6, <2>1 DEF Length, UpdateTo, InFlight, Working
    <3> QED BY <1>1, <1>6, <2>1, <3>1 DEF Length, UpdateTo, redisVars
  <2>2. CASE ~IsLong(list)
    <3>1. InFlight' = InFlight /\ Working' = Working \ {u}
      BY <1>1, <1>6, <2>2 DEF Length, UpdateTo, InFlight, Working
    <3>2. Cardinality(Working') \in Nat
      BY <1>2, <3>1, FS_RemoveElement, FS_CardinalityType
    <3>3. Len(list) < Threshold
      BY <1>1, <2>2 DEF IsLong
    <3> QED BY <1>1, <1>6, <2>2, <3>1, <3>2, <3>3 DEF Length, UpdateTo, redisVars
  <2> QED BY <2>1, <2>2
<1>7. ASSUME NEW u \in Updates, ReadRange(u) PROVE LengthInv'
  <2>1. Len(list) < Threshold + MaxInFlight
    BY <1>1, <1>2
  <2>2. CASE Len(list) <= 1
    <3>1. InFlight' = InFlight /\ Working' = Working \ {u}
      BY <1>1, <1>7, <2>2 DEF ReadRange, UpdateTo, InFlight, Working
    <3>2. Cardinality(Working') \in Nat
      BY <1>2, <3>1, FS_RemoveElement, FS_CardinalityType
    <3> QED BY <1>1, <1>7, <2>1, <2>2, <3>1, <3>2 DEF ReadRange, UpdateTo, redisVars
  <2>3. CASE Len(list) > 1
    <3>1. InFlight' = InFlight /\ Working' = Working
      BY <1>1, <1>7, <2>3 DEF ReadRange, UpdateTo, InFlight, Working
    <3> QED BY <1>1, <1>7, <2>1, <2>3, <3>1 DEF ReadRange, UpdateTo, redisVars
  <2> QED BY <1>1, <2>2, <2>3
<1>8. ASSUME NEW u \in Updates, Replace(u) PROVE LengthInv'
  <2>1. InFlight' = InFlight /\ Working' = Working \ {u}
    BY <1>1, <1>8 DEF Replace, UpdateTo, InFlight, Working
  <2>2. Cardinality(Working') \in Nat
    BY <1>2, <2>1, FS_RemoveElement, FS_CardinalityType
  <2>3. Len(list') < Threshold /\ Len(list') \in Nat
    <3>1. seen[u] \in Seq(SUBSET Updates) /\ Len(seen[u]) < Threshold + MaxInFlight
      BY <1>1, <1>8 DEF Replace
    <3>2. list' = Compacted(seen[u])
      BY <1>8 DEF Replace
    <3>3. list' \in Seq(SUBSET Updates)
      BY <3>1, <3>2, CompactedType
    <3> QED BY <3>1, <3>2, <3>3, CompactedLength
  <2> QED BY <1>1, <1>8, <2>1, <2>2, <2>3 DEF Replace, UpdateTo
<1>9. ASSUME NEW u \in Updates, Broadcast(u) PROVE LengthInv'
  <2>1. InFlight' = InFlight \ {u} /\ Working' = Working
    BY <1>1, <1>9 DEF Broadcast, UpdateTo, InFlight, Working
  <2>2. IsFiniteSet(InFlight') /\ Cardinality(InFlight') <= MaxInFlight
    <3>1. u \in InFlight
      BY <1>9 DEF Broadcast, InFlight
    <3>2. IsFiniteSet(InFlight \ {u}) /\ Cardinality(InFlight \ {u}) = Cardinality(InFlight) - 1
      BY <3>1, FS_RemoveElement
    <3> QED BY <2>1, <3>2, <1>1, <1>2
  <2> QED BY <1>1, <1>9, <2>1, <2>2 DEF Broadcast, UpdateTo, redisVars
<1>10. ASSUME NEW e \in Exits, NEW s \in Sessions, ClearList(e, s) PROVE LengthInv'
  <2>1. InFlight' = InFlight /\ Working' = Working /\ Len(list') = 0
    BY <1>10 DEF ClearList, InFlight, Working
  <2> QED BY <1>1, <1>2, <1>10, <2>1 DEF ClearList
<1>11. ASSUME NEW s \in Sessions, Joining(s) \/ SendState(s) \/ Leaving(s) \/ Dropping(s)
       PROVE UNCHANGED <<list, updatePc, seen>>
  BY <1>11 DEF Joining, Leaving, Dropping, JoinUsers, JoinIndex, JoinRoom, JoinRead, SendState,
     LeaveUsers, LeaveIndex, LeaveRoom, LeaveExists, Disconnect, DropUser, DropIndex, redisVars
<1>12. ASSUME NEW e \in Exits, NEW s \in Sessions, CountUsers(e, s) \/ ClearUsers(e, s)
       PROVE UNCHANGED <<list, updatePc, seen>>
  BY <1>12 DEF CountUsers, ClearUsers, redisVars
<1>13. UNCHANGED vars => UNCHANGED <<list, updatePc, seen>>
  BY DEF vars, redisVars
<1> QED
  BY <1>3, <1>4, <1>5, <1>6, <1>7, <1>8, <1>9, <1>10, <1>11, <1>12, <1>13
     DEF Next, Updating, Clearing

\* ListStaysShort: however many handlers push and compact at once, each with what it
\* has read, the list exceeds COMPACTION_THRESHOLD by less than their number.
THEOREM CompactionBoundsList == Spec => []ListStaysShort
<1>1. Init => TypeOK /\ LengthInv
  <2> SUFFICES ASSUME Init PROVE LengthInv
    BY InitRoomInv DEF RoomInv
  <2>1. InFlight = {} /\ Working = {} /\ Len(list) = 0
    BY DEF Init, InFlight, Working
  <2>2. \A u \in Updates : updatePc[u] # "replace"
    BY DEF Init
  <2> QED BY <2>1, <2>2, FS_EmptySet, YdocConstants DEF LengthInv
<1>2. TypeOK /\ LengthInv /\ [Next]_vars => (TypeOK /\ LengthInv)'
  BY TypeStep, LengthStep
<1>3. TypeOK /\ LengthInv => ListStaysShort
  <2> SUFFICES ASSUME TypeOK, LengthInv PROVE ListStaysShort
    OBVIOUS
  <2>1. Len(list) \in Nat /\ Threshold \in Nat
    BY YdocConstants DEF TypeOK
  <2> QED BY <2>1, WorkingCount DEF LengthInv, ListStaysShort
<1> QED BY <1>1, <1>2, <1>3, PTL DEF Spec
=============================================================================
