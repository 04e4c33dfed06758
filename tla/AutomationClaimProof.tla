------------------------ MODULE AutomationClaimProof ------------------------
(***************************************************************************)
(* With row locks, the claims of any number of workers implement           *)
(* AutomationSchedule, whatever is edited, deleted or crashes meanwhile,   *)
(* for any set of automations, rules and time zones.  The invariant says   *)
(* that a row a worker has selected is, until it commits, what it was.     *)
(*                                                                         *)
(* With row locks or without, the runs that were claimed or asked for are  *)
(* accounted for: every step moves a run from one entry of the books to    *)
(* another, for any finite number of workers.                              *)
(***************************************************************************)
EXTENDS AutomationClaim, FiniteSetTheorems, TLAPS

\* A set of moments has a first one: what lies before it shrinks, and finite
\* sets do not shrink for ever.
LEMMA FirstMoment ==
  ASSUME NEW S \in SUBSET (0..Dial), S # {}
  PROVE  Min(S) \in S /\ \A y \in S : Min(S) =< y
<1> DEFINE UpTo(x) == {y \in S : y =< x}
           Chains == {UpTo(x) : x \in S}
<1>1. \A x \in S : x \in Nat
  BY ClaimConstants
<1>2. IsFiniteSet(S)
  <2>1. 0 \in Int /\ Dial \in Int
    BY ClaimConstants
  <2>2. IsFiniteSet(0..Dial)
    BY <2>1, FS_Interval
  <2> QED  BY <2>2, FS_Subset
<1>3. \A x \in S : UpTo(x) \in FiniteSubsetsOf(S)
  BY <1>2, FS_Subset DEF FiniteSubsetsOf
<1>4. PICK C \in Chains : \A D \in Chains : <<D, C>> \notin StrictSubsetOrdering(S)
  <2>1. Chains \subseteq FiniteSubsetsOf(S) /\ Chains # {}
    BY <1>3
  <2> HIDE DEF Chains
  <2> QED  BY <2>1, WFMin, FS_StrictSubsetOrderingWellFounded
<1>5. PICK x \in S : C = UpTo(x)
  BY <1>4
<1>6. ASSUME NEW y \in S PROVE x =< y
  <2> SUFFICES ASSUME y < x PROVE FALSE
    BY <1>1
  <2>1. UpTo(y) \subseteq UpTo(x) /\ UpTo(y) # UpTo(x)
    <3>1. ASSUME NEW z \in S, z =< y PROVE z =< x
      <4>1. x \in Nat /\ y \in Nat /\ z \in Nat
        BY <1>1
      <4> QED  BY <3>1, <4>1
    <3>2. x \in UpTo(x) /\ x \notin UpTo(y)
      BY <1>1
    <3> QED  BY <3>1, <3>2
  <2>2. UpTo(y) \in SUBSET S /\ UpTo(x) \in SUBSET S
    OBVIOUS
  <2>3. <<UpTo(y), UpTo(x)>> \in StrictSubsetOrdering(S)
    BY <2>1, <2>2 DEF StrictSubsetOrdering
  <2> QED  BY <1>4, <1>5, <2>3
<1> QED  BY <1>6 DEF Min

\* The moment at which a time is due is one at which the clock shows that time
\* or a later one.
LEMMA InstantShowsIt ==
  ASSUME NEW z \in Zones, NEW x \in 0..Dial
  PROVE  Instant(z, x) \in Int /\ Wall(z, Instant(z, x)) >= x
<1>1. z.before \in Nat /\ z.after \in Nat /\ z.change \in Int
  BY ClaimConstants
<1> QED  BY <1>1, ClaimConstants DEF Instant, Wall

\* next_run_ns returns a later moment, or none, unless the clock shows an hour for
\* the second time.
LEMMA AfterIsLater ==
  ASSUME NEW rule \in Rules, NEW z \in Zones, NEW t \in 1..Horizon
  PROVE  After(rule, z, t) \in Times /\ (After(rule, z, t) > t \/ Again(z, t))
<1> DEFINE S == Later(rule, z, t)
<1>1. S \in SUBSET (0..Dial)
  BY ClaimConstants DEF Later
<1>2. CASE S = {}
  BY <1>2, ClaimConstants DEF After, Never, Times
<1>3. CASE S # {}
  <2> DEFINE x == Min(S)
             i == Instant(z, x)
  <2>1. x \in S
    BY <1>1, <1>3, FirstMoment
  <2>2. After(rule, z, t) = InTime(i)
    BY <1>3 DEF After
  <2>3. x \in 0..Dial /\ x > Wall(z, t)
    BY <1>1, <2>1 DEF Later
  <2> HIDE DEF x
  <2>4. z.before \in Nat /\ z.after \in Nat /\ z.change \in Int
    BY ClaimConstants
  <2>5. i \in Int /\ Wall(z, i) > Wall(z, t)
    BY <2>3, <2>4, InstantShowsIt, ClaimConstants DEF Wall
  <2> HIDE DEF i
  <2>6. i > t \/ Again(z, t)
    BY <2>4, <2>5 DEF Wall, Again
  <2> QED  BY <2>2, <2>5, <2>6, ClaimConstants DEF InTime, Times, Never
<1> QED  BY <1>2, <1>3
-----------------------------------------------------------------------------
IsBatch(b) ==
    /\ b = [a \in DOMAIN b |-> b[a]]
    /\ DOMAIN b \subseteq Automations
    /\ \A a \in DOMAIN b : b[a] \in Taken

TableType ==
    /\ now \in 1..Horizon
    /\ row \in [Automations -> RowType \cup {Unborn, Gone}]
    /\ claimed \in [Automations -> 0..Horizon + 1]

WorkType ==
    /\ pc \in [Workers -> {"idle", "selected", "computed", "committed", "polled", "down"}]
    /\ batch = [w \in Workers |-> batch[w]]
    /\ \A w \in Workers : IsBatch(batch[w])

EditType ==
    /\ editPc \in [Editors -> {"new", "begun", "loaded", "done"}]
    /\ edit \in [Editors -> Forms \cup {NoForm}]
    /\ loaded \in [Editors -> RowType \cup {Unborn}]
    /\ \A e \in Editors : editPc[e] \in {"begun", "loaded"} => edit[e] \in Forms
    /\ \A e \in Editors : editPc[e] = "loaded" => loaded[e] \in RowType

\* A row that a worker has selected is still what it has read, and the next
\* occurrence it has computed comes later.
Holding(w) == pc[w] \in {"selected", "computed"}
Current(w, a) ==
    /\ Exists(a) /\ row[a].active
    /\ row[a].rule = batch[w][a].rule
    /\ row[a].next = batch[w][a].was
    /\ row[a].next <= now
    /\ pc[w] = "computed" => batch[w][a].next > batch[w][a].was \/ batch[w][a].again
Held == \A w \in Workers : Holding(w) => \A a \in DOMAIN batch[w] : Current(w, a)

\* No two workers have selected the same row.
Apart ==
    \A v, w \in Workers : Holding(v) /\ Holding(w) /\ v # w =>
        DOMAIN batch[v] \cap DOMAIN batch[w] = {}

\* An automation waits for an occurrence after the one claimed last.
Forward ==
    \A a \in Automations : IF Exists(a) THEN claimed[a] < row[a].next ELSE claimed[a] = 0

Typed == TableType /\ WorkType /\ EditType

ClaimInv == Typed /\ Held /\ Apart /\ Forward

LEMMA InitClaimInv == Init => ClaimInv
<1> SUFFICES ASSUME Init PROVE ClaimInv
  OBVIOUS
<1> USE ClaimConstants
<1>1. \A r \in Rules, z \in Zones : After(r, z, 1) \in Times /\ After(r, z, 1) > 0
  BY AfterIsLater DEF Times
<1>2. TableType
  <2>1. \A r \in Rules, z \in Zones :
           [active |-> TRUE, rule |-> r, next |-> After(r, z, 1)] \in RowType
    BY <1>1 DEF RowType
  <2>2. row \in [Automations -> RowType \cup {Unborn, Gone}]
    BY <2>1 DEF Init
  <2> QED  BY <2>2 DEF Init, TableType
<1>3. WorkType
  BY DEF Init, WorkType, IsBatch, NoBatch
<1>4. EditType
  BY DEF Init, EditType
<1>5. Held /\ Apart
  BY DEF Init, Held, Apart, Holding
<1>6. Forward
  BY <1>1 DEF Init, Forward, Exists
<1> QED  BY <1>2, <1>3, <1>4, <1>5, <1>6 DEF ClaimInv, Typed
-----------------------------------------------------------------------------
\* The worker locks what it selects, and selects nothing that is locked.
LEMMA ClaimSelectStep ==
  ASSUME SkipLocked, ClaimInv, NEW w \in Workers, ClaimSelect(w)
  PROVE  ClaimInv'
<1> USE DEF ClaimInv, Typed
<1>1. PICK S \in SUBSET Automations :
        /\ Oldest(S)
        /\ batch' = [batch EXCEPT ![w] =
               [a \in S |-> [rule |-> row[a].rule, was |-> row[a].next, next |-> Never,
                         again |-> FALSE]]]
        /\ pc' = [pc EXCEPT ![w] = IF S = {} THEN "polled" ELSE "selected"]
  BY DEF ClaimSelect
<1> DEFINE mine == [a \in S |-> [rule |-> row[a].rule, was |-> row[a].next, next |-> Never,
                         again |-> FALSE]]
<1>2. /\ DOMAIN mine = S
      /\ \A a \in S : mine[a] = [rule |-> row[a].rule, was |-> row[a].next, next |-> Never,
                               again |-> FALSE]
  OBVIOUS
<1>3. \A a \in S : /\ Exists(a) /\ row[a].active /\ row[a].next <= now
                   /\ row[a] \in RowType /\ ~Locked(a)
  BY <1>1 DEF Oldest, Due, Exists, TableType
<1>4. batch'[w] = mine /\ \A v \in Workers \ {w} : batch'[v] = batch[v] /\ pc'[v] = pc[v]
  BY <1>1 DEF WorkType
<1>5. \A a \in S : mine[a] \in Taken
  BY <1>3, <1>2, ClaimConstants DEF RowType, Taken, Never, Times
<1>6. UNCHANGED <<now, row, claimed, editPc, edit, loaded>>
  BY DEF ClaimSelect, rowVars, editVars
<1>7. TableType' /\ EditType' /\ Forward'
  BY <1>6 DEF TableType, EditType, Forward, Exists
<1>8. WorkType'
  <2>1. IsBatch(mine)
    BY <1>2, <1>5 DEF IsBatch
  <2> HIDE DEF mine
  <2>2. \A v \in Workers : IsBatch(batch'[v])
    BY <1>4, <2>1 DEF WorkType
  <2>3. batch' = [v \in Workers |-> batch'[v]]
    BY <1>1 DEF WorkType
  <2>4. pc' \in [Workers -> {"idle", "selected", "computed", "committed", "polled", "down"}]
    BY <1>1 DEF WorkType
  <2> QED  BY <2>2, <2>3, <2>4 DEF WorkType, IsBatch
<1>9. Held'
  <2> SUFFICES ASSUME NEW v \in Workers, Holding(v)', NEW a \in DOMAIN batch'[v]
               PROVE  Current(v, a)'
    BY DEF Held
  <2>1. CASE v = w
    <3>1. pc'[w] # "computed"
      BY <1>1 DEF WorkType
    <3> QED  BY <2>1, <3>1, <1>2, <1>3, <1>4, <1>6 DEF Current, Exists
  <2>2. CASE v # w
    BY <2>2, <1>4, <1>6 DEF Held, Holding, Current, Exists
  <2> QED  BY <2>1, <2>2
<1>10. Apart'
  <2>1. ASSUME NEW v \in Workers \ {w}, Holding(v) PROVE DOMAIN batch[v] \cap S = {}
    BY <1>3, <2>1 DEF Locked, LockedBy, Holding
  <2> QED  BY <2>1, <1>2, <1>4 DEF Apart, Holding
<1> QED  BY <1>7, <1>8, <1>9, <1>10

\* A row keeps its lock while the next occurrence is computed.
LEMMA ClaimComputeStep ==
  ASSUME ClaimInv, NEW w \in Workers, ClaimCompute(w)
  PROVE  ClaimInv'
<1> USE DEF ClaimInv, Typed
<1>0. PICK zone \in [DOMAIN batch[w] -> Zones] :
        batch' = [batch EXCEPT ![w] = [a \in DOMAIN batch[w] |->
                    [batch[w][a] EXCEPT !.next = After(batch[w][a].rule, zone[a], now),
                                        !.again = Again(zone[a], now)]]]
  BY DEF ClaimCompute
<1> DEFINE mine == [a \in DOMAIN batch[w] |->
                       [batch[w][a] EXCEPT !.next = After(batch[w][a].rule, zone[a], now),
                                           !.again = Again(zone[a], now)]]
<1>1. batch' = [batch EXCEPT ![w] = mine] /\ pc' = [pc EXCEPT ![w] = "computed"]
  BY <1>0 DEF ClaimCompute
<1>2. batch'[w] = mine /\ \A v \in Workers \ {w} : batch'[v] = batch[v] /\ pc'[v] = pc[v]
  BY <1>1 DEF WorkType
<1>3. ASSUME NEW a \in DOMAIN batch[w]
      PROVE  /\ mine[a] \in Taken
             /\ mine[a].rule = batch[w][a].rule /\ mine[a].was = batch[w][a].was
             /\ mine[a].next > now \/ mine[a].again
  <2>1. batch[w][a] \in Taken /\ zone[a] \in Zones
    BY DEF WorkType, IsBatch
  <2> DEFINE next == After(batch[w][a].rule, zone[a], now)
             again == Again(zone[a], now)
  <2>2. next \in Times /\ (next > now \/ again) /\ again \in BOOLEAN
    BY <2>1, AfterIsLater DEF Taken, TableType, Again
  <2>3. mine[a] = [batch[w][a] EXCEPT !.next = next, !.again = again]
    OBVIOUS
  <2> HIDE DEF next, again, mine
  <2> QED  BY <2>1, <2>2, <2>3 DEF Taken
<1>4. UNCHANGED <<now, row, claimed, editPc, edit, loaded>>
  BY DEF ClaimCompute, rowVars, editVars
<1>5. TableType' /\ EditType' /\ Forward'
  BY <1>4 DEF TableType, EditType, Forward, Exists
<1>6. DOMAIN mine = DOMAIN batch[w]
  OBVIOUS
<1>7. WorkType'
  <2>1. IsBatch(mine)
    BY <1>3, <1>6 DEF IsBatch, WorkType
  <2> HIDE DEF mine
  <2>2. \A v \in Workers : IsBatch(batch'[v])
    BY <1>2, <2>1 DEF WorkType
  <2>3. batch' = [v \in Workers |-> batch'[v]]
    BY <1>1 DEF WorkType
  <2>4. pc' \in [Workers -> {"idle", "selected", "computed", "committed", "polled", "down"}]
    BY <1>1 DEF WorkType
  <2> QED  BY <2>2, <2>3, <2>4 DEF WorkType, IsBatch
<1>8. Held'
  <2> SUFFICES ASSUME NEW v \in Workers, Holding(v)', NEW a \in DOMAIN batch'[v]
               PROVE  Current(v, a)'
    BY DEF Held
  <2>1. CASE v = w
    <3>1. a \in DOMAIN batch[w]
      BY <1>2, <1>6, <2>1
    <3> HIDE DEF mine
    <3>2. Current(w, a)
      BY <3>1 DEF Held, Holding, ClaimCompute
    <3>3. mine[a].next \in Nat /\ mine[a].was \in Nat /\ now \in Nat
      BY <1>3, <3>1, ClaimConstants DEF Taken, Times, TableType
    <3>4. mine[a].was <= now
      BY <1>3, <3>1, <3>2 DEF Current
    <3>5. mine[a].next > mine[a].was \/ mine[a].again
      BY <1>3, <3>1, <3>3, <3>4
    <3>6. batch'[v][a] = mine[a]
      BY <1>2, <2>1
    <3>7. mine[a].rule = batch[w][a].rule /\ mine[a].was = batch[w][a].was
      BY <1>3, <3>1
    <3>8. UNCHANGED <<row, now>>
      BY <1>4
    <3> QED  BY <3>2, <3>5, <3>6, <3>7, <3>8 DEF Current, Exists
  <2>2. CASE v # w
    <3>1. batch'[v] = batch[v] /\ pc'[v] = pc[v]
      BY <1>2, <2>2
    <3>2. Holding(v) /\ a \in DOMAIN batch[v]
      BY <3>1 DEF Holding
    <3>3. Current(v, a)
      BY <3>2 DEF Held
    <3>4. UNCHANGED <<row, now>>
      BY <1>4
    <3> QED  BY <3>1, <3>3, <3>4 DEF Current, Exists
  <2> QED  BY <2>1, <2>2
<1>9. Apart'
  <2>1. Holding(w) /\ DOMAIN batch'[w] = DOMAIN batch[w]
    BY <1>2, <1>6 DEF ClaimCompute, Holding
  <2> QED  BY <2>1, <1>2 DEF Apart, Holding
<1> QED  BY <1>5, <1>7, <1>8, <1>9

\* The rows move on, to what was computed from what they still were.
LEMMA ClaimCommitStep ==
  ASSUME ClaimInv, NEW w \in Workers, ClaimCommit(w)
  PROVE  ClaimInv'
<1> USE DEF ClaimInv, Typed
<1> DEFINE mine == DOMAIN batch[w]
<1>1. /\ row' = [a \in Automations |->
                   IF a \in mine THEN [row[a] EXCEPT !.next = batch[w][a].next] ELSE row[a]]
      /\ claimed' = [a \in Automations |-> IF a \notin mine THEN claimed[a]
                        ELSE IF batch[w][a].again THEN 0 ELSE batch[w][a].was]
      /\ pc' = [pc EXCEPT ![w] = "committed"]
      /\ UNCHANGED <<now, batch, editPc, edit, loaded>>
  BY DEF ClaimCommit, editVars
<1>2. Holding(w) /\ pc[w] = "computed" /\ mine \subseteq Automations
  BY DEF ClaimCommit, Holding, WorkType, IsBatch
<1>3. ASSUME NEW a \in mine
      PROVE  /\ Current(w, a) /\ row[a] \in RowType /\ batch[w][a] \in Taken
             /\ row'[a] \in RowType /\ row'[a] \notin {Unborn, Gone}
             /\ row'[a].next = batch[w][a].next
             /\ claimed'[a] = IF batch[w][a].again THEN 0 ELSE batch[w][a].was
  <2>1. Current(w, a) /\ batch[w][a] \in Taken /\ a \in Automations
    BY <1>2 DEF Held, WorkType, IsBatch
  <2>2. row[a] \in RowType
    BY <2>1 DEF Current, Exists, TableType
  <2>3. row'[a] \in RowType /\ row'[a].next = batch[w][a].next
    BY <1>1, <2>1, <2>2 DEF RowType, Taken
  <2>4. row'[a] \notin {Unborn, Gone}
    BY <2>3, NoRowConstants
  <2> QED  BY <1>1, <2>1, <2>2, <2>3, <2>4
<1>4. \A a \in Automations \ mine : row'[a] = row[a] /\ claimed'[a] = claimed[a]
  BY <1>1
<1>5. TableType'
  <2>1. \A a \in Automations : row'[a] \in RowType \cup {Unborn, Gone}
    BY <1>3, <1>4 DEF TableType
  <2>2. \A a \in Automations : claimed'[a] \in 0..Horizon + 1
    BY <1>3, <1>4, ClaimConstants DEF TableType, Taken, Times
  <2> QED  BY <1>1, <2>1, <2>2 DEF TableType
<1>6. EditType' /\ WorkType'
  BY <1>1 DEF EditType, WorkType, IsBatch
<1>7. ASSUME NEW v \in Workers, Holding(v)'
      PROVE  v # w /\ Holding(v) /\ pc'[v] = pc[v] /\ DOMAIN batch[v] \cap mine = {}
  <2>1. v # w
    BY <1>1, <1>7 DEF Holding, WorkType
  <2> QED  BY <1>1, <1>2, <1>7, <2>1 DEF Holding, WorkType, Apart
<1>8. Held'
  BY <1>1, <1>4, <1>7 DEF Held, Current, Exists, WorkType, IsBatch
<1>9. Apart'
  BY <1>1, <1>7 DEF Apart
<1>10. Forward'
  <2> SUFFICES ASSUME NEW a \in Automations
               PROVE  IF Exists(a)' THEN claimed'[a] < row'[a].next ELSE claimed'[a] = 0
    BY DEF Forward
  <2>1. CASE a \in mine
    BY <1>2, <1>3, <2>1, ClaimConstants DEF Current, Exists, Taken, Times
  <2>2. CASE a \notin mine
    BY <1>4, <2>2 DEF Forward, Exists
  <2> QED  BY <2>1, <2>2
<1> QED  BY <1>5, <1>6, <1>8, <1>9, <1>10

\* A worker that lets go of its rows leaves them as they are.
LEMMA LetGo ==
  ASSUME ClaimInv, NEW w \in Workers, NEW x \in {"idle", "committed", "polled", "down"},
         pc' = [pc EXCEPT ![w] = x], batch' \in {batch, [batch EXCEPT ![w] = NoBatch]},
         UNCHANGED <<now, row, claimed, editPc, edit, loaded>>
  PROVE  ClaimInv'
<1> USE DEF ClaimInv, Typed
<1>1. TableType' /\ EditType' /\ Forward'
  BY DEF TableType, EditType, Forward, Exists
<1>2. \A v \in Workers \ {w} : batch'[v] = batch[v] /\ pc'[v] = pc[v]
  BY DEF WorkType
<1>3. pc'[w] = x /\ batch'[w] \in {batch[w], NoBatch}
  BY DEF WorkType
<1>4. WorkType'
  <2>1. IsBatch(NoBatch)
    BY DEF NoBatch, IsBatch
  <2>2. \A v \in Workers : IsBatch(batch'[v])
    BY <1>2, <1>3, <2>1 DEF WorkType
  <2>3. batch' = [v \in Workers |-> batch'[v]]
    BY DEF WorkType
  <2> QED  BY <2>2, <2>3 DEF WorkType, IsBatch
<1>5. Held'
  BY <1>2, <1>3 DEF Held, Holding, Current, Exists
<1>6. Apart'
  BY <1>2, <1>3 DEF Apart, Holding
<1> QED  BY <1>1, <1>4, <1>5, <1>6

\* Whatever leaves the table, the workers and the edits alone.
LEMMA Elsewhere ==
  ASSUME ClaimInv, UNCHANGED <<now, row, claimed, pc, batch, editPc, edit, loaded>>
  PROVE  ClaimInv'
  BY DEF ClaimInv, Typed, TableType, WorkType, IsBatch, EditType, Held, Apart, Forward, Holding,
     Current, Exists

\* Time passes: what was due stays due.
LEMMA TickStep == ASSUME ClaimInv, Tick PROVE ClaimInv'
<1> USE DEF ClaimInv, Typed
<1>1. now' = now + 1 /\ now < Horizon
      /\ UNCHANGED <<row, claimed, pc, batch, editPc, edit, loaded>>
  BY DEF Tick, rowVars, workVars, editVars
<1>2. TableType' /\ WorkType' /\ EditType' /\ Apart' /\ Forward'
  BY <1>1, ClaimConstants
  DEF TableType, WorkType, IsBatch, EditType, Apart, Holding, Forward, Exists
<1>3. Held'
  <2> SUFFICES ASSUME NEW w \in Workers, Holding(w), NEW a \in DOMAIN batch[w]
               PROVE  Current(w, a)'
    BY <1>1 DEF Held, Holding
  <2>1. Current(w, a) /\ batch[w][a] \in Taken
    BY DEF Held, WorkType, IsBatch
  <2>2. row[a].next \in Nat
    BY <2>1, ClaimConstants DEF Current, Taken, Times
  <2> QED  BY <1>1, <2>1, <2>2, ClaimConstants DEF Current, Exists, TableType
<1> QED  BY <1>2, <1>3
-----------------------------------------------------------------------------
\* One row changes, which no worker has selected, and its claims start afresh.
LEMMA RowChanges ==
  ASSUME ClaimInv, NEW a \in Automations,
         NEW new \in RowType \cup {Unborn, Gone}, row' = [row EXCEPT ![a] = new],
         claimed' = [claimed EXCEPT ![a] = 0],
         \A w \in Workers : Holding(w) => a \notin DOMAIN batch[w],
         UNCHANGED <<now, pc, batch>>, EditType'
  PROVE  ClaimInv'
<1> USE DEF ClaimInv, Typed
<1>1. TableType' /\ WorkType'
  BY ClaimConstants DEF TableType, WorkType, IsBatch
<1>2. row'[a] = new /\ \A b \in Automations \ {a} : row'[b] = row[b] /\ claimed'[b] = claimed[b]
  BY DEF TableType
<1>3. Held'
  BY <1>2 DEF Held, Holding, Current, Exists, WorkType, IsBatch
<1>4. Apart'
  BY DEF Apart, Holding
<1>5. Forward'
  <2>1. claimed'[a] = 0
    BY DEF TableType
  <2>2. Exists(a)' => row'[a].next > 0
    BY <1>2, ClaimConstants DEF Exists, RowType, Times
  <2> QED  BY <1>2, <2>1, <2>2 DEF Forward, Exists
<1> QED  BY <1>1, <1>3, <1>4, <1>5

\* There was no row to select.
LEMMA CreateStep == ASSUME ClaimInv, NEW a \in Automations, Create(a) PROVE ClaimInv'
<1> USE DEF ClaimInv, Typed
<1>1. PICK r \in Rules, z \in Zones, on \in BOOLEAN :
        row' = [row EXCEPT ![a] = [active |-> on, rule |-> r, next |-> After(r, z, now)]]
  BY DEF Create
<1>2. [active |-> on, rule |-> r, next |-> After(r, z, now)] \in RowType
  BY AfterIsLater DEF RowType, TableType
<1>3. ~Exists(a) /\ UNCHANGED <<now, claimed, pc, batch, editPc, edit, loaded>>
  BY DEF Create, Exists, workVars, editVars
<1>4. claimed' = [claimed EXCEPT ![a] = 0]
  BY <1>3 DEF Forward, TableType
<1>5. \A w \in Workers : Holding(w) => a \notin DOMAIN batch[w]
  BY <1>3 DEF Held, Current
<1>6. EditType'
  BY <1>3 DEF EditType
<1> QED  BY <1>1, <1>2, <1>3, <1>4, <1>5, <1>6, RowChanges

\* An edit that is over has forgotten its form.
LEMMA DoneIsTyped == ASSUME EditType, NEW e \in Editors, EditDone(e) PROVE EditType'
  BY DEF EditType, EditDone

\* An edit that reads a row.
LEMMA LoadIsTyped == ASSUME Typed, NEW e \in Editors, Load(e) PROVE EditType'
<1> USE DEF Typed
<1>1. edit[e] \in Forms /\ edit[e].of \in Automations
  BY DEF Load, EditType, Forms
<1>2. CASE Exists(edit[e].of)
  <2>1. row[edit[e].of] \in RowType
    BY <1>1, <1>2 DEF Exists, TableType
  <2> QED  BY <1>1, <1>2, <2>1 DEF Load, EditType
<1>3. CASE ~Exists(edit[e].of)
  BY <1>3, DoneIsTyped DEF Load
<1> QED  BY <1>2, <1>3

LEMMA LoadStep == ASSUME ClaimInv, NEW e \in Editors, Load(e) PROVE ClaimInv'
<1>1. UNCHANGED <<now, row, claimed, pc, batch>>
  BY DEF Load, rowVars, workVars
<1>2. EditType'
  BY LoadIsTyped DEF ClaimInv
<1> QED
  BY <1>1, <1>2
  DEF ClaimInv, Typed, TableType, WorkType, IsBatch, Held, Apart, Forward, Holding, Current, Exists

\* What an edit writes is a row.
LEMMA SaveIsRow ==
  ASSUME Typed, NEW e \in Editors, Save(e)
  PROVE  /\ edit[e].of \in Automations /\ ~Locked(edit[e].of)
         /\ \E new \in RowType \cup {Unborn, Gone} : row' = [row EXCEPT ![edit[e].of] = new]
<1> USE DEF Typed
<1> DEFINE a == edit[e].of
<1>1. edit[e] \in Forms /\ loaded[e] \in RowType
  BY DEF Save, EditType
<1>2. Edited(e) \in RowType
  <2>1. Never \in Times
    BY ClaimConstants DEF Never, Times
  <2>2. /\ edit[e].active \in BOOLEAN /\ edit[e].rule \in Rules /\ edit[e].next \in Times
        /\ loaded[e].active \in BOOLEAN /\ loaded[e].rule \in Rules
    BY <1>1 DEF Forms, RowType
  <2>3. CASE edit[e].kind # "toggle"
    <3>1. Edited(e) = [active |-> edit[e].active, rule |-> edit[e].rule,
                       next |-> edit[e].next]
      BY <2>3 DEF Edited
    <3> QED  BY <2>2, <3>1 DEF RowType
  <2>4. CASE edit[e].kind = "toggle" /\ loaded[e].active
    <3>1. Edited(e) = [active |-> FALSE, rule |-> loaded[e].rule, next |-> Never]
      BY <2>4, Zenon DEF Edited
    <3> QED  BY <2>1, <2>2, <3>1 DEF RowType
  <2>5. CASE edit[e].kind = "toggle" /\ ~loaded[e].active
    <3>1. Edited(e) = [active |-> TRUE, rule |-> loaded[e].rule, next |-> edit[e].next]
      BY <2>5, Zenon DEF Edited
    <3> QED  BY <2>2, <3>1 DEF RowType
  <2> QED  BY <2>3, <2>4, <2>5
<1>3. CASE Exists(a)
  <2>1. row[a] \in RowType
    BY <1>1, <1>3 DEF Exists, TableType, Forms
  <2> DEFINE Written(f) == IF Edited(e)[f] # loaded[e][f] THEN Edited(e)[f] ELSE row[a][f]
  <2>2. Written("active") \in BOOLEAN /\ Written("rule") \in Rules /\ Written("next") \in Times
    BY <1>1, <1>2, <2>1 DEF RowType
  <2>3. row' = [row EXCEPT ![a] = [active |-> Written("active"), rule |-> Written("rule"),
                                   next |-> Written("next")]]
    BY <1>3 DEF Save
  <2>4. [active |-> Written("active"), rule |-> Written("rule"), next |-> Written("next")]
           \in RowType
    BY <2>2 DEF RowType
  <2> QED  BY <1>1, <2>3, <2>4 DEF Save, Forms
<1>4. CASE ~Exists(a)
  BY <1>1, <1>4 DEF Save, Exists, Forms
<1> QED  BY <1>3, <1>4

\* Neither waits for a lock in vain: the row belongs to no worker.
LEMMA SaveStep == ASSUME SkipLocked, ClaimInv, NEW e \in Editors, Save(e) PROVE ClaimInv'
<1>1. Typed
  BY DEF ClaimInv
<1>2. EditType'
  BY DoneIsTyped DEF ClaimInv, Typed, Save
<1>3. \A w \in Workers : Holding(w) => edit[e].of \notin DOMAIN batch[w]
  BY <1>1, SaveIsRow DEF Locked, LockedBy, Holding
<1>4. UNCHANGED <<now, pc, batch>> /\ claimed' = [claimed EXCEPT ![edit[e].of] = 0]
  BY DEF Save, workVars
<1> QED  BY <1>1, <1>2, <1>3, <1>4, SaveIsRow, RowChanges

LEMMA DeleteRowStep ==
  ASSUME SkipLocked, ClaimInv, NEW e \in Editors, DeleteRow(e) PROVE ClaimInv'
<1>1. EditType' /\ edit[e].of \in Automations
  BY DoneIsTyped DEF ClaimInv, Typed, DeleteRow, EditType, Forms
<1>2. \A w \in Workers : Holding(w) => edit[e].of \notin DOMAIN batch[w]
  BY DEF DeleteRow, Locked, LockedBy, Holding
<1>3. UNCHANGED <<now, pc, batch>> /\ claimed' = [claimed EXCEPT ![edit[e].of] = 0]
      /\ row' = [row EXCEPT ![edit[e].of] = Gone]
  BY DEF DeleteRow, workVars
<1> QED  BY <1>1, <1>2, <1>3, RowChanges
-----------------------------------------------------------------------------
\* The steps of an edit that only begin it: its form is one.
LEMMA BeginningIsTyped ==
  ASSUME Typed, NEW e \in Editors, BeginUpdate(e) \/ BeginToggle(e) \/ BeginDelete(e)
  PROVE  EditType' /\ UNCHANGED <<now, row, claimed, pc, batch, loaded>>
<1> USE DEF Typed
<1>1. \A r \in Rules, z \in Zones : After(r, z, now) \in Times
  BY AfterIsLater DEF TableType
<1>2. \A a \in Automations : Exists(a) => row[a] \in RowType
  BY DEF TableType, Exists
<1>3. UNCHANGED <<now, row, claimed, pc, batch, loaded>>
  BY DEF BeginUpdate, BeginToggle, BeginDelete, rowVars, workVars
<1>4. CASE BeginUpdate(e)
  <2>1. PICK a \in Automations, r \in Rules, z \in Zones, on \in BOOLEAN :
          Begin(e, [kind |-> "update", of |-> a, active |-> on, rule |-> r,
                    next |-> After(r, z, now)])
    BY <1>4 DEF BeginUpdate
  <2>2. [kind |-> "update", of |-> a, active |-> on, rule |-> r, next |-> After(r, z, now)]
           \in Forms
    BY <1>1 DEF Forms, Kinds
  <2> QED  BY <1>3, <2>1, <2>2 DEF Begin, EditType
<1>5. CASE BeginToggle(e)
  <2>1. PICK a \in Automations, z \in Zones :
          /\ Exists(a)
          /\ Begin(e, [kind |-> "toggle", of |-> a, active |-> row[a].active,
                       rule |-> row[a].rule, next |-> After(row[a].rule, z, now)])
    BY <1>5 DEF BeginToggle
  <2>2. row[a].active \in BOOLEAN /\ row[a].rule \in Rules
    BY <1>2, <2>1 DEF RowType
  <2>3. [kind |-> "toggle", of |-> a, active |-> row[a].active,
         rule |-> row[a].rule, next |-> After(row[a].rule, z, now)] \in Forms
    BY <1>1, <2>2 DEF Forms, Kinds
  <2> QED  BY <1>3, <2>1, <2>3 DEF Begin, EditType
<1>6. CASE BeginDelete(e)
  <2>1. PICK a \in Automations :
          /\ Exists(a)
          /\ Begin(e, [kind |-> "delete", of |-> a, active |-> FALSE,
                       rule |-> row[a].rule, next |-> Never])
    BY <1>6 DEF BeginDelete
  <2>2. row[a].rule \in Rules /\ Never \in Times
    BY <1>2, <2>1, ClaimConstants DEF RowType, Never, Times
  <2>3. [kind |-> "delete", of |-> a, active |-> FALSE, rule |-> row[a].rule, next |-> Never]
           \in Forms
    BY <2>2 DEF Forms, Kinds
  <2> QED  BY <1>3, <2>1, <2>3 DEF Begin, EditType
<1> QED  BY <1>3, <1>4, <1>5, <1>6

LEMMA BeginningStep ==
  ASSUME ClaimInv, NEW e \in Editors, BeginUpdate(e) \/ BeginToggle(e) \/ BeginDelete(e)
  PROVE  ClaimInv' /\ UNCHANGED <<row, claimed>>
  BY BeginningIsTyped
  DEF ClaimInv, Typed, TableType, WorkType, IsBatch, Held, Apart, Forward, Holding, Current,
      Exists

\* The steps of a worker that neither select, compute nor commit.
LEMMA LettingGoStep ==
  ASSUME ClaimInv, NEW w \in Workers,
         ClaimFails(w) \/ ClaimDropped(w) \/ StartRuns(w) \/ NextRound(w) \/ Crash(w) \/ Restart(w)
  PROVE  ClaimInv' /\ UNCHANGED <<row, claimed>>
<1>1. UNCHANGED <<now, row, claimed, editPc, edit, loaded>>
  BY DEF ClaimFails, ClaimDropped, StartRuns, NextRound, Crash, Restart, rowVars, editVars
<1>2. batch' \in {batch, [batch EXCEPT ![w] = NoBatch]}
  BY DEF ClaimFails, ClaimDropped, StartRuns, NextRound, Crash, Restart
<1>3. \E x \in {"idle", "committed", "polled", "down"} : pc' = [pc EXCEPT ![w] = x]
  BY DEF ClaimFails, ClaimDropped, StartRuns, NextRound, Crash, Restart
<1> QED  BY <1>1, <1>2, <1>3, LetGo

\* Runs begin and end without the table.
LEMMA RunStep ==
  ASSUME ClaimInv, NEW w \in Workers, NEW a \in Automations, Running(w, a)
  PROVE  ClaimInv' /\ UNCHANGED <<row, claimed>>
<1>1. UNCHANGED <<now, row, claimed, pc, batch, editPc, edit, loaded>>
  BY DEF Running, EndRun, EndRunTwice, EndRunUnwritten, RunNow, rowVars, workVars, editVars
<1> QED  BY <1>1, Elsewhere

\* Every step preserves the invariant.
LEMMA NextClaimInv == ASSUME SkipLocked, ClaimInv, [Next]_vars PROVE ClaimInv'
<1>1. CASE \E w \in Workers : Claiming(w) \/ Crash(w) \/ Restart(w)
  BY <1>1, ClaimSelectStep, ClaimComputeStep, ClaimCommitStep, LettingGoStep DEF Claiming
<1>2. CASE \E w \in Workers, a \in Automations : Running(w, a)
  BY <1>2, RunStep
<1>3. CASE \E a \in Automations : Create(a)
  BY <1>3, CreateStep
<1>4. CASE \E e \in Editors : Editing(e)
  BY <1>4, BeginningStep, LoadStep, SaveStep, DeleteRowStep DEF Editing
<1>5. CASE Tick
  BY <1>5, TickStep
<1>6. CASE UNCHANGED vars
  BY <1>6, Elsewhere DEF vars, rowVars, workVars, editVars
<1> QED  BY <1>1, <1>2, <1>3, <1>4, <1>5, <1>6 DEF Next
-----------------------------------------------------------------------------
\* What the abstract schedule sees of the table.
Active == {a \in Automations : Exists(a) /\ row[a].active}
Twice == {a \in Automations : \E w \in Workers :
            pc[w] = "computed" /\ a \in DOMAIN batch[w] /\ batch[w][a].again}
Waits == [a \in Automations |-> IF Exists(a) THEN row[a].next ELSE Never]

LEMMA WaitsType == ASSUME ClaimInv PROVE Waits \in [Automations -> Times]
  BY ClaimConstants DEF ClaimInv, Typed, TableType, Waits, Exists, RowType, Never, Times

\* A commit claims what was selected.
LEMMA CommitClaims ==
  ASSUME SkipLocked, ClaimInv, NEW w \in Workers, ClaimCommit(w)
  PROVE  \E S \in SUBSET Automations : Schedule!Claim(S)
<1> DEFINE S == DOMAIN batch[w]
<1>1. ClaimInv' /\ S \in SUBSET Automations /\ Holding(w) /\ pc[w] = "computed"
  BY ClaimCommitStep DEF ClaimInv, Typed, WorkType, IsBatch, ClaimCommit, Holding
<1>2. \A a \in S : Current(w, a) /\ row[a] \in RowType /\ batch[w][a] \in Taken
  BY <1>1 DEF ClaimInv, Typed, Held, Current, TableType, Exists, WorkType, IsBatch
<1>3. /\ row' = [a \in Automations |->
                   IF a \in S THEN [row[a] EXCEPT !.next = batch[w][a].next] ELSE row[a]]
      /\ claimed' = [a \in Automations |-> IF a \notin S THEN claimed[a]
                        ELSE IF batch[w][a].again THEN 0 ELSE batch[w][a].was]
  BY DEF ClaimCommit
<1>4. ASSUME NEW a \in S
      PROVE  /\ Exists(a)' /\ row'[a].active = row[a].active
             /\ row'[a].next = batch[w][a].next
  <2>1. row'[a] = [row[a] EXCEPT !.next = batch[w][a].next]
    BY <1>1, <1>3
  <2>2. row'[a] \in RowType
    BY <1>2, <2>1 DEF RowType, Taken
  <2> QED  BY <1>2, <2>1, <2>2, NoRowConstants DEF Exists, RowType
<1>5. \A a \in Automations \ S : row'[a] = row[a]
  BY <1>3
<1>6. S \subseteq Active /\ Active' = Active
  BY <1>1, <1>2, <1>4, <1>5 DEF Active, Current, Exists
<1>7. \A a \in S : Waits[a] = batch[w][a].was /\ Waits[a] > claimed[a]
  BY <1>1, <1>2 DEF Waits, Current, ClaimInv, Forward
<1>12. \A a \in S : a \in Twice <=> batch[w][a].again
  BY <1>1 DEF Twice, ClaimInv, Apart, Holding
<1>8. claimed' = [a \in Automations |->
        IF a \notin S THEN claimed[a] ELSE IF a \in Twice THEN 0 ELSE Waits[a]]
  BY <1>3, <1>7, <1>12
<1>9. \A a \in Automations :
        IF a \in S THEN a \in Twice \/ Waits'[a] > Waits[a] ELSE Waits'[a] = Waits[a]
  BY <1>1, <1>2, <1>4, <1>5, <1>7, <1>12 DEF Waits, Current, Exists
<1>10. Waits' \in [Automations -> Times]
  BY <1>1, ClaimConstants DEF ClaimInv, Typed, TableType, Waits, Exists, RowType, Never, Times
<1> HIDE DEF S
<1>11. S \in SUBSET Automations /\ Twice' \subseteq Automations
  BY <1>1 DEF Twice
<1> QED
  BY <1>6, <1>7, <1>8, <1>9, <1>10, <1>11 DEF Schedule!Claim, Active, Waits, Twice

\* A row that is written or deleted starts its schedule afresh.
LEMMA RowIsEdited ==
  ASSUME ClaimInv, ClaimInv', NEW a \in Automations,
         \A b \in Automations \ {a} : row'[b] = row[b],
         claimed' = [claimed EXCEPT ![a] = 0], UNCHANGED <<pc, batch>>
  PROVE  Schedule!Edit(a)
<1>1. Active' \in {Active \cup {a}, Active \ {a}}
  <2>1. \A b \in Automations \ {a} : b \in Active' <=> b \in Active
    BY DEF Active, Exists
  <2>2. Active \subseteq Automations /\ Active' \subseteq Automations
    BY DEF Active
  <2> HIDE DEF Active
  <2> QED  BY <2>1, <2>2
<1>2. Waits'[a] \in Times /\ Waits' = [Waits EXCEPT ![a] = Waits'[a]]
  <2>1. Waits \in [Automations -> Times] /\ Waits' \in [Automations -> Times]
    BY ClaimConstants DEF ClaimInv, Typed, TableType, Waits, Exists, RowType, Never, Times
  <2>2. \A b \in Automations \ {a} : Waits'[b] = Waits[b]
    BY DEF Waits, Exists
  <2> QED  BY <2>1, <2>2
<1>3. Twice' = Twice
  BY DEF Twice
<1> QED  BY <1>1, <1>2, <1>3 DEF Schedule!Edit, Active, Waits, Twice

\* Every step is one of the schedule, or changes nothing of it.
LEMMA NextIsScheduled ==
  ASSUME SkipLocked, ClaimInv, [Next]_vars
  PROVE  [Schedule!Next]_(Schedule!vars)
<1>1. ClaimInv'
  BY NextClaimInv
<1>2. ASSUME UNCHANGED <<row, claimed>> PROVE Schedule!Next
  BY <1>2 DEF Schedule!Next, Schedule!Compute, Exists
<1>3. ASSUME NEW w \in Workers, ClaimCommit(w) PROVE Schedule!Next
  BY <1>3, CommitClaims DEF Schedule!Next
<1>4. ASSUME NEW w \in Workers, ClaimSelect(w) \/ ClaimCompute(w)
      PROVE  UNCHANGED <<row, claimed>>
  BY <1>4 DEF ClaimSelect, ClaimCompute, rowVars
<1>5. ASSUME NEW a \in Automations, Create(a) PROVE Schedule!Next
  <2>1. \A b \in Automations \ {a} : row'[b] = row[b]
    BY <1>5 DEF Create, ClaimInv, Typed, TableType
  <2>2. claimed' = [claimed EXCEPT ![a] = 0]
    BY <1>5 DEF Create, ClaimInv, Typed, TableType, Forward, Exists
  <2>3. UNCHANGED <<pc, batch>>
    BY <1>5 DEF Create, workVars
  <2> QED  BY <1>1, <2>1, <2>2, <2>3, RowIsEdited DEF Schedule!Next
<1>6. ASSUME NEW e \in Editors, Save(e) \/ DeleteRow(e) PROVE Schedule!Next
  <2>1. edit[e].of \in Automations
    BY <1>6, SaveIsRow DEF DeleteRow, ClaimInv, Typed, EditType, Forms
  <2>2. \A b \in Automations \ {edit[e].of} : row'[b] = row[b]
    BY <1>6, SaveIsRow DEF DeleteRow, ClaimInv, Typed, TableType
  <2>3. claimed' = [claimed EXCEPT ![edit[e].of] = 0]
    BY <1>6 DEF Save, DeleteRow
  <2>4. UNCHANGED <<pc, batch>>
    BY <1>6 DEF Save, DeleteRow, workVars
  <2> QED  BY <1>1, <2>1, <2>2, <2>3, <2>4, RowIsEdited DEF Schedule!Next
<1>7. ASSUME NEW e \in Editors, Load(e) PROVE UNCHANGED <<row, claimed>>
  BY <1>7 DEF Load, rowVars
<1>8. ASSUME Tick \/ UNCHANGED vars PROVE UNCHANGED <<row, claimed>>
  BY <1>8 DEF Tick, vars, rowVars
<1>9. CASE \E w \in Workers : Claiming(w) \/ Crash(w) \/ Restart(w)
  BY <1>2, <1>3, <1>4, <1>9, LettingGoStep DEF Claiming
<1>10. CASE \E w \in Workers, a \in Automations : Running(w, a)
  BY <1>2, <1>10, RunStep
<1>11. CASE \E e \in Editors : Editing(e)
  BY <1>2, <1>6, <1>7, <1>11, BeginningStep DEF Editing
<1> QED  BY <1>2, <1>5, <1>8, <1>9, <1>10, <1>11 DEF Next, Schedule!Next

\* "Atomically claim due automations ... so the row can never be double-claimed"
\* (claim_due): with row locks the claims implement AutomationSchedule, in which
\* a claim made while the clock shows an hour for the second time starts afresh.
THEOREM ClaimsImplementSchedule == ASSUME SkipLocked PROVE Spec => ClaimsFollowSchedule
<1>1. Init => Schedule!Init
  <2> SUFFICES ASSUME Init PROVE Schedule!Init
    OBVIOUS
  <2>1. Waits \in [Automations -> Times]
    BY InitClaimInv, WaitsType
  <2>2. Active \in SUBSET Automations
    BY DEF Active
  <2>3. Twice = {}
    BY DEF Init, Twice
  <2> QED  BY <2>1, <2>2, <2>3 DEF Init, Schedule!Init, Active, Waits, Twice
<1> QED
  BY <1>1, InitClaimInv, NextClaimInv, NextIsScheduled, PTL
  DEF Spec, ClaimsFollowSchedule, Schedule!Spec

\* What a worker commits was computed from the row as it still is, so a pause or
\* a new rule is not overwritten by a claim that was under way (claim_due).
THEOREM CommitsAreCurrent == ASSUME SkipLocked PROVE Spec => ClaimsAreCurrent
<1>1. ASSUME ClaimInv, NEW w \in Workers, ClaimCommit(w)
      PROVE  \A a \in DOMAIN batch[w] : row[a].active /\ row[a].rule = batch[w][a].rule
  BY <1>1 DEF ClaimInv, Typed, Held, Current, Holding, ClaimCommit
<1>2. ClaimInv /\ [Next]_vars =>
        [\A w \in Workers : ClaimCommit(w) =>
           \A a \in DOMAIN batch[w] : row[a].active /\ row[a].rule = batch[w][a].rule]_vars
  BY <1>1
<1> QED  BY <1>2, InitClaimInv, NextClaimInv, PTL DEF Spec, ClaimsAreCurrent
-----------------------------------------------------------------------------
\* The tasks of execute_automation when worker w runs f[w] of them.
Tasks(f) == UNION {{w} \X (1..f[w]) : w \in Workers}

\* A finite number of workers runs a finite number of tasks.
LEMMA TasksAreFinite ==
  ASSUME NEW f \in [Workers -> Nat], NEW W \in SUBSET Workers
  PROVE  IsFiniteSet(UNION {{w} \X (1..f[w]) : w \in W})
<1> DEFINE Of(w) == {w} \X (1..f[w])
           all == {Of(w) : w \in W}
           g == [w \in W |-> Of(w)]
<1>1. IsFiniteSet(W)
  BY ClaimConstants, FS_Subset
<1>2. g \in Surjection(W, all)
  BY DEF Surjection
<1>3. IsFiniteSet(all)
  <2> HIDE DEF g, all
  <2> QED  BY <1>1, <1>2, FS_Surjection
<1>4. \A w \in W : IsFiniteSet(Of(w))
  <2> TAKE w \in W
  <2>1. IsFiniteSet({w})
    BY FS_Singleton
  <2>2. IsFiniteSet(1..f[w])
    <3>1. 1 \in Int /\ f[w] \in Int
      OBVIOUS
    <3> QED  BY <3>1, FS_Interval
  <2> QED  BY <2>1, <2>2, FS_Product
<1> QED  BY <1>3, <1>4, FS_UNION

\* The tasks of one worker are counted apart from those of the others.
LEMMA TasksOfOne ==
  ASSUME NEW f \in [Workers -> Nat], NEW w \in Workers
  PROVE  LET others == UNION {{v} \X (1..f[v]) : v \in Workers \ {w}}
         IN  /\ Cardinality(others) \in Nat
             /\ Cardinality(Tasks(f)) = Cardinality(others) + f[w]
<1> DEFINE others == UNION {{v} \X (1..f[v]) : v \in Workers \ {w}}
           mine == {w} \X (1..f[w])
<1>1. IsFiniteSet(others)
  BY TasksAreFinite
<1>2. IsFiniteSet(mine) /\ Cardinality(mine) = f[w]
  <2>1. IsFiniteSet({w}) /\ Cardinality({w}) = 1
    BY FS_Singleton
  <2>2. 1 \in Int /\ f[w] \in Int /\ f[w] \in Nat
    OBVIOUS
  <2>3. IsFiniteSet(1..f[w]) /\ Cardinality(1..f[w]) = f[w]
    BY <2>2, FS_Interval
  <2> DEFINE one == {w}
             upTo == 1..f[w]
  <2> HIDE DEF one, upTo
  <2>4. IsFiniteSet(one \X upTo) /\ Cardinality(one \X upTo) = 1 * f[w]
    BY <2>1, <2>3, FS_Product DEF one, upTo
  <2> QED  BY <2>2, <2>4 DEF one, upTo
<1>3. Tasks(f) = others \cup mine
  BY DEF Tasks
<1>4. others \cap mine = {}
  OBVIOUS
<1>5. Cardinality(others) \in Nat /\ Cardinality({}) = 0
  BY <1>1, FS_CardinalityType, FS_EmptySet
<1> HIDE DEF others, mine
<1>6. Cardinality(others \cup mine) = Cardinality(others) + f[w] - 0
  BY <1>1, <1>2, <1>4, <1>5, FS_Union
<1> QED  BY <1>3, <1>5, <1>6 DEF others

\* What one worker begins or ends changes the number by as much.
LEMMA TasksOfOneChange ==
  ASSUME NEW f \in [Workers -> Nat], NEW g \in [Workers -> Nat], NEW w \in Workers,
         \A v \in Workers \ {w} : g[v] = f[v]
  PROVE  /\ Cardinality(Tasks(f)) \in Nat /\ Cardinality(Tasks(g)) \in Nat
         /\ Cardinality(Tasks(f)) - f[w] = Cardinality(Tasks(g)) - g[w]
<1> DEFINE Others(h) == UNION {{v} \X (1..h[v]) : v \in Workers \ {w}}
<1>1. Others(g) = Others(f)
  OBVIOUS
<1>2. \A h \in [Workers -> Nat] :
         Cardinality(Others(h)) \in Nat /\ Cardinality(Tasks(h)) = Cardinality(Others(h)) + h[w]
  BY TasksOfOne
<1> HIDE DEF Others
<1> QED  BY <1>1, <1>2
-----------------------------------------------------------------------------
CountType ==
    /\ running \in [Workers -> [Automations -> Nat]]
    /\ {runs, issued, lost, unwritten, doubled} \subseteq [Automations -> Nat]
    /\ wiped \in SUBSET Automations
    /\ manual \in 0..MaxManual /\ faults \in 0..MaxFaults

AllTyped == Typed /\ CountType

\* The variables stay in their ranges without any of the locks.
LEMMA SelectIsTyped == ASSUME AllTyped, NEW w \in Workers, ClaimSelect(w) PROVE AllTyped'
<1> USE DEF AllTyped, Typed
<1>1. PICK S \in SUBSET Automations :
        /\ Oldest(S)
        /\ batch' = [batch EXCEPT ![w] =
               [a \in S |-> [rule |-> row[a].rule, was |-> row[a].next, next |-> Never,
                         again |-> FALSE]]]
        /\ pc' = [pc EXCEPT ![w] = IF S = {} THEN "polled" ELSE "selected"]
  BY DEF ClaimSelect
<1> DEFINE mine == [a \in S |-> [rule |-> row[a].rule, was |-> row[a].next, next |-> Never,
                         again |-> FALSE]]
<1>2. \A a \in S : row[a] \in RowType
  BY <1>1 DEF Oldest, Due, Exists, TableType
<1>3. \A a \in S : mine[a] \in Taken
  BY <1>2, ClaimConstants DEF RowType, Taken, Never, Times
<1>4. IsBatch(mine)
  <2>1. DOMAIN mine = S
    OBVIOUS
  <2> QED  BY <1>3, <2>1 DEF IsBatch
<1>5. WorkType'
  <2> HIDE DEF mine
  <2>1. batch' = [batch EXCEPT ![w] = mine]
    BY <1>1 DEF mine
  <2>2. \A v \in Workers : IsBatch(batch'[v])
    BY <1>4, <2>1 DEF WorkType
  <2>3. batch' = [v \in Workers |-> batch'[v]]
    BY <2>1 DEF WorkType
  <2>4. pc' \in [Workers -> {"idle", "selected", "computed", "committed", "polled", "down"}]
    BY <1>1 DEF WorkType
  <2> QED  BY <2>2, <2>3, <2>4 DEF WorkType, IsBatch
<1> QED
  BY <1>5 DEF ClaimSelect, rowVars, runVars, endVars, editVars, TableType, EditType, CountType

LEMMA ComputeIsTyped == ASSUME AllTyped, NEW w \in Workers, ClaimCompute(w) PROVE AllTyped'
<1> USE DEF AllTyped, Typed
<1>0. PICK zone \in [DOMAIN batch[w] -> Zones] :
        batch' = [batch EXCEPT ![w] = [a \in DOMAIN batch[w] |->
                    [batch[w][a] EXCEPT !.next = After(batch[w][a].rule, zone[a], now),
                                        !.again = Again(zone[a], now)]]]
  BY DEF ClaimCompute
<1> DEFINE mine == [a \in DOMAIN batch[w] |->
                       [batch[w][a] EXCEPT !.next = After(batch[w][a].rule, zone[a], now),
                                           !.again = Again(zone[a], now)]]
<1>1. batch' = [batch EXCEPT ![w] = mine] /\ pc' = [pc EXCEPT ![w] = "computed"]
  BY <1>0 DEF ClaimCompute
<1>2. ASSUME NEW a \in DOMAIN batch[w] PROVE mine[a] \in Taken
  <2>1. batch[w][a] \in Taken /\ zone[a] \in Zones
    BY DEF WorkType, IsBatch
  <2> DEFINE next == After(batch[w][a].rule, zone[a], now)
             again == Again(zone[a], now)
  <2>2. next \in Times /\ again \in BOOLEAN
    BY <2>1, AfterIsLater DEF Taken, TableType, Again
  <2>3. mine[a] = [batch[w][a] EXCEPT !.next = next, !.again = again]
    OBVIOUS
  <2> HIDE DEF next, again, mine
  <2> QED  BY <2>1, <2>2, <2>3 DEF Taken
<1>3. IsBatch(mine)
  <2>1. DOMAIN mine = DOMAIN batch[w]
    OBVIOUS
  <2> QED  BY <1>2, <2>1 DEF IsBatch, WorkType
<1>4. WorkType'
  <2> HIDE DEF mine
  <2>1. \A v \in Workers : IsBatch(batch'[v])
    BY <1>1, <1>3 DEF WorkType
  <2>2. batch' = [v \in Workers |-> batch'[v]]
    BY <1>1 DEF WorkType
  <2>3. pc' \in [Workers -> {"idle", "selected", "computed", "committed", "polled", "down"}]
    BY <1>1 DEF WorkType
  <2> QED  BY <2>1, <2>2, <2>3 DEF WorkType, IsBatch
<1> QED
  BY <1>4 DEF ClaimCompute, rowVars, runVars, endVars, editVars, TableType, EditType, CountType

LEMMA CommitIsTyped == ASSUME AllTyped, NEW w \in Workers, ClaimCommit(w) PROVE AllTyped'
<1> USE DEF AllTyped, Typed
<1> DEFINE mine == DOMAIN batch[w]
<1>1. \A a \in mine : a \in Automations /\ batch[w][a] \in Taken
  BY DEF WorkType, IsBatch
<1>2. \A a \in mine : row[a] \in RowType
  BY <1>1 DEF ClaimCommit, Exists, TableType
<1>3. TableType'
  <2>1. row' \in [Automations -> RowType \cup {Unborn, Gone}]
    <3>1. row' = [a \in Automations |->
                    IF a \in mine THEN [row[a] EXCEPT !.next = batch[w][a].next] ELSE row[a]]
      BY DEF ClaimCommit
    <3>2. ASSUME NEW a \in mine PROVE [row[a] EXCEPT !.next = batch[w][a].next] \in RowType
      BY <1>1, <1>2 DEF RowType, Taken
    <3> QED  BY <3>1, <3>2 DEF TableType
  <2>2. claimed' \in [Automations -> 0..Horizon + 1]
    BY <1>1, ClaimConstants DEF ClaimCommit, TableType, Taken, Times
  <2> QED  BY <2>1, <2>2 DEF ClaimCommit, TableType
<1>4. WorkType' /\ EditType'
  BY DEF ClaimCommit, WorkType, IsBatch, editVars, EditType
<1>5. issued' \in [Automations -> Nat]
  BY DEF ClaimCommit, CountType
<1> QED  BY <1>3, <1>4, <1>5 DEF ClaimCommit, CountType, endVars

\* A worker lets go of its rows; tasks begin, are recorded or die.
LEMMA LettingGoIsTyped ==
  ASSUME AllTyped, NEW w \in Workers,
         ClaimFails(w) \/ ClaimDropped(w) \/ StartRuns(w) \/ NextRound(w) \/ Crash(w) \/ Restart(w)
  PROVE  AllTyped'
<1> USE DEF AllTyped, Typed
<1>1. TableType' /\ EditType'
  BY DEF ClaimFails, ClaimDropped, StartRuns, NextRound, Crash, Restart, rowVars, editVars,
     TableType, EditType
<1>2. WorkType'
  <2>1. batch' \in {batch, [batch EXCEPT ![w] = NoBatch]}
    BY DEF ClaimFails, ClaimDropped, StartRuns, NextRound, Crash, Restart
  <2>2. IsBatch(NoBatch)
    BY DEF IsBatch, NoBatch
  <2>3. \A v \in Workers : IsBatch(batch'[v])
    BY <2>1, <2>2 DEF WorkType
  <2>4. batch' = [v \in Workers |-> batch'[v]]
    BY <2>1 DEF WorkType
  <2>5. pc' \in [Workers -> {"idle", "selected", "computed", "committed", "polled", "down"}]
    BY DEF ClaimFails, ClaimDropped, StartRuns, NextRound, Crash, Restart, WorkType
  <2> QED  BY <2>3, <2>4, <2>5 DEF WorkType, IsBatch
<1>3. CountType'
  <2>1. CASE ClaimFails(w)
    BY <2>1, ClaimConstants DEF ClaimFails, CountType, runVars, endVars
  <2>2. CASE NextRound(w) \/ Restart(w)
    BY <2>2 DEF NextRound, Restart, CountType, runVars, endVars
  <2>3. CASE StartRuns(w)
    BY <2>3 DEF StartRuns, CountType, endVars
  <2>5. CASE ClaimDropped(w)
    <3>1. lost' \in [Automations -> Nat]
      BY <2>5 DEF ClaimDropped, CountType
    <3> QED  BY <2>5, <3>1, ClaimConstants DEF ClaimDropped, CountType, endVars
  <2>4. CASE Crash(w)
    <3>1. lost' \in [Automations -> Nat]
      BY <2>4 DEF Crash, CountType
    <3>2. running' \in [Workers -> [Automations -> Nat]]
      BY <2>4 DEF Crash, CountType
    <3> QED  BY <2>4, <3>1, <3>2, ClaimConstants DEF Crash, CountType, endVars
  <2> QED  BY <2>1, <2>2, <2>3, <2>4, <2>5
<1> QED  BY <1>1, <1>2, <1>3

LEMMA RunIsTyped ==
  ASSUME AllTyped, NEW w \in Workers, NEW a \in Automations, Running(w, a)
  PROVE  AllTyped'
<1> USE DEF AllTyped, Typed
<1>1. TableType' /\ EditType' /\ WorkType'
  BY DEF Running, EndRun, EndRunTwice, EndRunUnwritten, RunNow, rowVars, workVars, editVars,
         TableType, EditType, WorkType, IsBatch
<1>2. ASSUME running[w][a] > 0, running' = [running EXCEPT ![w][a] = @ - 1]
      PROVE  running' \in [Workers -> [Automations -> Nat]]
  <2>1. running[w][a] - 1 \in Nat
    BY <1>2 DEF CountType
  <2> QED  BY <1>2, <2>1 DEF CountType
<1>3. CASE EndRun(w, a)
  <2>1. running' \in [Workers -> [Automations -> Nat]]
    BY <1>2, <1>3 DEF EndRun
  <2>2. runs' \in [Automations -> Nat]
    BY <1>3 DEF EndRun, CountType
  <2> QED  BY <1>1, <1>3, <2>1, <2>2 DEF EndRun, CountType, endVars
<1>4. CASE EndRunTwice(w, a)
  <2>1. running' \in [Workers -> [Automations -> Nat]]
    BY <1>2, <1>4 DEF EndRunTwice
  <2>2. runs' \in [Automations -> Nat] /\ doubled' \in [Automations -> Nat]
    BY <1>4 DEF EndRunTwice, CountType
  <2>3. faults' \in 0..MaxFaults
    BY <1>4, ClaimConstants DEF EndRunTwice, CountType
  <2> QED  BY <1>1, <1>4, <2>1, <2>2, <2>3 DEF EndRunTwice, CountType
<1>5. CASE EndRunUnwritten(w, a)
  <2>1. running' \in [Workers -> [Automations -> Nat]]
    BY <1>2, <1>5 DEF EndRunUnwritten
  <2>2. unwritten' \in [Automations -> Nat]
    BY <1>5 DEF EndRunUnwritten, CountType
  <2>3. faults' \in 0..MaxFaults
    BY <1>5, ClaimConstants DEF EndRunUnwritten, CountType
  <2> QED  BY <1>1, <1>5, <2>1, <2>2, <2>3 DEF EndRunUnwritten, CountType
<1>6. CASE RunNow(w, a)
  <2>1. running' \in [Workers -> [Automations -> Nat]] /\ issued' \in [Automations -> Nat]
    BY <1>6 DEF RunNow, CountType
  <2>2. manual' \in 0..MaxManual
    BY <1>6, ClaimConstants DEF RunNow, CountType
  <2> QED  BY <1>1, <1>6, <2>1, <2>2 DEF RunNow, CountType, endVars
<1> QED  BY <1>3, <1>4, <1>5, <1>6 DEF Running

LEMMA CreateIsTyped == ASSUME AllTyped, NEW a \in Automations, Create(a) PROVE AllTyped'
<1> USE DEF AllTyped, Typed
<1>1. PICK r \in Rules, z \in Zones, on \in BOOLEAN :
        row' = [row EXCEPT ![a] = [active |-> on, rule |-> r, next |-> After(r, z, now)]]
  BY DEF Create
<1>2. [active |-> on, rule |-> r, next |-> After(r, z, now)] \in RowType
  BY AfterIsLater DEF RowType, TableType
<1>3. TableType'
  BY <1>1, <1>2 DEF Create, TableType
<1>4. WorkType' /\ EditType'
  BY DEF Create, workVars, editVars, WorkType, IsBatch, EditType
<1>5. CountType'
  BY DEF Create, runVars, endVars, CountType
<1> QED  BY <1>3, <1>4, <1>5

LEMMA EditIsTyped == ASSUME AllTyped, NEW e \in Editors, Editing(e) PROVE AllTyped'
<1> USE DEF AllTyped, Typed
<1>1. CASE BeginUpdate(e) \/ BeginToggle(e) \/ BeginDelete(e)
  <2>1. TableType' /\ WorkType' /\ EditType'
    BY <1>1, BeginningIsTyped DEF TableType, WorkType, IsBatch
  <2>2. CASE BeginDelete(e)
    <3>1. PICK a \in Automations : runs' = [runs EXCEPT ![a] = 0] /\ wiped' = wiped \cup {a}
      BY <2>2 DEF BeginDelete
    <3>2. runs' \in [Automations -> Nat]
      BY <3>1 DEF CountType
    <3> QED  BY <2>1, <2>2, <3>1, <3>2 DEF BeginDelete, CountType, endVars
  <2>3. CASE BeginUpdate(e) \/ BeginToggle(e)
    BY <2>1, <2>3 DEF BeginUpdate, BeginToggle, runVars, endVars, CountType
  <2> QED  BY <1>1, <2>2, <2>3
<1>2. CASE Load(e)
  <2>3. EditType'
    BY <1>2, LoadIsTyped
  <2>4. TableType' /\ WorkType' /\ CountType'
    BY <1>2 DEF Load, rowVars, workVars, runVars, endVars, TableType, WorkType, IsBatch, CountType
  <2> QED  BY <2>3, <2>4
<1>3. CASE Save(e) \/ DeleteRow(e)
  <2>1. edit[e].of \in Automations
    BY <1>3, SaveIsRow DEF DeleteRow, EditType, Forms
  <2>2. TableType'
    <3>1. row' \in [Automations -> RowType \cup {Unborn, Gone}]
      BY <1>3, <2>1, SaveIsRow DEF DeleteRow, TableType
    <3>2. claimed' \in [Automations -> 0..Horizon + 1] /\ UNCHANGED now
      BY <1>3, <2>1, ClaimConstants DEF Save, DeleteRow, TableType
    <3> QED  BY <3>1, <3>2 DEF TableType
  <2>3. WorkType' /\ CountType'
    BY <1>3 DEF Save, DeleteRow, workVars, runVars, endVars, WorkType, IsBatch, CountType
  <2>4. EditType'
    BY <1>3, DoneIsTyped DEF Save, DeleteRow
  <2> QED  BY <2>2, <2>3, <2>4
<1> QED  BY <1>1, <1>2, <1>3 DEF Editing

LEMMA InitTyped == Init => AllTyped
<1> SUFFICES ASSUME Init PROVE AllTyped
  OBVIOUS
<1>1. Typed
  BY InitClaimInv DEF ClaimInv
<1>2. CountType
  BY ClaimConstants DEF Init, CountType
<1> QED  BY <1>1, <1>2 DEF AllTyped

LEMMA NextTyped == AllTyped /\ [Next]_vars => AllTyped'
<1> SUFFICES ASSUME AllTyped, [Next]_vars PROVE AllTyped'
  OBVIOUS
<1>1. CASE \E w \in Workers : Claiming(w) \/ Crash(w) \/ Restart(w)
  BY <1>1, SelectIsTyped, ComputeIsTyped, CommitIsTyped, LettingGoIsTyped DEF Claiming
<1>2. CASE \E w \in Workers, a \in Automations : Running(w, a)
  BY <1>2, RunIsTyped
<1>3. CASE Tick
  <2>1. TableType'
    BY <1>3, ClaimConstants DEF Tick, AllTyped, Typed, TableType, rowVars
  <2>2. WorkType' /\ EditType'
    BY <1>3 DEF Tick, AllTyped, Typed, workVars, editVars, WorkType, IsBatch, EditType
  <2>3. CountType'
    BY <1>3 DEF Tick, AllTyped, runVars, endVars, CountType
  <2> QED  BY <2>1, <2>2, <2>3 DEF AllTyped, Typed
<1>4. CASE UNCHANGED vars
  <2>1. TableType' /\ WorkType' /\ EditType'
    BY <1>4 DEF vars, AllTyped, Typed, rowVars, workVars, editVars, TableType, WorkType, IsBatch,
       EditType
  <2>2. CountType'
    BY <1>4 DEF vars, AllTyped, runVars, endVars, CountType
  <2> QED  BY <2>1, <2>2 DEF AllTyped, Typed
<1> QED  BY <1>1, <1>2, <1>3, <1>4, CreateIsTyped, EditIsTyped DEF Next

\* The variables stay in their ranges, with row locks or without.
THEOREM ClaimsAreTyped == Spec => []TypeOK
<1>1. AllTyped => TypeOK
  BY DEF AllTyped, Typed, TableType, WorkType, IsBatch, EditType, CountType, TypeOK, Taken
<1> QED  BY <1>1, InitTyped, NextTyped, PTL DEF Spec
-----------------------------------------------------------------------------
\* The workers that are about to start a run of a, and the runs under way.
About(a) == {w \in Workers : pc[w] = "committed" /\ a \in DOMAIN batch[w]}
Runs(a) == [w \in Workers |-> running[w][a]]
Balanced(a) ==
    issued[a] + doubled[a] = Starting(a) + UnderWay(a) + runs[a] + unwritten[a] + lost[a]
Blamed(a) == doubled[a] + unwritten[a] <= faults

\* The entries of the books are numbers.
LEMMA CountsAreNumbers ==
  ASSUME AllTyped, NEW a \in Automations
  PROVE  /\ Runs(a) \in [Workers -> Nat] /\ \A w \in Workers : Runs(a)[w] = running[w][a]
         /\ UnderWay(a) = Cardinality(Tasks(Runs(a))) /\ UnderWay(a) \in Nat
         /\ About(a) \subseteq Workers /\ IsFiniteSet(About(a))
         /\ Starting(a) = Cardinality(About(a)) /\ Starting(a) \in Nat
         /\ {issued[a], runs[a], lost[a], unwritten[a], doubled[a]} \subseteq Nat
<1>1. Runs(a) \in [Workers -> Nat] /\ \A w \in Workers : Runs(a)[w] = running[w][a]
  BY DEF AllTyped, CountType, Runs
<1>2. UNION {{w} \X (1..running[w][a]) : w \in Workers} = Tasks(Runs(a))
  BY DEF Tasks, Runs
<1>3. IsFiniteSet(Tasks(Runs(a)))
  BY <1>1, TasksAreFinite DEF Tasks
<1>4. About(a) \subseteq Workers /\ IsFiniteSet(About(a))
  BY ClaimConstants, FS_Subset DEF About
<1>5. {issued[a], runs[a], lost[a], unwritten[a], doubled[a]} \subseteq Nat
  BY DEF AllTyped, CountType
<1> QED
  BY <1>1, <1>2, <1>3, <1>4, <1>5, FS_CardinalityType DEF Starting, UnderWay, About

\* What one worker does changes the two counts by what it does.
LEMMA CountsOfOne ==
  ASSUME AllTyped, AllTyped', NEW w \in Workers, NEW a \in Automations,
         \A v \in Workers \ {w} : running'[v][a] = running[v][a],
         About(a)' \in {About(a), About(a) \cup {w}, About(a) \ {w}}
  PROVE  /\ UnderWay(a)' - running'[w][a] = UnderWay(a) - running[w][a]
         /\ Starting(a)' = IF w \in About(a)' /\ w \notin About(a) THEN Starting(a) + 1
                           ELSE IF w \in About(a) /\ w \notin About(a)' THEN Starting(a) - 1
                           ELSE Starting(a)
         /\ {Starting(a), UnderWay(a), UnderWay(a)', running[w][a], running'[w][a],
             issued[a], runs[a], lost[a], unwritten[a], doubled[a]} \subseteq Nat
<1>1. /\ Runs(a) \in [Workers -> Nat] /\ Runs(a)' \in [Workers -> Nat]
      /\ \A v \in Workers : Runs(a)[v] = running[v][a] /\ Runs(a)'[v] = running'[v][a]
  BY DEF AllTyped, CountType, Runs
<1>2. UNION {{v} \X (1..running'[v][a]) : v \in Workers} = Tasks(Runs(a)')
  BY DEF Tasks, Runs
<1>3. UnderWay(a)' = Cardinality(Tasks(Runs(a)')) /\ UnderWay(a) = Cardinality(Tasks(Runs(a)))
  BY <1>2, CountsAreNumbers DEF UnderWay
<1>4. Cardinality(Tasks(Runs(a))) - Runs(a)[w] = Cardinality(Tasks(Runs(a)')) - Runs(a)'[w]
  BY <1>1, TasksOfOneChange
<1>5. IsFiniteSet(About(a)) /\ Starting(a) = Cardinality(About(a))
      /\ Starting(a)' = Cardinality(About(a)')
  BY CountsAreNumbers DEF Starting, About
<1>6. Starting(a)' = IF w \in About(a)' /\ w \notin About(a) THEN Starting(a) + 1
                     ELSE IF w \in About(a) /\ w \notin About(a)' THEN Starting(a) - 1
                     ELSE Starting(a)
  <2> DEFINE old == About(a)
             new == About(a)'
  <2>1. new \in {old, old \cup {w}, old \ {w}} /\ IsFiniteSet(old)
    BY <1>5
  <2> HIDE DEF old, new
  <2>2. Cardinality(new) = IF w \in new /\ w \notin old THEN Cardinality(old) + 1
                           ELSE IF w \in old /\ w \notin new THEN Cardinality(old) - 1
                           ELSE Cardinality(old)
    <3>1. CASE new = old
      BY <3>1
    <3>2. CASE new = old \cup {w}
      BY <2>1, <3>2, FS_AddElement
    <3>3. CASE new = old \ {w}
      BY <2>1, <3>3, FS_RemoveElement
    <3> QED  BY <2>1, <3>1, <3>2, <3>3
  <2> QED  BY <1>5, <2>2 DEF old, new
<1>7. {Starting(a), UnderWay(a), issued[a], runs[a], lost[a], unwritten[a], doubled[a]}
         \subseteq Nat
  BY CountsAreNumbers
<1>8. UnderWay(a)' \in Nat /\ running[w][a] \in Nat /\ running'[w][a] \in Nat
  <2>1. IsFiniteSet(Tasks(Runs(a)'))
    BY <1>1, TasksAreFinite DEF Tasks
  <2> QED  BY <1>1, <1>3, <2>1, FS_CardinalityType
<1> QED  BY <1>1, <1>3, <1>4, <1>6, <1>7, <1>8

\* The books balance for an automation of which nothing moves.
LEMMA StillBalanced ==
  ASSUME AllTyped, NEW a \in Automations, Balanced(a),
         \A w \in Workers : running'[w][a] = running[w][a],
         About(a)' = About(a), issued'[a] = issued[a], runs'[a] = runs[a], lost'[a] = lost[a],
         unwritten'[a] = unwritten[a], doubled'[a] = doubled[a]
  PROVE  Balanced(a)'
<1>1. Starting(a)' = Starting(a)
  BY DEF Starting, About
<1>2. UnderWay(a)' = UnderWay(a)
  <2>1. {{w} \X (1..running'[w][a]) : w \in Workers} = {{w} \X (1..running[w][a]) : w \in Workers}
    OBVIOUS
  <2> QED  BY <2>1 DEF UnderWay
<1> QED  BY <1>1, <1>2 DEF Balanced
-----------------------------------------------------------------------------
\* A claim enters the books when it commits and leaves them when its runs start
\* or die with the worker.
LEMMA ClaimingIsBalanced ==
  ASSUME AllTyped, AllTyped', NEW w \in Workers, Claiming(w) \/ Crash(w) \/ Restart(w),
         NEW a \in Automations, Balanced(a)
  PROVE  Balanced(a)'
<1>1. CASE ClaimSelect(w) \/ ClaimCompute(w) \/ ClaimFails(w) \/ NextRound(w) \/ Restart(w)
  <2>1. UNCHANGED <<running, runs, issued, lost, unwritten, doubled>>
    BY <1>1 DEF ClaimSelect, ClaimCompute, ClaimFails, NextRound, Restart, runVars, endVars
  <2>2. About(a)' = About(a)
    <3>1. pc[w] # "committed" /\ pc'[w] # "committed"
      BY <1>1
      DEF AllTyped, Typed, WorkType, ClaimSelect, ClaimCompute, ClaimFails, NextRound, Restart
    <3>2. \A v \in Workers \ {w} : pc'[v] = pc[v] /\ batch'[v] = batch[v]
      BY <1>1
      DEF AllTyped, Typed, WorkType, ClaimSelect, ClaimCompute, ClaimFails, NextRound, Restart
    <3> QED  BY <3>1, <3>2 DEF About
  <2> QED  BY <2>1, <2>2, StillBalanced
<1>2. CASE ClaimCommit(w)
  <2>1. /\ pc[w] = "computed" /\ pc' = [pc EXCEPT ![w] = "committed"]
        /\ UNCHANGED <<batch, running, runs, lost, unwritten, doubled>>
        /\ issued' = [b \in Automations |->
                         IF b \in DOMAIN batch[w] THEN issued[b] + 1 ELSE issued[b]]
    BY <1>2 DEF ClaimCommit, endVars
  <2>2. \A v \in Workers \ {w} : pc'[v] = pc[v]
    BY <2>1 DEF AllTyped, Typed, WorkType
  <2>3. pc'[w] = "committed"
    BY <2>1 DEF AllTyped, Typed, WorkType
  <2>4. w \notin About(a)
    BY <2>1 DEF About
  <2>5. CASE a \in DOMAIN batch[w]
    <3>1. About(a)' = About(a) \cup {w}
      BY <2>1, <2>2, <2>3, <2>5 DEF About
    <3>2. w \in About(a)'
      BY <3>1
    <3> QED
      BY <2>1, <2>4, <2>5, <3>1, <3>2, CountsOfOne DEF Balanced
  <2>6. CASE a \notin DOMAIN batch[w]
    <3>1. About(a)' = About(a)
      BY <2>1, <2>2, <2>6 DEF About
    <3> QED  BY <2>1, <2>6, <3>1, StillBalanced
  <2> QED  BY <2>5, <2>6
<1>3. CASE StartRuns(w)
  <2>1. /\ pc[w] = "committed" /\ pc' = [pc EXCEPT ![w] = "polled"]
        /\ batch' = [batch EXCEPT ![w] = NoBatch]
        /\ UNCHANGED <<issued, runs, lost, unwritten, doubled>>
        /\ running' = [running EXCEPT ![w] =
             [b \in Automations |-> IF b \in DOMAIN batch[w] THEN @[b] + 1 ELSE @[b]]]
    BY <1>3 DEF StartRuns, endVars
  <2>2. \A v \in Workers \ {w} : pc'[v] = pc[v] /\ batch'[v] = batch[v] /\ running'[v] = running[v]
    BY <2>1 DEF AllTyped, Typed, WorkType, CountType
  <2>3. /\ pc'[w] = "polled"
        /\ running'[w][a] = IF a \in DOMAIN batch[w] THEN running[w][a] + 1 ELSE running[w][a]
    BY <2>1 DEF AllTyped, Typed, WorkType, CountType
  <2>4. w \notin About(a)'
    BY <2>3 DEF About
  <2>5. CASE a \in DOMAIN batch[w]
    <3>1. About(a)' = About(a) \ {w} /\ w \in About(a)
      BY <2>1, <2>2, <2>3, <2>5 DEF About
    <3> QED
      BY <2>1, <2>2, <2>3, <2>4, <2>5, <3>1, CountsOfOne DEF Balanced
  <2>6. CASE a \notin DOMAIN batch[w]
    <3>1. About(a)' = About(a)
      BY <2>1, <2>2, <2>3, <2>6 DEF About
    <3> QED  BY <2>1, <2>2, <2>3, <2>6, <3>1, StillBalanced
  <2> QED  BY <2>5, <2>6
<1>4. CASE Crash(w)
  <2>1. /\ pc' = [pc EXCEPT ![w] = "down"] /\ UNCHANGED <<issued, runs, unwritten, doubled>>
        /\ batch' = [batch EXCEPT ![w] = NoBatch]
        /\ running' = [running EXCEPT ![w] = [b \in Automations |-> 0]]
        /\ lost'[a] = lost[a] + running[w][a] + (IF w \in About(a) THEN 1 ELSE 0)
    BY <1>4 DEF Crash, About, endVars
  <2>2. \A v \in Workers \ {w} : pc'[v] = pc[v] /\ batch'[v] = batch[v] /\ running'[v] = running[v]
    BY <2>1 DEF AllTyped, Typed, WorkType, CountType
  <2>3. pc'[w] = "down" /\ running'[w][a] = 0
    BY <2>1 DEF AllTyped, Typed, WorkType, CountType
  <2>4. About(a)' = About(a) \ {w}
    BY <2>2, <2>3 DEF About
  <2>5. running[w][a] \in Nat
    BY DEF AllTyped, CountType
  <2> QED  BY <2>1, <2>2, <2>3, <2>4, <2>5, CountsOfOne DEF Balanced
<1>5. CASE ClaimDropped(w)
  <2>1. /\ pc[w] = "committed" /\ pc' = [pc EXCEPT ![w] = "polled"]
        /\ batch' = [batch EXCEPT ![w] = NoBatch]
        /\ UNCHANGED <<running, issued, runs, unwritten, doubled>>
        /\ lost'[a] = IF a \in DOMAIN batch[w] THEN lost[a] + 1 ELSE lost[a]
    BY <1>5 DEF ClaimDropped, endVars
  <2>2. \A v \in Workers \ {w} : pc'[v] = pc[v] /\ batch'[v] = batch[v]
    BY <2>1 DEF AllTyped, Typed, WorkType
  <2>3. pc'[w] = "polled"
    BY <2>1 DEF AllTyped, Typed, WorkType
  <2>4. w \notin About(a)'
    BY <2>3 DEF About
  <2>5. CASE a \in DOMAIN batch[w]
    <3>1. About(a)' = About(a) \ {w} /\ w \in About(a)
      BY <2>1, <2>2, <2>3, <2>5 DEF About
    <3> QED  BY <2>1, <2>4, <2>5, <3>1, CountsOfOne DEF Balanced
  <2>6. CASE a \notin DOMAIN batch[w]
    <3>1. About(a)' = About(a)
      BY <2>1, <2>2, <2>3, <2>6 DEF About
    <3> QED  BY <2>1, <2>6, <3>1, StillBalanced
  <2> QED  BY <2>5, <2>6
<1> QED  BY <1>1, <1>2, <1>3, <1>4, <1>5 DEF Claiming

LEMMA RunIsBalanced ==
  ASSUME AllTyped, AllTyped', NEW w \in Workers, NEW b \in Automations,
         Running(w, b), NEW a \in Automations, Balanced(a)
  PROVE  Balanced(a)'
<1> USE DEF Running, EndRun, EndRunTwice, EndRunUnwritten, RunNow
<1>1. About(a)' = About(a)
  BY DEF workVars, About
<1>2. \A v \in Workers \ {w} : running'[v][a] = running[v][a]
  BY DEF AllTyped, CountType
<1>3. CASE a # b
  <2>1. /\ running'[w][a] = running[w][a]
        /\ issued'[a] = issued[a] /\ runs'[a] = runs[a] /\ lost'[a] = lost[a]
        /\ unwritten'[a] = unwritten[a] /\ doubled'[a] = doubled[a]
    BY <1>3 DEF AllTyped, CountType, endVars
  <2> QED  BY <1>1, <1>2, <2>1, StillBalanced
<1>4. CASE a = b
  <2>1. /\ Starting(a)' = Starting(a)
        /\ UnderWay(a)' - running'[w][a] = UnderWay(a) - running[w][a]
        /\ {Starting(a), UnderWay(a), UnderWay(a)', running[w][a], issued[a], runs[a], lost[a],
            unwritten[a], doubled[a]} \subseteq Nat
    BY <1>1, <1>2, CountsOfOne
  <2>2. lost'[a] = lost[a]
    OBVIOUS
  <2>3. \/ /\ running'[w][a] = running[w][a] - 1 /\ issued'[a] = issued[a]
           /\ \/ runs'[a] = runs[a] + 1 /\ unwritten'[a] = unwritten[a] /\ doubled'[a] = doubled[a]
              \/ /\ runs'[a] = runs[a] + 2 /\ doubled'[a] = doubled[a] + 1
                 /\ unwritten'[a] = unwritten[a]
              \/ runs'[a] = runs[a] /\ unwritten'[a] = unwritten[a] + 1 /\ doubled'[a] = doubled[a]
        \/ /\ running'[w][a] = running[w][a] + 1 /\ issued'[a] = issued[a] + 1
           /\ runs'[a] = runs[a] /\ unwritten'[a] = unwritten[a] /\ doubled'[a] = doubled[a]
    <3>1. CASE EndRun(w, b)
      BY <1>4, <3>1 DEF AllTyped, CountType, endVars
    <3>2. CASE EndRunTwice(w, b)
      BY <1>4, <3>2 DEF AllTyped, CountType
    <3>3. CASE EndRunUnwritten(w, b)
      BY <1>4, <3>3 DEF AllTyped, CountType
    <3>4. CASE RunNow(w, b)
      BY <1>4, <3>4 DEF AllTyped, CountType, endVars
    <3> QED  BY <3>1, <3>2, <3>3, <3>4
  <2> QED  BY <2>1, <2>2, <2>3 DEF Balanced
<1> QED  BY <1>3, <1>4

\* A row too few or too many is counted as an error, and errors are not forgotten.
LEMMA StillBlamed ==
  ASSUME AllTyped, [Next]_vars, NEW a \in Automations, Blamed(a)
  PROVE  Blamed(a)'
<1>1. faults \in Nat /\ unwritten[a] \in Nat /\ doubled[a] \in Nat
  BY ClaimConstants DEF AllTyped, CountType
<1>2. ASSUME UNCHANGED endVars, faults' \in {faults, faults + 1} PROVE Blamed(a)'
  BY <1>1, <1>2 DEF Blamed, endVars
<1>3. CASE \E w \in Workers : Claiming(w) \/ Crash(w) \/ Restart(w)
  BY <1>2, <1>3
  DEF Claiming, ClaimSelect, ClaimCompute, ClaimCommit, ClaimFails, ClaimDropped, StartRuns,
      NextRound, Crash, Restart, runVars
<1>4. ASSUME NEW w \in Workers, NEW b \in Automations, Running(w, b) PROVE Blamed(a)'
  <2>1. CASE EndRun(w, b) \/ RunNow(w, b)
    BY <1>2, <2>1 DEF EndRun, RunNow
  <2>2. CASE EndRunTwice(w, b)
    <3>1. doubled'[a] \in {doubled[a], doubled[a] + 1} /\ unwritten'[a] = unwritten[a]
      BY <2>2 DEF EndRunTwice, AllTyped, CountType
    <3> QED  BY <1>1, <2>2, <3>1 DEF EndRunTwice, Blamed
  <2>3. CASE EndRunUnwritten(w, b)
    <3>1. unwritten'[a] \in {unwritten[a], unwritten[a] + 1} /\ doubled'[a] = doubled[a]
      BY <2>3 DEF EndRunUnwritten, AllTyped, CountType
    <3> QED  BY <1>1, <2>3, <3>1 DEF EndRunUnwritten, Blamed
  <2> QED  BY <1>4, <2>1, <2>2, <2>3 DEF Running
<1>5. CASE \E e \in Editors : Editing(e)
  BY <1>2, <1>5
  DEF Editing, BeginUpdate, BeginToggle, BeginDelete, Load, Save, DeleteRow, runVars
<1>6. CASE Tick \/ UNCHANGED vars \/ \E b \in Automations : Create(b)
  BY <1>2, <1>6 DEF Tick, Create, vars, runVars
<1> QED  BY <1>3, <1>4, <1>5, <1>6 DEF Next

LEMMA NextBalanced ==
  ASSUME AllTyped, AllTyped', RunsAccounted, [Next]_vars
  PROVE  RunsAccounted'
<1> SUFFICES ASSUME NEW a \in Automations, a \notin wiped' PROVE Balanced(a)' /\ Blamed(a)'
  BY DEF RunsAccounted, Balanced, Blamed
<1>1. wiped \subseteq wiped'
  BY DEF Next, Claiming, Running, Editing, ClaimSelect, ClaimCompute, ClaimCommit, ClaimFails,
     ClaimDropped, StartRuns, NextRound, Crash, Restart, EndRun, EndRunTwice, EndRunUnwritten,
     RunNow, Create, BeginUpdate, BeginToggle, BeginDelete, Load, Save, DeleteRow, Tick, vars,
     runVars
<1>2. Balanced(a) /\ Blamed(a)'
  BY <1>1, StillBlamed DEF RunsAccounted, Balanced, Blamed
<1>3. ASSUME UNCHANGED <<pc, batch, running, issued, lost, endVars>>, runs'[a] = runs[a]
      PROVE  Balanced(a)'
  BY <1>2, <1>3, StillBalanced DEF About, endVars
<1>4. CASE \E w \in Workers : Claiming(w) \/ Crash(w) \/ Restart(w)
  BY <1>2, <1>4, ClaimingIsBalanced
<1>5. CASE \E w \in Workers, b \in Automations : Running(w, b)
  BY <1>2, <1>5, RunIsBalanced
<1>6. ASSUME NEW e \in Editors, Editing(e) PROVE Balanced(a)'
  <2>1. CASE BeginDelete(e)
    BY <1>3, <2>1 DEF BeginDelete, workVars, AllTyped, CountType
  <2>2. CASE ~BeginDelete(e)
    BY <1>3, <1>6, <2>2
    DEF Editing, BeginUpdate, BeginToggle, Load, Save, DeleteRow, workVars, runVars
  <2> QED  BY <2>1, <2>2
<1>7. CASE Tick \/ UNCHANGED vars \/ \E b \in Automations : Create(b)
  BY <1>2, <1>3, <1>7 DEF Tick, Create, vars, workVars, runVars
<1> QED  BY <1>2, <1>4, <1>5, <1>6, <1>7 DEF Next

LEMMA InitBalanced == Init => RunsAccounted
<1> SUFFICES ASSUME Init, NEW a \in Automations PROVE Balanced(a) /\ Blamed(a)
  BY DEF RunsAccounted, Balanced, Blamed
<1>1. {w \in Workers : pc[w] = "committed" /\ a \in DOMAIN batch[w]} = {}
  BY DEF Init
<1>2. UNION {{w} \X (1..running[w][a]) : w \in Workers} = {}
  BY DEF Init
<1>3. /\ issued[a] = 0 /\ runs[a] = 0 /\ lost[a] = 0
      /\ unwritten[a] = 0 /\ doubled[a] = 0 /\ faults = 0
  BY DEF Init
<1>4. Starting(a) = 0
  BY <1>1, FS_EmptySet DEF Starting
<1>5. UnderWay(a) = 0
  BY <1>2, FS_EmptySet DEF UnderWay
<1>6. Balanced(a)
  BY <1>3, <1>4, <1>5 DEF Balanced
<1>7. Blamed(a)
  BY <1>3 DEF Blamed
<1> QED  BY <1>6, <1>7

\* No run is forgotten and none is counted twice, with row locks or without,
\* whichever workers die: what claim_due committed or POST /run asked for is about
\* to start, under way, recorded by _record_run, dropped with its claim or dead,
\* and every run without a row or with two of them has an error to itself.
THEOREM RunsAreAccounted == Spec => []RunsAccounted
<1>1. AllTyped /\ RunsAccounted /\ [Next]_vars => AllTyped' /\ RunsAccounted'
  BY NextTyped, NextBalanced
<1> QED  BY <1>1, InitTyped, InitBalanced, PTL DEF Spec
=============================================================================
