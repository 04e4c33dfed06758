--------------------------- MODULE ServicesProof ----------------------------
(***************************************************************************)
(* What Services promises of its other components, the model list, the     *)
(* directories, the alerts, the locks, the limit and the streamed          *)
(* responses: for any number of processes and requests, any lists, any     *)
(* tree and any length of a response.  One section each, and an invariant  *)
(* each, which the steps of the others do not touch.                       *)
(***************************************************************************)
EXTENDS Services, FiniteSetTheorems, SequenceTheorems, TLAPS

\* A step of Services is one of the component, or leaves the component alone.
LEMMA ServicesStep ==
  ASSUME [Next]_vars
  PROVE  /\ [Models!Next]_(Models!modelVars)
         /\ [Tree!Next]_(Tree!treeVars)
         /\ [Calendar!Next]_(Calendar!vars)
         /\ [Lock!Next]_(Lock!vars)
         /\ [Stream!Next]_(Stream!vars)
         /\ [Limiter!Next]_(Limiter!limiterVars)
<1> USE DEF models, directories, calendar, lock, Models!modelVars, Tree!treeVars, Calendar!vars,
            Calendar!loopVars, Calendar!userVars, Lock!vars, Lock!keyVars, Lock!procVars,
            stream, Stream!vars, Stream!config, Stream!loop, Stream!asked, Stream!history,
            limiter, Limiter!limiterVars
<1>1. CASE UNCHANGED vars
  BY <1>1 DEF vars
<1>2. CASE Next
  BY <1>2 DEF Next, Only
<1> QED  BY <1>1, <1>2

LEMMA ServicesInit ==
  Init => /\ Models!Init /\ Tree!Init /\ Calendar!Init /\ Lock!Init /\ Stream!Init
          /\ Limiter!Init
  BY DEF Init
-----------------------------------------------------------------------------
RemovesStale ==
    setting \in [Writers -> [at : {"idle", "hset", "hdel"}, list : SUBSET UNION Lists,
                             remove : SUBSET ((UNION Lists) \ Models!Common)]]

ModelInv == hash \subseteq UNION Lists /\ RemovesStale

LEMMA InitModelInv == Models!Init => ModelInv
  BY DEF Models!Init, ModelInv, RemovesStale, Models!Nothing

LEMMA IdleShape ==
  Models!Nothing \in [at : {"idle", "hset", "hdel"}, list : SUBSET UNION Lists,
               remove : SUBSET ((UNION Lists) \ Models!Common)]
  BY DEF Models!Nothing

LEMMA NextModelInv == ASSUME ModelInv, [Models!Next]_(Models!modelVars) PROVE ModelInv'
<1> USE DEF ModelInv, RemovesStale
<1>1. ASSUME NEW p \in Writers, Models!Clear(p) PROVE ModelInv'
  BY <1>1 DEF Models!Clear
<1>2. ASSUME NEW p \in Writers, Models!ReadKeys(p) PROVE ModelInv'
  <2>1. PICK list \in Lists \ {{}, signature[p]} :
          setting' = [setting EXCEPT ![p] =
                          [at |-> "hset", list |-> list, remove |-> hash \ list]]
    BY <1>2 DEF Models!ReadKeys
  <2>2. Models!Common \subseteq list
    BY <2>1 DEF Models!Common
  <2>3. hash \ list \in SUBSET ((UNION Lists) \ Models!Common)
    BY <2>2
  <2> QED  BY <1>2, <2>1, <2>3 DEF Models!ReadKeys
<1>3. ASSUME NEW p \in Writers, Models!WriteEntries(p) PROVE ModelInv'
  <2>1. setting[p].list \subseteq UNION Lists
    OBVIOUS
  <2>2. CASE setting[p].remove = {}
    BY <1>3, <2>1, <2>2, IdleShape DEF Models!WriteEntries, Models!EndSet
  <2>3. CASE setting[p].remove # {}
    BY <1>3, <2>1, <2>3 DEF Models!WriteEntries
  <2> QED  BY <2>2, <2>3
<1>4. ASSUME NEW p \in Writers, Models!RemoveEntries(p) PROVE ModelInv'
  BY <1>4, IdleShape DEF Models!RemoveEntries, Models!EndSet
<1>5. ASSUME NEW p \in Writers, Models!SetFails(p) PROVE ModelInv'
  BY <1>5, IdleShape DEF Models!SetFails, Models!EndSet
<1>6. ASSUME NEW p \in Writers, Models!Restart(p) PROVE ModelInv'
  BY <1>6, IdleShape DEF Models!Restart, Models!EndSet
<1>7. CASE UNCHANGED Models!modelVars
  BY <1>7 DEF Models!modelVars
<1> QED  BY <1>1, <1>2, <1>3, <1>4, <1>5, <1>6, <1>7 DEF Models!Next

\* "We never DELETE the whole hash -- this eliminates the race window where
\* concurrent readers would see an empty models dict" (RedisDict.set): a model
\* that every process lists stays in the hash, until a process has no model.
THEOREM CommonModelsStay == Spec => CommonStays
<1>1. ASSUME ModelInv, [Models!Next]_(Models!modelVars)
      PROVE  [\/ Models!Common \cap hash \subseteq hash'
              \/ \E p \in Writers : Models!Clear(p)]_(Models!modelVars)
  <2> USE DEF ModelInv, RemovesStale
  <2>1. ASSUME NEW p \in Writers, Models!ReadKeys(p) PROVE hash' = hash
    BY <2>1 DEF Models!ReadKeys
  <2>2. ASSUME NEW p \in Writers, Models!WriteEntries(p) PROVE hash \subseteq hash'
    BY <2>2 DEF Models!WriteEntries
  <2>3. ASSUME NEW p \in Writers, Models!RemoveEntries(p)
        PROVE  Models!Common \cap hash \subseteq hash'
    BY <1>1, <2>3 DEF Models!RemoveEntries
  <2>4. ASSUME NEW p \in Writers, Models!SetFails(p) \/ Models!Restart(p) PROVE hash' = hash
    BY <2>4 DEF Models!SetFails, Models!Restart
  <2> QED  BY <1>1, <2>1, <2>2, <2>3, <2>4 DEF Models!Next
<1>2. ModelInv /\ [Next]_vars =>
        /\ ModelInv'
        /\ [\/ Models!Common \cap hash \subseteq hash'
            \/ \E p \in Writers : Models!Clear(p)]_(Models!modelVars)
  BY <1>1, ServicesStep, NextModelInv
<1> QED
  BY <1>2, ServicesInit, InitModelInv, PTL DEF Spec, CommonStays, Models!CommonStays
-----------------------------------------------------------------------------
\* While the hash and a list differ in an entry, some process is not where it
\* agrees with that list, or its next call repairs the entry.
Astray(q, list) == q \in alone \/ (setting[q] = Models!Nothing /\ signature[q] # list)

MayLeave(e, list) ==
    \E q \in Writers : \/ Astray(q, list)
                       \/ /\ setting[q].at # "idle"
                          /\ setting[q].list # list \/ e \in setting[q].remove
MayCome(list) ==
    \E q \in Writers : \/ Astray(q, list)
                       \/ setting[q].at = "hset"
                       \/ setting[q].at = "hdel" /\ setting[q].list # list

Repairable ==
    \A list \in Lists : /\ \A e \in hash \ list : MayLeave(e, list)
                        /\ list \ hash # {} => MayCome(list)

Settings ==
    /\ signature \in [Writers -> Lists \cup {Unknown}]
    /\ \A q \in Writers : setting[q].remove \cap setting[q].list = {}
    /\ \A q \in Writers : setting[q].at # "idle" => setting[q].list \in Lists
    /\ \A q \in Writers : setting[q].at = "idle" => setting[q] = Models!Nothing

AgreeInv == ModelInv /\ Settings /\ Repairable

LEMMA InitAgreeInv == Models!Init => AgreeInv
<1> SUFFICES ASSUME Models!Init PROVE AgreeInv
  OBVIOUS
<1>1. ModelInv
  BY InitModelInv
<1>2. Settings
  BY DEF Models!Init, Settings, Models!Nothing
<1>3. Repairable
  BY ModelAssumption DEF Models!Init, Repairable, MayCome, Astray
<1> QED  BY <1>1, <1>2, <1>3 DEF AgreeInv

\* Who leaves the set it was in stays out of the others' way.
LEMMA NextAgreeInv == ASSUME AgreeInv, [Models!Next]_(Models!modelVars) PROVE AgreeInv'
<1> USE DEF AgreeInv, Settings
<1>1. ModelInv'
  BY NextModelInv
<1>2. ASSUME NEW p \in Writers, Models!Clear(p) PROVE AgreeInv'
  <2>1. setting' = setting /\ alone' = alone /\ hash' = {} /\ setting[p] = Models!Nothing
        /\ signature' = [signature EXCEPT ![p] = Unknown]
    BY <1>2 DEF Models!Clear, Models!Begins, Models!Sign
  <2>2. Settings'
    BY <2>1
  <2>3. \A list \in Lists : MayCome(list)'
    BY <2>1, ModelAssumption DEF MayCome, Astray
  <2> QED  BY <1>1, <2>1, <2>2, <2>3 DEF Repairable
<1>3. ASSUME NEW p \in Writers, Models!ReadKeys(p) PROVE AgreeInv'
  <2>1. PICK new \in Lists \ {{}, signature[p]} :
          setting' = [setting EXCEPT ![p] =
                          [at |-> "hset", list |-> new, remove |-> hash \ new]]
    BY <1>3 DEF Models!ReadKeys
  <2>2. UNCHANGED <<hash, signature, alone>> /\ setting[p] = Models!Nothing /\ p \notin alone
    BY <1>3 DEF Models!ReadKeys, Models!Begins
  <2>3. /\ setting'[p] = [at |-> "hset", list |-> new, remove |-> hash \ new]
        /\ \A q \in Writers \ {p} : setting'[q] = setting[q]
    BY <2>1 DEF ModelInv, RemovesStale
  <2>4. Settings'
    BY <2>2, <2>3
  <2>5. ASSUME NEW list \in Lists, NEW e \in hash \ list, MayLeave(e, list)
        PROVE  MayLeave(e, list)'
    BY <2>2, <2>3, <2>5 DEF MayLeave, Astray, Models!Nothing
  <2>6. \A list \in Lists : MayCome(list)'
    BY <2>3 DEF MayCome
  <2> QED  BY <1>1, <2>2, <2>4, <2>5, <2>6 DEF Repairable
<1>4. ASSUME NEW p \in Writers, Models!WriteEntries(p) PROVE AgreeInv'
  <2>1. PICK new \in Lists :
        /\ hash' = hash \cup new /\ alone' = alone
        /\ setting[p].at = "hset" /\ new = setting[p].list
        /\ \A q \in Writers \ {p} : setting'[q] = setting[q] /\ signature'[q] = signature[q]
    BY <1>4 DEF Models!WriteEntries, Models!EndSet, Models!Sign, ModelInv, RemovesStale
  <2>2. \/ /\ setting[p].remove = {} /\ setting'[p] = Models!Nothing
           /\ signature' = [signature EXCEPT ![p] = new]
        \/ /\ setting[p].remove # {} /\ signature' = signature
           /\ setting'[p].at = "hdel" /\ setting'[p].list = new
           /\ setting'[p].remove = setting[p].remove
    BY <1>4, <2>1 DEF Models!WriteEntries, Models!EndSet, Models!Sign, ModelInv, RemovesStale
  <2>3. Settings'
    BY <2>1, <2>2 DEF Models!Nothing
  <2>4. ASSUME NEW list \in Lists, list # new PROVE MayCome(list)' /\ \A e : MayLeave(e, list)'
    BY <2>1, <2>2, <2>4 DEF MayCome, MayLeave, Astray
  <2>5. ASSUME NEW e \in hash' \ new PROVE MayLeave(e, new)'
    <3>1. MayLeave(e, new)
      BY <2>1 DEF Repairable
    <3> QED  BY <2>1, <2>2, <3>1 DEF MayLeave, Astray, Models!Nothing
  <2>6. new \ hash' = {}
    BY <2>1
  <2> QED  BY <1>1, <2>3, <2>4, <2>5, <2>6 DEF Repairable
<1>5. ASSUME NEW p \in Writers, Models!RemoveEntries(p) PROVE AgreeInv'
  <2>1. PICK new \in Lists :
        /\ hash' = hash \ setting[p].remove /\ alone' = alone
        /\ setting[p].at = "hdel" /\ new = setting[p].list
        /\ setting'[p] = Models!Nothing /\ signature' = [signature EXCEPT ![p] = new]
        /\ \A q \in Writers \ {p} : setting'[q] = setting[q] /\ signature'[q] = signature[q]
    BY <1>5 DEF Models!RemoveEntries, Models!EndSet, Models!Sign, ModelInv, RemovesStale
  <2>2. Settings'
    BY <2>1 DEF Models!Nothing
  <2>3. ASSUME NEW list \in Lists, list # new PROVE MayCome(list)' /\ \A e : MayLeave(e, list)'
    BY <2>1, <2>3 DEF MayCome, MayLeave, Astray
  <2>4. ASSUME NEW e \in hash' \ new PROVE MayLeave(e, new)'
    <3>1. MayLeave(e, new) /\ e \notin setting[p].remove
      BY <2>1 DEF Repairable
    <3> QED  BY <2>1, <3>1 DEF MayLeave, Astray, Models!Nothing
  <2>5. ASSUME new \ hash' # {} PROVE MayCome(new)'
    <3>1. MayCome(new)
      BY <2>1, <2>5 DEF Repairable
    <3> QED  BY <2>1, <3>1 DEF MayCome, Astray, Models!Nothing
  <2> QED  BY <1>1, <2>2, <2>3, <2>4, <2>5 DEF Repairable
<1>6. ASSUME NEW p \in Writers, Models!SetFails(p) \/ Models!Restart(p) PROVE AgreeInv'
  <2>1. /\ hash' = hash /\ setting'[p] = Models!Nothing
        /\ p \in alone' \/ signature'[p] = Unknown
        /\ signature' \in [Writers -> Lists \cup {Unknown}]
        /\ \A q \in Writers \ {p} : setting'[q] = setting[q]
    BY <1>6 DEF Models!SetFails, Models!Restart, Models!EndSet, Models!Sign, ModelInv, RemovesStale
  <2>2. Settings'
    BY <2>1 DEF Models!Nothing
  <2>3. \A list \in Lists : MayCome(list)' /\ \A e : MayLeave(e, list)'
    BY <2>1, ModelAssumption DEF MayCome, MayLeave, Astray
  <2> QED  BY <1>1, <2>2, <2>3 DEF Repairable
<1>7. CASE UNCHANGED Models!modelVars
  BY <1>1, <1>7 DEF Models!modelVars, Repairable, MayCome, MayLeave, Astray
<1> QED  BY <1>2, <1>3, <1>4, <1>5, <1>6, <1>7 DEF Models!Next

\* When all processes have written the same list last, the hash is that list,
\* so the signatures rightly suppress further writes (RedisDict.set).
THEOREM AgreedListIsStored == Spec => []AgreedIsStored
<1>1. AgreeInv => AgreedIsStored
  <2> SUFFICES ASSUME AgreeInv, NEW list \in Lists, Models!Agreed(list) PROVE hash = list
    BY DEF AgreedIsStored, Models!AgreedIsStored
  <2>1. \A q \in Writers : /\ q \notin alone /\ setting[q] = Models!Nothing
                           /\ signature[q] = list
    BY DEF Models!Agreed
  <2>2. ~MayCome(list) /\ \A e : ~MayLeave(e, list)
    BY <2>1 DEF MayCome, MayLeave, Astray, Models!Nothing
  <2> QED  BY <2>2 DEF AgreeInv, Repairable
<1>2. AgreeInv /\ [Next]_vars => AgreeInv'
  BY ServicesStep, NextAgreeInv
<1> QED  BY <1>1, <1>2, ServicesInit, InitAgreeInv, PTL DEF Spec
-----------------------------------------------------------------------------
\* Requests that move directories do not overlap.
OneMover == \A m, n \in Movers : m = n

\* No directory is below one whose id has not been used yet.
FreshIsUnknown ==
    /\ parent \in [Dirs -> (Dirs \ fresh) \cup {Root, NoRow}]
    /\ fresh \subseteq Dirs

Walks == [at : {"walk"}, dir : Dirs, to : Dirs \cup {Root}, cur : Tree!Nodes, seen : SUBSET Dirs]

\* The walk has not met the directory it moves, and everything it has seen has
\* its parent in it too, or where the walk goes next, or has none.
WalkKnows(w) ==
    /\ w \in Walks
    /\ {w.to, w.cur} \cup w.seen \subseteq Tree!Nodes \ fresh
    /\ w.dir \notin w.seen
    /\ w.to \in w.seen \cup {w.cur}
    /\ \A e \in w.seen : parent[e] \in w.seen \cup {w.cur, Root, NoRow}

WalksKnow ==
    /\ move \in [Movers -> {Tree!Free} \cup Walks]
    /\ \A m \in Movers : move[m] # Tree!Free => WalkKnows(move[m])

TreeInv == FreshIsUnknown /\ WalksKnow /\ Tree!NoCycle

\* There is nothing at first.
LEMMA InitTreeInv == Tree!Init => TreeInv
  BY TreeAssumption DEF Tree!Init, TreeInv, FreshIsUnknown, WalksKnow, Tree!NoCycle
-----------------------------------------------------------------------------
\* Nobody has named the new directory as parent, so it closes no cycle, and no
\* walk has seen it.
LEMMA CreateStep ==
  ASSUME TreeInv, NEW d \in Dirs, NEW p \in Dirs \cup {Root}, Tree!Create(d, p)
  PROVE  TreeInv'
<1> USE DEF TreeInv
<1>1. FreshIsUnknown'
  BY DEF Tree!Create, Tree!Known, FreshIsUnknown
<1>2. WalksKnow'
  <2> SUFFICES ASSUME NEW m \in Movers, move[m] # Tree!Free PROVE WalkKnows(move[m])'
    BY DEF Tree!Create, WalksKnow
  <2>1. WalkKnows(move[m]) /\ d \notin move[m].seen
    BY DEF WalksKnow, WalkKnows, Tree!Create
  <2> QED  BY <2>1 DEF Tree!Create, WalkKnows, Walks, Tree!Nodes, FreshIsUnknown
<1>3. Tree!NoCycle'
  <2> SUFFICES ASSUME NEW S \in SUBSET Dirs, S # {}, \A e \in S : parent'[e] \in S PROVE FALSE
    BY DEF Tree!NoCycle
  <2>1. \A e \in Dirs \ {d} : parent'[e] = parent[e] /\ parent[e] # d
    BY TreeAssumption DEF Tree!Create, FreshIsUnknown, TreeAssumption
  <2>2. d \in S => p \in S /\ p # d
    BY TreeAssumption DEF Tree!Create, Tree!Known, FreshIsUnknown, TreeAssumption
  <2>3. S \ {d} # {}
    BY <2>2
  <2>4. \A e \in S \ {d} : parent[e] \in S \ {d}
    BY <2>1
  <2> QED  BY <2>3, <2>4 DEF Tree!NoCycle
<1> QED  BY <1>1, <1>2, <1>3

\* The walk has seen nothing.
LEMMA MoveBeginStep ==
  ASSUME TreeInv,
         NEW m \in Movers, NEW d \in Dirs, NEW to \in Dirs \cup {Root}, Tree!MoveBegin(m, d, to)
  PROVE  TreeInv'
<1> USE DEF TreeInv
<1> DEFINE w == [at |-> "walk", dir |-> d, to |-> to, cur |-> to, seen |-> {}]
<1>1. w \in Walks /\ WalkKnows(w)
  BY TreeAssumption
  DEF Tree!MoveBegin, Tree!Known, FreshIsUnknown, Walks, WalkKnows, Tree!Nodes, TreeAssumption
<1>2. WalksKnow'
  BY <1>1 DEF Tree!MoveBegin, WalksKnow, WalkKnows
<1> QED  BY <1>2 DEF Tree!MoveBegin, FreshIsUnknown, Tree!NoCycle

\* One step up: the directory just seen has its parent where the walk goes next.
LEMMA MoveWalkStep ==
  ASSUME TreeInv, NEW m \in Movers, Tree!MoveWalk(m)
  PROVE  TreeInv'
<1> USE DEF TreeInv
<1> DEFINE w == move[m]
           c == w.cur
<1>1. w \in Walks /\ WalkKnows(w) /\ c \in Dirs \ w.seen /\ c # w.dir
  BY DEF Tree!MoveWalk, Tree!Walking, Tree!MeetsItself, WalksKnow, Tree!Free
<1>2. move' = [move EXCEPT ![m] = [w EXCEPT !.seen = w.seen \cup {c}, !.cur = parent[c]]]
  BY <1>1 DEF Tree!MoveWalk, WalksKnow, Walks
<1>3. parent[c] \in Tree!Nodes \ fresh
  BY <1>1, TreeAssumption DEF FreshIsUnknown, Tree!Nodes, TreeAssumption
<1> DEFINE v == [w EXCEPT !.seen = w.seen \cup {c}, !.cur = parent[c]]
<1>4. v \in Walks
  BY <1>1, <1>3 DEF Walks
<1>5. /\ v.dir = w.dir /\ v.to = w.to
      /\ v.seen = w.seen \cup {c} /\ v.cur = parent[c]
  BY <1>1 DEF Walks
<1>6. WalkKnows(v)
  BY <1>1, <1>3, <1>4, <1>5 DEF WalkKnows
<1>7. WalksKnow'
  BY <1>2, <1>4, <1>6, ZenonT(60) DEF Tree!MoveWalk, WalksKnow, WalkKnows
<1> QED  BY <1>7 DEF Tree!MoveWalk, FreshIsUnknown, Tree!NoCycle

\* The walk has met the directory: nothing is moved.
LEMMA MoveRefusedStep ==
  ASSUME TreeInv, NEW m \in Movers, Tree!MoveRefused(m)
  PROVE  TreeInv'
  BY DEF TreeInv, Tree!MoveRefused, FreshIsUnknown, WalksKnow, WalkKnows, Tree!NoCycle

\* The walk is over, so what it has seen is closed under parents, does not hold
\* the directory that moves, and holds the new parent: a cycle would have been
\* among the ancestors of the new parent before.
LEMMA MoveUpdateStep ==
  ASSUME OneMover, TreeInv, NEW m \in Movers, Tree!MoveUpdate(m)
  PROVE  TreeInv'
<1> USE DEF TreeInv
<1> DEFINE w == move[m]
<1>1. w \in Walks /\ WalkKnows(w) /\ w.cur \notin Dirs \ w.seen
  BY DEF Tree!MoveUpdate, Tree!Walking, WalksKnow, Tree!Free, Walks
<1>2. \A e \in w.seen : parent[e] \in w.seen \cup {Root, NoRow}
  BY <1>1 DEF WalkKnows, Tree!Nodes, Walks
<1>3. w.to \in w.seen \/ w.to \notin Dirs
  BY <1>1, TreeAssumption DEF WalkKnows, Walks, Tree!Nodes, TreeAssumption
<1>4. FreshIsUnknown'
  BY <1>1, TreeAssumption
  DEF Tree!MoveUpdate, FreshIsUnknown, WalkKnows, Walks, Tree!Nodes, TreeAssumption
<1>5. WalksKnow'
  BY OneMover DEF Tree!MoveUpdate, WalksKnow, OneMover
<1>6. Tree!NoCycle'
  <2> SUFFICES ASSUME NEW S \in SUBSET Dirs, S # {}, \A e \in S : parent'[e] \in S PROVE FALSE
    BY DEF Tree!NoCycle
  <2>1. \A e \in Dirs \ {w.dir} : parent'[e] = parent[e]
    BY DEF Tree!MoveUpdate, FreshIsUnknown
  <2>2. CASE w.dir \notin S \/ w.dir \notin Tree!Rows
    <3>1. \A e \in S : parent'[e] = parent[e]
      BY <2>1, <2>2 DEF Tree!MoveUpdate
    <3> QED  BY <3>1 DEF Tree!NoCycle
  <2>3. CASE w.dir \in S /\ w.dir \in Tree!Rows
    <3>1. w.to \in S
      BY <2>3 DEF Tree!MoveUpdate, FreshIsUnknown, Tree!Rows
    <3>2. w.to \in w.seen \cap S
      BY <1>3, <3>1
    <3>3. ASSUME NEW e \in w.seen \cap S PROVE parent[e] \in w.seen \cap S
      BY <1>1, <1>2, <2>1, <3>3, TreeAssumption DEF WalkKnows, TreeAssumption
    <3> QED  BY <3>2, <3>3 DEF Tree!NoCycle
  <2> QED  BY <2>2, <2>3
<1> QED  BY <1>4, <1>5, <1>6

\* A row that goes takes no part in a cycle.
LEMMA DeleteCommitStep ==
  ASSUME TreeInv, NEW x \in Deleters, Tree!DeleteCommit(x)
  PROVE  TreeInv'
<1> USE DEF TreeInv
<1>1. \A e \in Dirs : parent'[e] \in {parent[e], NoRow}
  BY DEF Tree!DeleteCommit, FreshIsUnknown
<1>2. FreshIsUnknown'
  BY DEF Tree!DeleteCommit, FreshIsUnknown
<1>3. WalksKnow'
  <2> SUFFICES ASSUME NEW m \in Movers, move[m] # Tree!Free PROVE WalkKnows(move[m])'
    BY DEF Tree!DeleteCommit, WalksKnow
  <2>1. WalkKnows(move[m])
    BY DEF WalksKnow
  <2> QED  BY <1>1, <2>1 DEF Tree!DeleteCommit, WalkKnows, Walks
<1>4. Tree!NoCycle'
  <2> SUFFICES ASSUME NEW S \in SUBSET Dirs, S # {}, \A e \in S : parent'[e] \in S PROVE FALSE
    BY DEF Tree!NoCycle
  <2>1. \A e \in S : parent[e] \in S
    BY <1>1, TreeAssumption
  <2> QED  BY <2>1 DEF Tree!NoCycle
<1> QED  BY <1>2, <1>3, <1>4
-----------------------------------------------------------------------------
\* Every step keeps the tree; those of the files and the loads leave it alone.
LEMMA NextTreeInv ==
  ASSUME OneMover, TreeInv, [Tree!Next]_(Tree!treeVars)
  PROVE  TreeInv'
<1>1. ASSUME NEW x \in Deleters, NEW d \in Dirs, NEW keep \in BOOLEAN, Tree!DeleteLoad(x, d, keep)
      PROVE  TreeInv'
  BY <1>1 DEF Tree!DeleteLoad, TreeInv, FreshIsUnknown, WalksKnow, WalkKnows, Tree!NoCycle
<1>2. ASSUME NEW v \in Filers, NEW f \in Files, NEW to \in Dirs \cup {Root},
             Tree!FileCheck(v, f, to)
      PROVE  TreeInv'
  BY <1>2 DEF Tree!FileCheck, TreeInv, FreshIsUnknown, WalksKnow, WalkKnows, Tree!NoCycle
<1>3. ASSUME NEW v \in Filers, Tree!FileUpdate(v) PROVE TreeInv'
  BY <1>3 DEF Tree!FileUpdate, TreeInv, FreshIsUnknown, WalksKnow, WalkKnows, Tree!NoCycle
<1>4. CASE UNCHANGED Tree!treeVars
  BY <1>4 DEF Tree!treeVars, TreeInv, FreshIsUnknown, WalksKnow, WalkKnows, Tree!NoCycle
<1> QED
  BY <1>1, <1>2, <1>3, <1>4, CreateStep, MoveBeginStep, MoveWalkStep, MoveRefusedStep,
     MoveUpdateStep, DeleteCommitStep
  DEF Tree!Next

\* move_directory, "Move a directory to a new parent, with cycle detection": it
\* does detect them all, although directories are created and deleted between
\* the walk and the update, as long as no other directory is moved meanwhile.
THEOREM NoDirectoryBelowItself == ASSUME OneMover PROVE Spec => []NoCycle
<1>1. TreeInv => NoCycle
  BY DEF TreeInv, NoCycle
<1>2. TreeInv /\ [Next]_vars => TreeInv'
  BY ServicesStep, NextTreeInv
<1> QED  BY <1>1, <1>2, ServicesInit, InitTreeInv, PTL DEF Spec
-----------------------------------------------------------------------------
AlertSteps == {"sleep", "alert", "mark", "marking", "rest", "down"}
Options == Leads \cup {Default, Silent}
EventRows == [start : EventStarts, lead : Options, alerted : BOOLEAN, cancelled : BOOLEAN,
              there : BOOLEAN]

AlertType ==
    /\ now \in Nat /\ written \in Nat /\ event \in EventRows
    /\ userPc \in {"idle", "loaded"}
    /\ userPc = "loaded" => loaded \in EventRows /\ form \in EventRows
    /\ alertPc \in [AlertWorkers -> AlertSteps] /\ failed \subseteq AlertWorkers
    /\ timer \in [AlertWorkers -> Nat] /\ budget \in [AlertWorkers -> Nat]
    /\ found \in [AlertWorkers -> EventStarts]
    /\ loadedLead \in [AlertWorkers -> Options \cup {NoRow}]
    /\ \A w \in AlertWorkers : alertPc[w] = "marking" => loadedLead[w] \in Options

\* Nobody moves the event.
Unmoved ==
    /\ \A w \in AlertWorkers : found[w] = event.start
    /\ userPc = "loaded" => form.start = event.start /\ loaded.start = event.start

\* Who marks the event as alerted, or has it marked, has alerted.
Marked ==
    /\ event.alerted => event.start \in alerted
    /\ userPc = "loaded" /\ loaded.alerted => event.start \in alerted
    /\ \A w \in AlertWorkers :
           alertPc[w] \in {"mark", "marking"} => event.start \in alerted

\* An alert that w owes: the event is on, and has been since it started, and no
\* round of w has failed since then.
Owed(w) ==
    /\ event.there /\ ~event.cancelled /\ event.lead # Silent
    /\ written <= event.start /\ event.start \notin alerted /\ w \notin failed

\* The longest that a worker sleeps.
Pause == Poll + Jitter + AlertStall

\* How long w may take until it scans, or until its round is over; if an alert is
\* owed then its next scan comes in time, or has come and the alert follows.
Prompt(w) ==
    /\ alertPc[w] # "down"
    /\ alertPc[w] = "sleep" => budget[w] <= Pause
    /\ alertPc[w] # "sleep" => budget[w] <= MaxRound
    /\ Owed(w) /\ now > event.start =>
           \/ alertPc[w] = "sleep" /\ now + budget[w] <= event.start + Grace
           \/ alertPc[w] = "alert" /\ now + budget[w] <= event.start + Grace + MaxRound
           \/ alertPc[w] = "rest" /\ now + budget[w] + Pause <= event.start + Grace

AlertInv(w) == AlertType /\ Unmoved /\ Marked /\ Prompt(w)

Numbers ==
    /\ Poll \in Nat /\ Jitter \in Nat /\ Grace \in Nat /\ Lookahead \in Nat
    /\ AlertStall \in Nat /\ MaxRound \in Nat /\ Pause = Poll + Jitter + AlertStall

LEMMA AlertNumbers == Numbers /\ EventStarts \subseteq Nat /\ Leads \subseteq Nat
  BY CalendarAssumption DEF Numbers, Pause

LEMMA InitAlert ==
  ASSUME NEW w \in AlertWorkers, Calendar!Init
  PROVE  AlertInv(w)
<1> USE AlertNumbers DEF Numbers, Calendar!Init
<1>1. event \in EventRows /\ event.start \in EventStarts /\ event.alerted = FALSE
  BY DEF EventRows, Options
<1>2. timer \in [AlertWorkers -> 0..Poll + Jitter] /\ timer[w] \in Nat /\ timer[w] <= Poll + Jitter
  OBVIOUS
<1>3. AlertType
  BY <1>1, <1>2 DEF AlertType, AlertSteps
<1>4. Unmoved /\ Marked
  BY <1>1 DEF Unmoved, Marked
<1>5. Prompt(w)
  <2>1. budget[w] = timer[w] + AlertStall /\ alertPc[w] = "sleep" /\ now = 0
    OBVIOUS
  <2>2. event.start \in Nat
    BY <1>1
  <2> QED  BY ONLY <1>2, <2>1, <2>2, AlertNumbers DEF Numbers, Prompt
<1> QED  BY <1>3, <1>4, <1>5 DEF AlertInv

\* A worker goes on, at once or after a sleep.
LEMMA GoToKeeps ==
  ASSUME AlertType, NEW v \in AlertWorkers, NEW l \in AlertSteps, NEW d \in Nat,
         NEW most \in Nat, Calendar!GoTo(v, l, d, most)
  PROVE  /\ alertPc' \in [AlertWorkers -> AlertSteps]
         /\ timer' \in [AlertWorkers -> Nat] /\ budget' \in [AlertWorkers -> Nat]
         /\ alertPc'[v] = l /\ budget'[v] = most
         /\ \A w \in AlertWorkers \ {v} : alertPc'[w] = alertPc[w] /\ budget'[w] = budget[w]
  BY DEF Calendar!GoTo, AlertType

LEMMA GoOnKeeps ==
  ASSUME AlertType, NEW v \in AlertWorkers, NEW l \in AlertSteps, Calendar!GoOn(v, l)
  PROVE  /\ alertPc' \in [AlertWorkers -> AlertSteps]
         /\ timer' \in [AlertWorkers -> Nat] /\ budget' \in [AlertWorkers -> Nat]
         /\ alertPc'[v] = l /\ budget' = budget
         /\ \A w \in AlertWorkers \ {v} : alertPc'[w] = alertPc[w]
  BY DEF Calendar!GoOn, AlertType

LEMMA SleepKeeps ==
  ASSUME AlertType, NEW v \in AlertWorkers, Calendar!Sleep(v)
  PROVE  /\ alertPc' \in [AlertWorkers -> AlertSteps]
         /\ timer' \in [AlertWorkers -> Nat] /\ budget' \in [AlertWorkers -> Nat]
         /\ alertPc'[v] = "sleep" /\ budget'[v] <= Pause
         /\ \A w \in AlertWorkers \ {v} : alertPc'[w] = alertPc[w] /\ budget'[w] = budget[w]
<1> USE AlertNumbers DEF Numbers
<1>1. PICK j \in 0..Jitter : Calendar!GoTo(v, "sleep", Poll + j, Poll + j + AlertStall)
  BY DEF Calendar!Sleep
<1>2. /\ Poll + j \in Nat /\ Poll + j + AlertStall \in Nat /\ "sleep" \in AlertSteps
      /\ Poll + j + AlertStall <= Pause
  BY DEF AlertSteps
<1> QED  BY <1>1, <1>2, GoToKeeps

\* An alert is owed to an event that a scan within the grace window finds.
LEMMA OwedIsFound ==
  ASSUME NEW w \in AlertWorkers, AlertType, Marked, Owed(w), now > event.start,
         now <= event.start + Grace
  PROVE  Calendar!Upcoming /\ ~event.alerted
<1> USE AlertNumbers DEF Numbers
<1>1. event.start \in Nat /\ event.lead \in Options /\ now \in Nat
  BY DEF AlertType, EventRows
<1>2. event.start <= now + (IF event.lead = Default THEN Lookahead ELSE event.lead)
  <2>1. CASE event.lead = Default
    BY <1>1, <2>1
  <2>2. CASE event.lead # Default
    <3>1. event.lead \in Nat
      BY <1>1, <2>2 DEF Owed, Options
    <3> QED  BY <1>1, <2>2, <3>1
  <2> QED  BY <2>1, <2>2
<1> QED  BY <1>2 DEF Calendar!Upcoming, Owed, Marked

\* The workers' steps that leave the event alone.
LEMMA WorkerStep ==
  ASSUME NEW w \in AlertWorkers, AlertInv(w), NEW v \in AlertWorkers, v = w => v \notin Mortal,
         \/ Calendar!Scan(v) \/ Calendar!RoundFails(v) \/ Calendar!Alert(v)
         \/ Calendar!MarkLoad(v) \/ Calendar!MarkFails(v) \/ Calendar!Notify(v)
         \/ Calendar!Die(v) \/ Calendar!Restart(v)
  PROVE  AlertInv(w)'
<1> USE AlertNumbers DEF Numbers, AlertInv
<1>0. event \in EventRows /\ event.start \in Nat /\ event.lead \in Options /\ now \in Nat
      /\ written \in Nat /\ budget[w] \in Nat /\ event.start \in EventStarts
  BY DEF AlertType, EventRows
<1>s. /\ "sleep" \in AlertSteps /\ "alert" \in AlertSteps /\ "mark" \in AlertSteps
      /\ "marking" \in AlertSteps /\ "rest" \in AlertSteps /\ "down" \in AlertSteps
  BY DEF AlertSteps
<1>1. CASE Calendar!Scan(v)
  <2>0. /\ alertPc[v] = "sleep"
        /\ UNCHANGED <<now, event, loadedLead, userPc, form, loaded, edits, failed, written,
                       alerted>>
    BY <1>1 DEF Calendar!Scan, Calendar!userVars
  <2>1. CASE Calendar!Upcoming /\ ~event.alerted
    <3>1. Calendar!GoTo(v, "alert", 0, MaxRound) /\ found' = [found EXCEPT ![v] = event.start]
      BY <1>1, <2>1 DEF Calendar!Scan
    <3>3. /\ alertPc' \in [AlertWorkers -> AlertSteps]
          /\ timer' \in [AlertWorkers -> Nat] /\ budget' \in [AlertWorkers -> Nat]
          /\ alertPc'[v] = "alert" /\ budget'[v] = MaxRound
          /\ \A u \in AlertWorkers \ {v} : alertPc'[u] = alertPc[u] /\ budget'[u] = budget[u]
      BY <1>s, <3>1, GoToKeeps
    <3>4. now <= event.start + Grace
      BY <2>1 DEF Calendar!Upcoming
    <3>5. AlertType'
      BY <1>0, <2>0, <3>1, <3>3 DEF AlertType
    <3>6. Unmoved' /\ Marked'
      BY <1>0, <2>0, <3>1, <3>3 DEF AlertType, Unmoved, Marked
    <3>7. Prompt(w)'
      BY <1>0, <2>0, <3>3, <3>4 DEF Prompt, Owed
    <3> QED  BY <3>5, <3>6, <3>7
  <2>2. CASE ~(Calendar!Upcoming /\ ~event.alerted)
    <3>1. Calendar!GoTo(v, "rest", 0, MaxRound) /\ found' = found
      BY <1>1, <2>2 DEF Calendar!Scan
    <3>3. /\ alertPc' \in [AlertWorkers -> AlertSteps]
          /\ timer' \in [AlertWorkers -> Nat] /\ budget' \in [AlertWorkers -> Nat]
          /\ alertPc'[v] = "rest" /\ budget'[v] = MaxRound
          /\ \A u \in AlertWorkers \ {v} : alertPc'[u] = alertPc[u] /\ budget'[u] = budget[u]
      BY <1>s, <3>1, GoToKeeps
    <3>4. ~(v = w /\ Owed(w) /\ now > event.start)
      <4> SUFFICES ASSUME v = w, Owed(w), now > event.start PROVE FALSE
        OBVIOUS
      <4>1. now + budget[w] <= event.start + Grace
        BY <2>0 DEF Prompt
      <4> QED  BY <1>0, <2>2, <4>1, OwedIsFound
    <3>5. AlertType'
      BY <1>0, <2>0, <3>1, <3>3 DEF AlertType
    <3>6. Unmoved' /\ Marked'
      BY <1>0, <2>0, <3>1, <3>3 DEF AlertType, Unmoved, Marked
    <3>7. Prompt(w)'
      BY <1>0, <2>0, <3>3, <3>4 DEF Prompt, Owed
    <3> QED  BY <3>5, <3>6, <3>7
  <2> QED  BY <2>1, <2>2
<1>2. CASE Calendar!Alert(v)
  <2>1. /\ Calendar!GoOn(v, "mark") /\ alerted' = alerted \cup {event.start}
        /\ UNCHANGED <<now, event, found, loadedLead, userPc, form, loaded, edits, failed,
                       written>>
    BY <1>2 DEF Calendar!Alert, Calendar!userVars, Unmoved
  <2>2. /\ alertPc' \in [AlertWorkers -> AlertSteps]
        /\ timer' \in [AlertWorkers -> Nat] /\ budget' \in [AlertWorkers -> Nat]
        /\ alertPc'[v] = "mark" /\ budget' = budget
        /\ \A u \in AlertWorkers \ {v} : alertPc'[u] = alertPc[u]
    BY <1>s, <2>1, GoOnKeeps
  <2>3. AlertType'
    BY <2>1, <2>2 DEF AlertType
  <2>4. Unmoved' /\ Marked'
    BY <2>1, <2>2 DEF Unmoved, Marked
  <2>5. Prompt(w)'
    BY <1>0, <1>2, <2>1, <2>2 DEF Prompt, Owed, Calendar!Alert
  <2> QED  BY <2>3, <2>4, <2>5
<1>3. CASE Calendar!MarkLoad(v)
  <2> DEFINE goal == IF event.there THEN "marking" ELSE "rest"
  <2>1. /\ alertPc[v] = "mark" /\ Calendar!GoOn(v, goal)
        /\ loadedLead' = [loadedLead EXCEPT ![v] = IF event.there THEN event.lead ELSE NoRow]
        /\ UNCHANGED <<now, event, found, userPc, form, loaded, edits, failed, written, alerted>>
    BY <1>3 DEF Calendar!MarkLoad, Calendar!userVars
  <2>2. goal \in AlertSteps
    BY <1>s
  <2>3. /\ alertPc' \in [AlertWorkers -> AlertSteps]
        /\ timer' \in [AlertWorkers -> Nat] /\ budget' \in [AlertWorkers -> Nat]
        /\ alertPc'[v] = goal /\ budget' = budget
        /\ \A u \in AlertWorkers \ {v} : alertPc'[u] = alertPc[u]
    BY <2>1, <2>2, GoOnKeeps
  <2>4. AlertType'
    BY <1>0, <2>1, <2>3 DEF AlertType
  <2>5. Unmoved' /\ Marked'
    BY <2>1, <2>3 DEF Unmoved, Marked
  <2>6. Prompt(w)'
    BY <1>0, <2>1, <2>3 DEF Prompt, Owed, Marked
  <2> QED  BY <2>4, <2>5, <2>6
<1>4. CASE Calendar!MarkFails(v)
  <2>1. /\ alertPc[v] \in {"mark", "marking"} /\ Calendar!GoOn(v, "rest")
        /\ loadedLead' = [loadedLead EXCEPT ![v] = NoRow]
        /\ UNCHANGED <<now, event, found, userPc, form, loaded, edits, failed, written, alerted>>
    BY <1>4 DEF Calendar!MarkFails, Calendar!userVars
  <2>3. /\ alertPc' \in [AlertWorkers -> AlertSteps]
        /\ timer' \in [AlertWorkers -> Nat] /\ budget' \in [AlertWorkers -> Nat]
        /\ alertPc'[v] = "rest" /\ budget' = budget
        /\ \A u \in AlertWorkers \ {v} : alertPc'[u] = alertPc[u]
    BY <1>s, <2>1, GoOnKeeps
  <2>4. AlertType'
    BY <1>0, <2>1, <2>3 DEF AlertType
  <2>5. Unmoved' /\ Marked'
    BY <2>1, <2>3 DEF Unmoved, Marked
  <2>6. Prompt(w)'
    BY <1>0, <2>1, <2>3 DEF Prompt, Owed, Marked
  <2> QED  BY <2>4, <2>5, <2>6
<1>5. CASE Calendar!Notify(v) \/ Calendar!RoundFails(v)
  <2>1. /\ Calendar!Sleep(v)
        /\ \/ alertPc[v] = "rest" /\ failed' = failed
           \/ failed' = IF now > event.start THEN failed \cup {v} ELSE failed
        /\ UNCHANGED <<now, event, found, loadedLead, userPc, form, loaded, edits, written,
                       alerted>>
    BY <1>5 DEF Calendar!Notify, Calendar!RoundFails, Calendar!userVars
  <2>3. /\ alertPc' \in [AlertWorkers -> AlertSteps]
        /\ timer' \in [AlertWorkers -> Nat] /\ budget' \in [AlertWorkers -> Nat]
        /\ alertPc'[v] = "sleep" /\ budget'[v] <= Pause
        /\ \A u \in AlertWorkers \ {v} : alertPc'[u] = alertPc[u] /\ budget'[u] = budget[u]
    BY <2>1, SleepKeeps
  <2>4. AlertType'
    BY <1>0, <2>1, <2>3 DEF AlertType
  <2>5. Unmoved' /\ Marked'
    BY <2>1, <2>3 DEF Unmoved, Marked
  <2>6. Prompt(w)'
    <3>1. CASE v = w
      <4>1. budget'[w] \in Nat /\ budget'[w] <= Pause /\ alertPc'[w] = "sleep"
        BY <2>3, <3>1
      <4>2. ASSUME Owed(w)', now' > event'.start
            PROVE  now' + budget'[w] <= event'.start + Grace
        <5>1. alertPc[w] = "rest" /\ Owed(w)
          BY <2>1, <3>1, <4>2 DEF Owed
        <5>2. now + budget[w] + Pause <= event.start + Grace
          BY <2>1, <4>2, <5>1 DEF Prompt
        <5> QED  BY <1>0, <2>1, <4>1, <5>2
      <4> QED  BY <4>1, <4>2 DEF Prompt
    <3>2. CASE v # w
      <4>1. alertPc'[w] = alertPc[w] /\ budget'[w] = budget[w] /\ (w \in failed' <=> w \in failed)
        BY <2>1, <2>3, <3>2
      <4> QED  BY <1>0, <2>1, <4>1 DEF Prompt, Owed
    <3> QED  BY <3>1, <3>2
  <2> QED  BY <2>4, <2>5, <2>6
<1>6. CASE Calendar!Die(v)
  <2>1. /\ v # w /\ Calendar!GoTo(v, "down", 0, 0)
        /\ loadedLead' = [loadedLead EXCEPT ![v] = NoRow]
        /\ UNCHANGED <<now, event, found, userPc, form, loaded, edits, failed, written, alerted>>
    BY <1>6 DEF Calendar!Die, Calendar!userVars
  <2>3. /\ alertPc' \in [AlertWorkers -> AlertSteps]
        /\ timer' \in [AlertWorkers -> Nat] /\ budget' \in [AlertWorkers -> Nat]
        /\ alertPc'[v] = "down"
        /\ \A u \in AlertWorkers \ {v} : alertPc'[u] = alertPc[u] /\ budget'[u] = budget[u]
    BY <1>s, <2>1, GoToKeeps
  <2>4. AlertType'
    BY <1>0, <2>1, <2>3 DEF AlertType
  <2>5. Unmoved' /\ Marked'
    BY <2>1, <2>3 DEF Unmoved, Marked
  <2>6. Prompt(w)'
    BY <1>0, <2>1, <2>3 DEF Prompt, Owed
  <2> QED  BY <2>4, <2>5, <2>6
<1>7. CASE Calendar!Restart(v)
  <2>1. /\ alertPc[v] = "down" /\ v # w /\ Calendar!GoTo(v, "sleep", 0, AlertStall)
        /\ UNCHANGED <<now, event, found, loadedLead, userPc, form, loaded, edits, failed,
                       written, alerted>>
    BY <1>7 DEF Calendar!Restart, Calendar!userVars, Prompt
  <2>3. /\ alertPc' \in [AlertWorkers -> AlertSteps]
        /\ timer' \in [AlertWorkers -> Nat] /\ budget' \in [AlertWorkers -> Nat]
        /\ alertPc'[v] = "sleep"
        /\ \A u \in AlertWorkers \ {v} : alertPc'[u] = alertPc[u] /\ budget'[u] = budget[u]
    BY <1>s, <2>1, GoToKeeps
  <2>4. AlertType'
    BY <1>0, <2>1, <2>3 DEF AlertType
  <2>5. Unmoved' /\ Marked'
    BY <2>1, <2>3 DEF Unmoved, Marked
  <2>6. Prompt(w)'
    BY <1>0, <2>1, <2>3 DEF Prompt, Owed
  <2> QED  BY <2>4, <2>5, <2>6
<1> QED  BY <1>1, <1>2, <1>3, <1>4, <1>5, <1>6, <1>7

\* The event is marked as alerted.
LEMMA MarkStep ==
  ASSUME NEW w \in AlertWorkers, AlertInv(w), NEW v \in AlertWorkers, Calendar!MarkWrite(v)
  PROVE  AlertInv(w)'
<1> USE AlertNumbers DEF Numbers, AlertInv
<1>0. event \in EventRows /\ event.start \in Nat /\ now \in Nat /\ loadedLead[v] \in Options
      /\ budget[w] \in Nat /\ event.start \in alerted
  BY DEF AlertType, EventRows, Calendar!MarkWrite, Marked
<1>1. /\ alertPc[v] = "marking" /\ Calendar!GoOn(v, "rest")
      /\ event' = [event EXCEPT !.alerted = TRUE, !.lead = loadedLead[v]]
      /\ loadedLead' = [loadedLead EXCEPT ![v] = NoRow]
      /\ UNCHANGED <<now, found, userPc, form, loaded, edits, failed, written, alerted>>
  BY DEF Calendar!MarkWrite, Calendar!userVars
<1>2. event' \in EventRows /\ event'.start = event.start
  BY <1>0, <1>1 DEF EventRows
<1>3. /\ alertPc' \in [AlertWorkers -> AlertSteps]
      /\ timer' \in [AlertWorkers -> Nat] /\ budget' \in [AlertWorkers -> Nat]
      /\ alertPc'[v] = "rest" /\ budget' = budget
      /\ \A u \in AlertWorkers \ {v} : alertPc'[u] = alertPc[u]
  <2>1. "rest" \in AlertSteps
    BY DEF AlertSteps
  <2> QED  BY <1>1, <2>1, GoOnKeeps
<1>4. AlertType'
  BY <1>1, <1>2, <1>3 DEF AlertType
<1>5. Unmoved' /\ Marked'
  BY <1>0, <1>1, <1>2, <1>3 DEF Unmoved, Marked
<1>6. Prompt(w)'
  BY <1>0, <1>1, <1>2, <1>3 DEF Prompt, Owed
<1> QED  BY <1>4, <1>5, <1>6

\* The edits; none moves the event.
LEMMA EditStep ==
  ASSUME NEW w \in AlertWorkers, AlertInv(w), Moves = FALSE,
         Calendar!EditLoad \/ Calendar!EditWrite \/ Calendar!Delete
  PROVE  AlertInv(w)'
<1> USE AlertNumbers DEF Numbers, AlertInv
<1>0. event \in EventRows /\ event.start \in Nat /\ now \in Nat /\ budget[w] \in Nat
  BY DEF AlertType, EventRows
<1>1. CASE Calendar!EditLoad
  <2>1. PICK lead \in Options, off \in BOOLEAN :
          form' = [event EXCEPT !.start = event.start, !.lead = lead, !.cancelled = off]
    BY <1>1 DEF Calendar!EditLoad, Options
  <2>2. form' \in EventRows /\ form'.start = event.start
    BY <1>0, <2>1 DEF EventRows
  <2>3. /\ loaded' = event /\ userPc' = "loaded"
        /\ UNCHANGED <<now, event, alertPc, timer, budget, found, loadedLead, failed, written,
                       alerted>>
    BY <1>1 DEF Calendar!EditLoad, Calendar!loopVars
  <2>4. AlertType'
    BY <1>0, <2>2, <2>3 DEF AlertType
  <2>5. Unmoved' /\ Marked'
    BY <2>2, <2>3 DEF Unmoved, Marked
  <2>6. Prompt(w)'
    BY <2>3 DEF Prompt, Owed
  <2> QED  BY <2>4, <2>5, <2>6
<1>2. CASE Calendar!EditWrite
  <2>1. /\ userPc = "loaded" /\ userPc' = "idle" /\ written' = now
        /\ UNCHANGED <<now, alertPc, timer, budget, found, loadedLead, alerted>>
    BY <1>2 DEF Calendar!EditWrite, Calendar!loopVars
  <2>2. loaded \in EventRows /\ form \in EventRows /\ form.start = loaded.start
    BY <2>1 DEF AlertType, Unmoved
  <2>3. event' \in EventRows /\ event'.start = event.start
        /\ (event'.alerted => event.alerted \/ loaded.alerted)
    <3>1. CASE ~event.there
      BY <1>0, <1>2, <3>1 DEF Calendar!EditWrite
    <3>2. CASE event.there
      <4> DEFINE a == IF form.start # loaded.start THEN form.start ELSE event.start
                 b == IF form.cancelled # loaded.cancelled THEN form.cancelled ELSE event.cancelled
                 c == IF form.lead # loaded.lead THEN form.lead ELSE event.lead
                 d == IF form.lead # loaded.lead THEN loaded.alerted ELSE event.alerted
      <4>1. event' = [event EXCEPT !.start = a, !.cancelled = b, !.lead = c, !.alerted = d]
        BY <1>2, <3>2 DEF Calendar!EditWrite
      <4>2. /\ a \in EventStarts /\ a = event.start /\ b \in BOOLEAN /\ c \in Options
            /\ d \in BOOLEAN /\ (d => event.alerted \/ loaded.alerted)
        BY <1>0, <2>2 DEF EventRows
      <4> HIDE DEF a, b, c, d
      <4> QED  BY <1>0, <4>1, <4>2 DEF EventRows
    <3> QED  BY <3>1, <3>2
  <2>7. failed' = failed
    BY <1>2, <2>3 DEF Calendar!EditWrite
  <2>4. AlertType'
    BY <2>1, <2>3, <2>7 DEF AlertType
  <2>5. Unmoved' /\ Marked'
    BY <2>1, <2>3 DEF Unmoved, Marked
  <2>6. Prompt(w)'
    BY <1>0, <2>1, <2>3, <2>7 DEF Prompt, Owed
  <2> QED  BY <2>4, <2>5, <2>6
<1>3. CASE Calendar!Delete
  <2>1. /\ event' = [event EXCEPT !.there = FALSE]
        /\ UNCHANGED <<now, alertPc, timer, budget, found, loadedLead, userPc, form, loaded,
                       failed, written, alerted>>
    BY <1>3 DEF Calendar!Delete, Calendar!loopVars
  <2>2. event' \in EventRows /\ event'.start = event.start /\ event'.there = FALSE
        /\ event'.alerted = event.alerted
    BY <1>0, <2>1 DEF EventRows
  <2>4. AlertType'
    BY <2>1, <2>2 DEF AlertType
  <2>5. Unmoved' /\ Marked'
    BY <2>1, <2>2 DEF Unmoved, Marked
  <2>6. Prompt(w)'
    BY <1>0, <2>1, <2>2 DEF Prompt, Owed
  <2> QED  BY <2>4, <2>5, <2>6
<1> QED  BY <1>1, <1>2, <1>3

\* While time passes w does not lose the time it has left for its next step.
LEMMA AlertTick ==
  ASSUME NEW w \in AlertWorkers, AlertInv(w), MaxRound + Pause <= Grace, Calendar!Tick
  PROVE  AlertInv(w)'
<1> USE AlertNumbers DEF Numbers, AlertInv
<1>0. event \in EventRows /\ event.start \in Nat /\ now \in Nat /\ budget[w] \in Nat
      /\ written \in Nat
  BY DEF AlertType, EventRows
<1>1. /\ now' = now + 1 /\ budget[w] > 0 /\ budget'[w] = budget[w] - 1
      /\ UNCHANGED <<event, alertPc, found, loadedLead, userPc, form, loaded, failed, written,
                     alerted>>
  BY <1>0 DEF Calendar!Tick, Calendar!userVars, Calendar!Minus1, Prompt
<1>2. timer' \in [AlertWorkers -> Nat] /\ budget' \in [AlertWorkers -> Nat]
  BY DEF Calendar!Tick, Calendar!Minus1, AlertType
<1>3. AlertType'
  BY <1>0, <1>1, <1>2 DEF AlertType
<1>4. Unmoved' /\ Marked'
  BY <1>1 DEF Unmoved, Marked
<1>5. Prompt(w)'
  <2>1. alertPc'[w] # "down"
    BY <1>1 DEF Prompt
  <2>2. /\ alertPc[w] = "sleep" => budget[w] <= Pause
        /\ alertPc[w] # "sleep" => budget[w] <= MaxRound
    BY DEF Prompt
  <2>3. ASSUME Owed(w)', now' > event'.start
        PROVE  \/ alertPc'[w] = "sleep" /\ now' + budget'[w] <= event'.start + Grace
               \/ alertPc'[w] = "alert" /\ now' + budget'[w] <= event'.start + Grace + MaxRound
               \/ alertPc'[w] = "rest" /\ now' + budget'[w] + Pause <= event'.start + Grace
    <3>1. Owed(w)
      BY <1>1, <2>3 DEF Owed
    <3>2. CASE now > event.start
      BY <1>0, <1>1, <3>1, <3>2 DEF Prompt
    <3>3. CASE now = event.start
      <4>1. alertPc[w] \in {"sleep", "alert", "rest"}
        BY <2>1, <3>1 DEF Owed, Marked, AlertType, AlertSteps, Prompt
      <4> QED  BY <1>0, <1>1, <2>2, <3>3, <4>1
    <3> QED  BY <1>0, <1>1, <2>3, <3>2, <3>3
  <2> QED  BY <1>0, <1>1, <2>1, <2>2, <2>3 DEF Prompt
<1> QED  BY <1>3, <1>4, <1>5

LEMMA NextAlert ==
  ASSUME NEW w \in AlertWorkers \ Mortal, AlertInv(w), Moves = FALSE,
         MaxRound + Pause <= Grace, [Calendar!Next]_(Calendar!vars)
  PROVE  AlertInv(w)'
<1>1. \A v \in AlertWorkers : Calendar!Step(v) => AlertInv(w)'
  BY WorkerStep, MarkStep DEF Calendar!Step
<1>2. CASE UNCHANGED Calendar!vars
  <2> USE <1>2 DEF Calendar!vars, Calendar!loopVars, Calendar!userVars, AlertInv
  <2>1. AlertType'
    BY DEF AlertType
  <2>2. Unmoved' /\ Marked'
    BY DEF Unmoved, Marked
  <2>3. Prompt(w)'
    BY DEF Prompt, Owed
  <2> QED  BY <2>1, <2>2, <2>3
<1> QED  BY <1>1, <1>2, EditStep, AlertTick DEF Calendar!Next

AlertsInv == \A w \in AlertWorkers \ Mortal : AlertInv(w)

LEMMA AlertsCome == AlertsInv => Calendar!NotMissed
<1> SUFFICES ASSUME AlertsInv, ~(AlertWorkers \subseteq Mortal \cup failed),
                    event.there, ~event.cancelled, event.lead # Silent,
                    written <= event.start, now > event.start + Grace + MaxRound,
                    event.start \notin alerted
             PROVE  FALSE
  BY DEF Calendar!NotMissed
<1> USE AlertNumbers DEF Numbers
<1>1. PICK w \in AlertWorkers \ Mortal : w \notin failed
  OBVIOUS
<1>2. AlertInv(w)
  BY DEF AlertsInv
<1>3. event.start \in Nat /\ now \in Nat /\ budget[w] \in Nat
  BY <1>2 DEF AlertInv, AlertType, EventRows
<1>4. Owed(w) /\ now > event.start
  BY <1>1, <1>3 DEF Owed
<1> QED  BY <1>2, <1>3, <1>4 DEF AlertInv, Prompt

\* "Grace window covers one poll cycle + jitter so 'At time of event' alerts
\* (alert_minutes=0) are not missed" (_check_calendar_alerts): if it covers what a
\* round takes too, then with any number of instances, whatever they mark, lose or
\* edit and whichever die or have a round fail, as long as one of them does neither
\* and nobody moves the event.
THEOREM EventsAreNotMissed ==
  ASSUME Moves = FALSE, MaxRound + (Poll + Jitter + AlertStall) <= Grace
  PROVE  Spec => []NotMissed
<1>0. MaxRound + Pause <= Grace
  BY DEF Pause
<1>1. Init => AlertsInv
  BY ServicesInit, InitAlert DEF AlertsInv
<1>2. AlertsInv => NotMissed
  BY AlertsCome DEF NotMissed
<1>3. AlertsInv /\ [Next]_vars => AlertsInv'
  <2>1. ASSUME NEW w \in AlertWorkers \ Mortal, AlertInv(w), [Next]_vars PROVE AlertInv(w)'
    BY <1>0, <2>1, ServicesStep, NextAlert
  <2> QED  BY <2>1 DEF AlertsInv
<1> QED  BY <1>1, <1>2, <1>3, PTL DEF Spec
-----------------------------------------------------------------------------
LockSteps == Lock!Active \cup {"off", "skipped", "exited", "dead"}

LockType ==
    /\ value \in LockProcs \cup {NoOwner} /\ ttl \in Nat
    /\ pc \in [LockProcs -> LockSteps]
    /\ lockTimer \in [LockProcs -> Nat]
    /\ tries \in [LockProcs -> Nat]
    /\ deadAtBoot \in [LockProcs -> SUBSET LockProcs]
    /\ ttl <= Timeout /\ (value # NoOwner => ttl > 0)

StillDead == \A p \in LockProcs : \A d \in deadAtBoot[p] : pc[d] = "dead"

\* The lock of a process that was dead when p started: what is left of its life
\* is what p has not yet waited, each time for at least `least` ticks.
Waited(least) ==
    \A p \in LockProcs :
        /\ pc[p] = "off" => tries[p] = 0
        /\ value \in deadAtBoot[p] /\ pc[p] = "acquire" => ttl + least * tries[p] <= Timeout
        /\ value \in deadAtBoot[p] /\ pc[p] = "retry" =>
               ttl + least * tries[p] <= Timeout + lockTimer[p]

WaitInv(least) == LockType /\ StillDead /\ Waited(least)

LEMMA InitWait == ASSUME NEW least \in Nat, Lock!Init PROVE WaitInv(least)
  BY LockAssumption DEF Lock!Init, WaitInv, LockSteps, LockType, StillDead, Waited

\* A process goes on.
LEMMA LockGoTo ==
  ASSUME LockType, NEW p \in LockProcs, NEW l, NEW d \in Nat, Lock!GoTo(p, l, d),
         l \in LockSteps
  PROVE  /\ pc' \in [LockProcs -> LockSteps]
         /\ lockTimer' \in [LockProcs -> Nat]
         /\ pc'[p] = l /\ lockTimer'[p] = d
         /\ \A q \in LockProcs \ {p} : pc'[q] = pc[q] /\ lockTimer'[q] = lockTimer[q]
  BY DEF Lock!GoTo, LockType

\* Steps in which a process that is neither dead nor waiting, or stops to wait,
\* goes on with the key as it is, gone or its own.
LEMMA OtherStep ==
  ASSUME NEW least \in Nat, WaitInv(least), NEW p \in LockProcs, NEW l,
         pc[p] \in Lock!Active \cup {"skipped", "exited"},
         l \in {"renew", "release", "pass", "sleep", "delete", "exited", "skipped", "dead"},
         pc' \in [LockProcs -> LockSteps],
         lockTimer' \in [LockProcs -> Nat], pc'[p] = l,
         \A q \in LockProcs \ {p} : pc'[q] = pc[q] /\ lockTimer'[q] = lockTimer[q],
         \/ value' = value /\ ttl' = ttl
         \/ value' = p /\ ttl' = Timeout
         \/ value' = NoOwner /\ ttl' = 0,
         UNCHANGED <<tries, deadAtBoot>>
  PROVE  WaitInv(least)'
<1> USE LockAssumption DEF WaitInv
<1>1. pc[p] # "dead" /\ pc[p] # "off"
  BY DEF Lock!Active, Lock!Looping
<1>2. \A q \in LockProcs : p \notin deadAtBoot[q] /\ NoOwner \notin deadAtBoot[q]
  BY <1>1 DEF StillDead, LockType
<1>3. LockType'
  BY DEF LockType
<1>4. StillDead'
  BY <1>2 DEF StillDead, LockType
<1>5. Waited(least)'
  <2> SUFFICES ASSUME NEW q \in LockProcs
               PROVE  /\ pc'[q] = "off" => tries'[q] = 0
                      /\ value' \in deadAtBoot'[q] /\ pc'[q] = "acquire" =>
                             ttl' + least * tries'[q] <= Timeout
                      /\ value' \in deadAtBoot'[q] /\ pc'[q] = "retry" =>
                             ttl' + least * tries'[q] <= Timeout + lockTimer'[q]
    BY DEF Waited
  <2>1. value' \in deadAtBoot'[q] => value' = value /\ ttl' = ttl
    BY <1>2
  <2>2. CASE q = p
    BY <2>2
  <2>3. CASE q # p
    BY <2>1, <2>3 DEF Waited
  <2> QED  BY <2>2, <2>3
<1> QED  BY <1>3, <1>4, <1>5

LEMMA LoopStep ==
  ASSUME NEW least \in Nat, WaitInv(least), NEW p \in LockProcs,
         \/ Lock!Acquire(p) \/ Lock!Skip(p) \/ Lock!Renew(p) \/ Lock!CleanPass(p)
         \/ Lock!PassRaises(p) \/ Lock!WakeToRenew(p) \/ Lock!ReleaseRead(p)
         \/ Lock!ReleaseDelete(p) \/ Lock!Die(p)
  PROVE  WaitInv(least)'
<1> USE LockAssumption DEF LockSteps, Lock!Active, Lock!Looping
<1> DEFINE Goes(l) == /\ pc' \in [LockProcs -> LockSteps]
                      /\ lockTimer' \in [LockProcs -> Nat] /\ pc'[p] = l
                      /\ \A q \in LockProcs \ {p} : pc'[q] = pc[q] /\ lockTimer'[q] = lockTimer[q]
           Goals == {"renew", "release", "pass", "sleep", "delete", "exited", "skipped", "dead"}
<1>1. LockType
  BY DEF WaitInv
<1>2. \A l \in Goals, d \in Nat : Lock!GoTo(p, l, d) => Goes(l)
  BY <1>1, LockGoTo
<1>3. pc[p] \in Lock!Active \cup {"skipped", "exited"} /\ UNCHANGED <<tries, deadAtBoot>>
  BY DEF Lock!Acquire, Lock!Skip, Lock!Renew, Lock!CleanPass, Lock!PassRaises, Lock!WakeToRenew,
         Lock!ReleaseRead, Lock!ReleaseDelete, Lock!Die, Lock!procVars
<1>4. \/ value' = value /\ ttl' = ttl
      \/ value' = p /\ ttl' = Timeout
      \/ value' = NoOwner /\ ttl' = 0
  BY DEF Lock!Acquire, Lock!Skip, Lock!Renew, Lock!CleanPass, Lock!PassRaises, Lock!WakeToRenew,
         Lock!ReleaseRead, Lock!ReleaseDelete, Lock!Die, Lock!keyVars, Lock!SetKey, Lock!EndLoop
<1>5. \E l \in Goals : Goes(l)
  <2>1. CASE Lock!WakeToRenew(p)
    <3>1. pc' = [pc EXCEPT ![p] = "renew"] /\ lockTimer' = lockTimer
      BY <2>1 DEF Lock!WakeToRenew
    <3> QED  BY <1>1, <3>1 DEF LockType
  <2>2. CASE ~Lock!WakeToRenew(p)
    <3>1. \E l \in Goals, d \in Nat : Lock!GoTo(p, l, d)
      BY <2>2 DEF Lock!Acquire, Lock!Skip, Lock!Renew, Lock!CleanPass, Lock!PassRaises,
                  Lock!ReleaseRead, Lock!ReleaseDelete, Lock!Die, Lock!EndLoop
    <3> QED  BY <1>2, <3>1
  <2> QED  BY <2>1, <2>2
<1> QED  BY <1>3, <1>4, <1>5, OtherStep

LEMMA BootStep ==
  ASSUME NEW least \in Nat, WaitInv(least), NEW p \in LockProcs, Lock!Boot(p)
  PROVE  WaitInv(least)'
<1> USE LockAssumption DEF WaitInv
<1>1. /\ pc[p] = "off"
      /\ deadAtBoot' = [deadAtBoot EXCEPT ![p] = {q \in LockProcs : pc[q] = "dead"}]
      /\ Lock!GoTo(p, "acquire", 0) /\ UNCHANGED <<value, ttl, tries>>
  BY DEF Lock!Boot, Lock!keyVars
<1>2. /\ pc' \in [LockProcs -> LockSteps]
      /\ lockTimer' \in [LockProcs -> Nat] /\ pc'[p] = "acquire"
      /\ \A q \in LockProcs \ {p} : pc'[q] = pc[q] /\ lockTimer'[q] = lockTimer[q]
  BY <1>1, LockGoTo DEF LockSteps, Lock!Active
<1>3. LockType'
  BY <1>1, <1>2 DEF LockType
<1>4. StillDead'
  BY <1>1, <1>2 DEF StillDead, LockType
<1>5. Waited(least)'
  <2>1. tries[p] = 0 /\ least * tries[p] = 0 /\ ttl <= Timeout /\ ttl \in Nat
    BY <1>1 DEF Waited, LockType
  <2> QED  BY <1>1, <1>2, <2>1 DEF Waited, LockType
<1> QED  BY <1>3, <1>4, <1>5

LEMMA RetryStep ==
  ASSUME NEW least \in Nat, WaitInv(least), \A d \in RetryDelays : least <= d,
         NEW p \in LockProcs, Lock!AcquireFails(p) \/ Lock!WakeToRetry(p)
  PROVE  WaitInv(least)'
<1> USE LockAssumption DEF WaitInv
<1>1. CASE Lock!AcquireFails(p)
  <2>1. PICK d \in RetryDelays : Lock!GoTo(p, "retry", d)
    BY <1>1 DEF Lock!AcquireFails
  <2>2. /\ pc[p] = "acquire" /\ tries' = [tries EXCEPT ![p] = tries[p] + 1]
        /\ UNCHANGED <<value, ttl, deadAtBoot>>
    BY <1>1 DEF Lock!AcquireFails, Lock!keyVars
  <2>3. /\ pc' \in [LockProcs -> LockSteps]
        /\ lockTimer' \in [LockProcs -> Nat] /\ pc'[p] = "retry" /\ lockTimer'[p] = d
        /\ \A q \in LockProcs \ {p} : pc'[q] = pc[q] /\ lockTimer'[q] = lockTimer[q]
    BY <2>1, LockGoTo DEF LockSteps, Lock!Active
  <2>4. LockType'
    <3>1. tries[p] + 1 \in Nat
      BY DEF LockType
    <3>2. tries' \in [LockProcs -> Nat]
      BY <2>2, <3>1 DEF LockType
    <3> QED  BY <2>2, <2>3, <3>2 DEF LockType
  <2>5. StillDead'
    BY <2>2, <2>3 DEF StillDead, LockType
  <2>6. Waited(least)'
    <3>1. tries[p] \in Nat /\ ttl \in Nat /\ least <= d /\ d \in Nat /\ tries'[p] = tries[p] + 1
      BY <2>2 DEF LockType
    <3>2. least * (tries[p] + 1) = least * tries[p] + least /\ least * tries[p] \in Nat
      BY <3>1
    <3>3. value \in deadAtBoot[p] => ttl + least * tries[p] <= Timeout
      BY <2>2 DEF Waited
    <3>4. value \in deadAtBoot[p] => ttl + least * tries'[p] <= Timeout + d
      BY <3>1, <3>2, <3>3
    <3> QED  BY <2>2, <2>3, <3>4 DEF Waited, LockType
  <2> QED  BY <2>4, <2>5, <2>6
<1>2. CASE Lock!WakeToRetry(p)
  <2>1. /\ pc[p] = "retry" /\ lockTimer[p] = 0 /\ Lock!GoTo(p, "acquire", 0)
        /\ UNCHANGED <<value, ttl, tries, deadAtBoot>>
    BY <1>2 DEF Lock!WakeToRetry, Lock!keyVars, Lock!procVars
  <2>3. /\ pc' \in [LockProcs -> LockSteps]
        /\ lockTimer' \in [LockProcs -> Nat] /\ pc'[p] = "acquire"
        /\ \A q \in LockProcs \ {p} : pc'[q] = pc[q] /\ lockTimer'[q] = lockTimer[q]
    BY <2>1, LockGoTo DEF LockSteps, Lock!Active
  <2>4. LockType'
    BY <2>1, <2>3 DEF LockType
  <2>5. StillDead'
    BY <2>1, <2>3 DEF StillDead, LockType
  <2>6. Waited(least)'
    BY <2>1, <2>3 DEF Waited, LockType
  <2> QED  BY <2>4, <2>5, <2>6
<1> QED  BY <1>1, <1>2

LEMMA LockTick ==
  ASSUME NEW least \in Nat, WaitInv(least), Lock!Tick
  PROVE  WaitInv(least)'
<1> USE LockAssumption DEF WaitInv
<1>1. UNCHANGED <<pc, tries, deadAtBoot>> /\ ttl \in Nat /\ ttl' = (IF ttl > 0 THEN ttl - 1 ELSE 0)
      /\ value' = (IF ttl' = 0 THEN NoOwner ELSE value)
  BY DEF Lock!Tick, Lock!procVars, Lock!Minus1, LockType
<1>2. lockTimer' \in [LockProcs -> Nat]
      /\ \A q \in LockProcs : lockTimer'[q] = (IF lockTimer[q] > 0 THEN lockTimer[q] - 1 ELSE 0)
  BY DEF Lock!Tick, Lock!Minus1, LockType
<1>3. LockType'
  BY <1>1, <1>2 DEF LockType
<1>4. StillDead'
  BY <1>1 DEF StillDead
<1>5. Waited(least)'
  <2> SUFFICES ASSUME NEW q \in LockProcs
               PROVE  /\ pc'[q] = "off" => tries'[q] = 0
                      /\ value' \in deadAtBoot'[q] /\ pc'[q] = "acquire" =>
                             ttl' + least * tries'[q] <= Timeout
                      /\ value' \in deadAtBoot'[q] /\ pc'[q] = "retry" =>
                             ttl' + least * tries'[q] <= Timeout + lockTimer'[q]
    BY DEF Waited
  <2>1. value' \in deadAtBoot'[q] => value' = value /\ ttl > 0 /\ ttl' = ttl - 1
    BY <1>1 DEF LockType
  <2>2. least * tries[q] \in Nat /\ lockTimer[q] \in Nat
    BY DEF LockType
  <2> DEFINE waited == least * tries[q]
  <2>3. /\ pc[q] = "off" => tries[q] = 0
        /\ value \in deadAtBoot[q] /\ pc[q] = "acquire" => ttl + waited <= Timeout
        /\ value \in deadAtBoot[q] /\ pc[q] = "retry" => ttl + waited <= Timeout + lockTimer[q]
    BY DEF Waited
  <2>4. waited' = waited /\ waited \in Nat
    BY <1>1, <2>2
  <2> HIDE DEF waited
  <2>5. /\ pc'[q] = "off" => tries'[q] = 0
        /\ value' \in deadAtBoot'[q] /\ pc'[q] = "acquire" => ttl' + waited <= Timeout
        /\ value' \in deadAtBoot'[q] /\ pc'[q] = "retry" => ttl' + waited <= Timeout + lockTimer'[q]
    BY <1>1, <1>2, <2>1, <2>2, <2>3, <2>4
  <2> QED  BY <1>1, <2>5 DEF waited
<1> QED  BY <1>3, <1>4, <1>5

LEMMA NextWait ==
  ASSUME NEW least \in Nat, WaitInv(least), \A d \in RetryDelays : least <= d,
         [Lock!Next]_(Lock!vars)
  PROVE  WaitInv(least)'
<1>1. CASE UNCHANGED Lock!vars
  <2> USE <1>1 DEF Lock!vars, Lock!keyVars, Lock!procVars, WaitInv
  <2>1. LockType' /\ StillDead'
    BY DEF LockType, StillDead
  <2>2. Waited(least)'
    BY DEF Waited
  <2> QED  BY <2>1, <2>2
<1> QED  BY <1>1, LoopStep, BootStep, RetryStep, LockTick
         DEF Lock!Next, Lock!Starting, Lock!Cleaning, Lock!Ending, Lock!Outside

\* The last failed attempt is after the end of the lock of a dead process.
LEMMA NoSkipForTheDead ==
  ASSUME NEW least \in Nat, WaitInv(least), (Attempts - 1) * least >= Timeout,
         NEW p \in LockProcs, Lock!Skip(p)
  PROVE  value \notin deadAtBoot[p]
<1> USE LockAssumption
<1> SUFFICES ASSUME value \in deadAtBoot[p] PROVE FALSE
  OBVIOUS
<1>1. pc[p] = "acquire" /\ value # NoOwner /\ ~(tries[p] + 1 < Attempts)
  BY DEF Lock!Skip, Lock!MoreTries
<1>2. ttl + least * tries[p] <= Timeout /\ ttl > 0 /\ ttl \in Nat /\ tries[p] \in Nat
  BY <1>1 DEF WaitInv, Waited, LockType
<1>3. PICK k \in Nat : tries[p] = (Attempts - 1) + k
  <2>1. tries[p] - (Attempts - 1) \in Nat
    BY <1>1, <1>2
  <2> QED  BY <1>2, <2>1
<1>4. least * tries[p] = (Attempts - 1) * least + least * k /\ least * k >= 0
  BY <1>3
<1> QED  BY <1>2, <1>4

\* Of the attempts of periodic_usage_pool_cleanup, "random.uniform(
\* WEBSOCKET_REDIS_LOCK_TIMEOUT / 2, WEBSOCKET_REDIS_LOCK_TIMEOUT)" apart, the
\* last comes after the end of a lock that a dead process left: whoever gives up
\* does so for a process that was up when it started, however slow they all are.
THEOREM DeadLocksRunOut ==
  ASSUME NEW least \in Nat, \A d \in RetryDelays : least <= d,
         (Attempts - 1) * least >= Timeout
  PROVE  Spec => SkipsOnlyForTheLiving
<1>1. Init => WaitInv(least)
  BY ServicesInit, InitWait
<1>2. WaitInv(least) /\ [Next]_vars =>
        /\ WaitInv(least)'
        /\ [\A p \in LockProcs : Lock!Skip(p) => value \notin deadAtBoot[p]]_(Lock!vars)
  BY ServicesStep, NextWait, NoSkipForTheDead
<1> QED
  BY <1>1, <1>2, PTL DEF Spec, SkipsOnlyForTheLiving, Lock!SkipsOnlyForTheLiving
-----------------------------------------------------------------------------
\* A bucket begins at its number times its length and ends before the next one.
LEMMA BucketBounds ==
  ASSUME NEW a \in Nat, NEW d \in Nat \ {0}
  PROVE  a \div d \in Nat /\ (a \div d) * d <= a /\ a < (a \div d) * d + d
  OBVIOUS

LEMMA BucketsApart ==
  ASSUME NEW q \in Nat, NEW r \in Nat, NEW d \in Nat \ {0}
  PROVE  /\ q <= r => q * d <= r * d
         /\ q < r => q * d + d <= r * d
         /\ q * d < r * d => q < r
  OBVIOUS

LEMMA BucketsInOrder ==
  ASSUME NEW a \in Nat, NEW b \in Nat, NEW d \in Nat \ {0}, a <= b
  PROVE  a \div d <= b \div d
  BY BucketBounds, BucketsApart

LEMMA LimiterNumbers ==
  /\ IsFiniteSet(Checkers) /\ Cardinality(Checkers) \in Nat \ {0}
  /\ MaxLimited \in Nat \ {0} /\ BucketSize \in Nat \ {0}
  /\ Window \in Nat /\ LastTime \in Nat /\ MaxAttempts \in Nat /\ CheckStall \in Nat
  /\ Limiter!NumBuckets \in Nat /\ Window = Limiter!NumBuckets * BucketSize
<1>1. MaxLimited \in Nat \ {0} /\ BucketSize \in Nat \ {0} /\ Window \in Nat
  BY LimiterAssumption
<1>2. Window = BucketSize * (Window \div BucketSize) + (Window % BucketSize)
  BY <1>1
<1>3. Cardinality(Checkers) \in Nat \ {0}
  BY LimiterAssumption, FS_CardinalityType, FS_EmptySet
<1>4. Window \div BucketSize \in Nat
  BY <1>1
<1>5. Window = (Window \div BucketSize) * BucketSize
  BY <1>1, <1>2, <1>4, LimiterAssumption
<1> QED  BY <1>1, <1>3, <1>4, <1>5, LimiterAssumption DEF Limiter!NumBuckets
-----------------------------------------------------------------------------
\* Total counts pairs of a key and a number up to what is counted there.
LEMMA SameCardinality == \A S : Limiter!Cardinality(S) = Cardinality(S)
  BY DEF Limiter!Cardinality, Cardinality

LEMMA TotalIs ==
  ASSUME NEW f, NEW S
  PROVE  Limiter!Total(f, S) = Cardinality({u \in S \X (1..MaxAttempts) : u[2] <= f[u[1]]})
  BY SameCardinality DEF Limiter!Total

LEMMA TotalNat ==
  ASSUME NEW f, NEW S, IsFiniteSet(S)
  PROVE  /\ IsFiniteSet({u \in S \X (1..MaxAttempts) : u[2] <= f[u[1]]})
         /\ Limiter!Total(f, S) \in Nat
<1>1. IsFiniteSet(1..MaxAttempts)
  BY LimiterNumbers, FS_Interval
<1>2. IsFiniteSet(S \X (1..MaxAttempts))
  BY <1>1, FS_Product
<1>3. {u \in S \X (1..MaxAttempts) : u[2] <= f[u[1]]} \in SUBSET (S \X (1..MaxAttempts))
  OBVIOUS
<1>4. IsFiniteSet({u \in S \X (1..MaxAttempts) : u[2] <= f[u[1]]})
  BY <1>2, <1>3, FS_Subset
<1> QED  BY <1>4, FS_CardinalityType, TotalIs

LEMMA TotalGrows ==
  ASSUME NEW S, NEW T, IsFiniteSet(T), S \subseteq T, NEW f, NEW g,
         \A x \in S : f[x] \in Nat /\ g[x] \in Nat /\ f[x] <= g[x]
  PROVE  Limiter!Total(f, S) <= Limiter!Total(g, T)
<1> DEFINE Less == {u \in S \X (1..MaxAttempts) : u[2] <= f[u[1]]}
           More == {u \in T \X (1..MaxAttempts) : u[2] <= g[u[1]]}
<1>1. IsFiniteSet(More)
  BY TotalNat
<1>2. Less \in SUBSET More
  <2> SUFFICES ASSUME NEW u \in Less PROVE u \in More
    OBVIOUS
  <2>1. u[1] \in S /\ u[2] \in Nat /\ u[2] <= f[u[1]]
    BY LimiterNumbers
  <2>2. u[2] <= g[u[1]]
    BY <2>1
  <2> QED  BY <2>2
<1> HIDE DEF Less, More
<1>3. Cardinality(Less) <= Cardinality(More)
  BY <1>1, <1>2, FS_Subset
<1> QED  BY <1>3, TotalIs DEF Less, More

LEMMA TotalSame ==
  ASSUME NEW S, NEW f, NEW g, \A x \in S : f[x] = g[x]
  PROVE  Limiter!Total(f, S) = Limiter!Total(g, S)
<1>1. {u \in S \X (1..MaxAttempts) : u[2] <= f[u[1]]}
        = {u \in S \X (1..MaxAttempts) : u[2] <= g[u[1]]}
  OBVIOUS
<1> QED  BY <1>1, TotalIs

LEMMA TotalOfNone ==
  ASSUME NEW S, NEW f, \A x \in S : f[x] = 0
  PROVE  Limiter!Total(f, S) = 0
<1>1. {u \in S \X (1..MaxAttempts) : u[2] <= f[u[1]]} = {}
  BY LimiterNumbers
<1> QED  BY <1>1, FS_EmptySet, TotalIs


LEMMA TotalFound ==
  ASSUME NEW S, IsFiniteSet(S), NEW f, NEW x \in S, f[x] \in Nat \ {0}, 1 <= MaxAttempts
  PROVE  1 <= Limiter!Total(f, S)
<1> DEFINE Some == {u \in S \X (1..MaxAttempts) : u[2] <= f[u[1]]}
<1>1. <<x, 1>> \in Some
  BY LimiterNumbers
<1>2. IsFiniteSet(Some) /\ Limiter!Total(f, S) \in Nat
  BY TotalNat
<1>3. Limiter!Total(f, S) = Cardinality(Some)
  BY TotalIs
<1> HIDE DEF Some
<1>4. Cardinality(Some) # 0
  BY <1>1, <1>2, FS_EmptySet
<1> QED  BY <1>2, <1>3, <1>4

\* One more of a key counts once where the key belongs, if there is room for it.
LEMMA TotalOneMore ==
  ASSUME NEW S, IsFiniteSet(S), NEW f, NEW g, NEW k, f[k] \in Nat, g[k] = f[k] + 1,
         \A x \in S : f[x] \in Nat /\ (x # k => g[x] = f[x])
  PROVE  /\ k \notin S => Limiter!Total(g, S) = Limiter!Total(f, S)
         /\ Limiter!Total(g, S) <= Limiter!Total(f, S) + 1
         /\ k \in S /\ f[k] < MaxAttempts => Limiter!Total(g, S) = Limiter!Total(f, S) + 1
<1> DEFINE Old == {u \in S \X (1..MaxAttempts) : u[2] <= f[u[1]]}
           New == {u \in S \X (1..MaxAttempts) : u[2] <= g[u[1]]}
           pair == <<k, f[k] + 1>>
<1>1. g[k] = f[k] + 1 /\ \A x \in S : x # k => g[x] = f[x]
  OBVIOUS
<1>2. IsFiniteSet(Old) /\ IsFiniteSet(New)
  <2>1. IsFiniteSet(Old)
    BY TotalNat
  <2>2. IsFiniteSet(New)
    BY TotalNat
  <2> QED  BY <2>1, <2>2
<1>3. Limiter!Total(f, S) = Cardinality(Old) /\ Limiter!Total(g, S) = Cardinality(New)
  BY TotalIs
<1>4. CASE k \notin S
  <2>1. \A x \in S : g[x] = f[x]
    BY <1>1, <1>4
  <2>2. Limiter!Total(g, S) = Limiter!Total(f, S)
    BY <2>1, TotalSame
  <2>3. Limiter!Total(f, S) \in Nat
    BY TotalNat
  <2> QED  BY <1>4, <2>2, <2>3
<1>5. CASE k \in S /\ f[k] < MaxAttempts
  <2>1. New = Old \cup {pair}
    <3>1. ASSUME NEW u \in New PROVE u \in Old \cup {pair}
      <4>1. u = <<u[1], u[2]>> /\ u[1] \in S /\ u[2] \in 1..MaxAttempts /\ u[2] <= g[u[1]]
        OBVIOUS
      <4>2. CASE u[1] = k
        BY <1>1, <4>1, <4>2, LimiterNumbers
      <4>3. CASE u[1] # k
        BY <1>1, <4>1, <4>3
      <4> QED  BY <4>2, <4>3
    <3>2. ASSUME NEW u \in Old PROVE u \in New
      <4>1. u[1] \in S /\ u[2] \in 1..MaxAttempts /\ u[2] <= f[u[1]]
        OBVIOUS
      <4>2. u[2] <= g[u[1]]
        BY <1>1, <4>1, LimiterNumbers
      <4> QED  BY <4>2
    <3>3. pair \in New
      BY <1>1, <1>5, LimiterNumbers
    <3> QED  BY <3>1, <3>2, <3>3
  <2>2. pair \notin Old
    OBVIOUS
  <2> HIDE DEF Old, New, pair
  <2>3. Cardinality(New) = Cardinality(Old) + 1
    BY <1>2, <2>1, <2>2, FS_AddElement
  <2>4. Cardinality(Old) \in Nat
    BY <1>2, FS_CardinalityType
  <2> QED  BY <1>3, <1>5, <2>3, <2>4
<1>6. CASE k \in S /\ ~(f[k] < MaxAttempts)
  <2>1. New = Old
    <3>1. \A x \in S : \A i \in 1..MaxAttempts : i <= g[x] <=> i <= f[x]
      BY <1>1, <1>6, LimiterNumbers
    <3> QED  BY <3>1
  <2> HIDE DEF Old, New
  <2>2. Cardinality(Old) \in Nat
    BY <1>2, FS_CardinalityType
  <2> QED  BY <1>3, <1>6, <2>1, <2>2
<1> QED  BY <1>4, <1>5, <1>6
-----------------------------------------------------------------------------
\* What a check has counted stays counted while the check may still pass.
BucketOf(t) == t \div BucketSize
Stretch(t) == {u \in 0..LastTime : t <= u /\ u < t + Window}
After(t, b) == {u \in 0..LastTime : t <= u /\ BucketOf(u) <= b}
Keys(t, b) == {c \in Limiter!Buckets : BucketOf(t) <= c /\ c <= b}

Passed(t) == Limiter!Total(allowed, Stretch(t))
PassedUpTo(t, b) == Limiter!Total(allowed, After(t, b))
CountedUpTo(t, b) == Limiter!Total(counter, Keys(t, b))

Checking(p) == check[p] # Limiter!NoCheck
In(t) == {p \in Checkers : Checking(p) /\ check[p].since \in Stretch(t)}
InUpTo(t, b) == {p \in Checkers : Checking(p) /\ t <= check[p].since /\ check[p].bucket <= b}
InBefore(t, b) == {p \in In(t) : check[p].bucket < b}

\* A late EXPIRE of an attempt before t lets the bucket of t end early, and that
\* attempt is counted beside those from t on.
Early(t) == IF expiry[BucketOf(t)] < t + Window + BucketSize THEN 1 ELSE 0

CountIsKept(t) ==
    \A b \in Limiter!Buckets : BucketOf(t) <= b =>
        PassedUpTo(t, b) + Cardinality(InUpTo(t, b)) + Early(t) <= CountedUpTo(t, b)
RoomIsLeft(t) ==
    \A u \in Stretch(t) : allowed[u] # 0 =>
        Passed(t) + Cardinality(InBefore(t, BucketOf(u))) + Early(t) <= MaxLimited
IsOver(t) ==
    /\ t + Window <= clock
    /\ Passed(t) + Cardinality(In(t)) <= MaxLimited + Cardinality(Checkers) - 1
Limits(t) == (CountIsKept(t) /\ RoomIsLeft(t)) \/ IsOver(t)

\* No check takes longer than a bucket lasts.
ShortChecks == CheckStall <= BucketSize

Check == [at : {"expire", "sum"}, bucket : Nat, since : 0..LastTime]

LimiterType ==
    /\ clock \in 0..LastTime
    /\ counter \in [Limiter!Buckets -> Nat]
    /\ expiry \in [Limiter!Buckets -> Nat]
    /\ check \in [Checkers -> Check \cup {Limiter!NoCheck}]
    /\ attempts \in 0..MaxAttempts
    /\ allowed \in [0..LastTime -> Nat]

LimiterTimes ==
    /\ \A c \in Limiter!Buckets : /\ counter[c] <= attempts
                                  /\ c * BucketSize + Window + BucketSize <= expiry[c]
    /\ \A p \in Checkers : Checking(p) =>
           /\ check[p].since <= clock /\ clock <= check[p].since + CheckStall
           /\ check[p].bucket = BucketOf(check[p].since)
    /\ \A u \in 0..LastTime : clock < u => allowed[u] = 0

LimiterInv == LimiterType /\ LimiterTimes /\ \A t \in 0..LastTime : Limits(t)

LEMMA BucketNumbers ==
  /\ Limiter!Buckets = 0..BucketOf(LastTime) /\ BucketOf(LastTime) \in Nat
  /\ \A t \in 0..LastTime :
         /\ BucketOf(t) \in Limiter!Buckets /\ BucketOf(t) \in Nat
         /\ BucketOf(t) * BucketSize <= t /\ t < BucketOf(t) * BucketSize + BucketSize
  /\ \A t, u \in 0..LastTime : t <= u => BucketOf(t) <= BucketOf(u)
  BY LimiterNumbers, BucketBounds, BucketsInOrder DEF BucketOf, Limiter!Buckets

LEMMA FinitelyMany ==
  /\ \A t : IsFiniteSet(Stretch(t)) /\ Stretch(t) \subseteq 0..LastTime
  /\ \A t, b : /\ IsFiniteSet(After(t, b)) /\ After(t, b) \subseteq 0..LastTime
               /\ IsFiniteSet(Keys(t, b)) /\ Keys(t, b) \subseteq Limiter!Buckets
<1>1. IsFiniteSet(0..LastTime) /\ IsFiniteSet(Limiter!Buckets)
  BY LimiterNumbers, BucketNumbers, FS_Interval
<1>2. ASSUME NEW t
      PROVE  IsFiniteSet(Stretch(t)) /\ Stretch(t) \subseteq 0..LastTime
  <2>1. Stretch(t) \in SUBSET (0..LastTime)
    BY DEF Stretch
  <2> QED  BY <1>1, <2>1, FS_Subset
<1>3. ASSUME NEW t, NEW b
      PROVE  /\ IsFiniteSet(After(t, b)) /\ After(t, b) \subseteq 0..LastTime
             /\ IsFiniteSet(Keys(t, b)) /\ Keys(t, b) \subseteq Limiter!Buckets
  <2>1. After(t, b) \in SUBSET (0..LastTime) /\ Keys(t, b) \in SUBSET Limiter!Buckets
    BY DEF After, Keys
  <2> QED  BY <1>1, <2>1, FS_Subset
<1> QED  BY <1>2, <1>3

LEMMA SomeCheckers ==
  \A S \in SUBSET Checkers : /\ IsFiniteSet(S) /\ Cardinality(S) \in Nat
                             /\ Cardinality(S) <= Cardinality(Checkers)
  BY LimiterNumbers, FS_Subset, FS_CardinalityType

\* The numbers that Limits compares.
LEMMA Sizes ==
  ASSUME NEW t, NEW b
  PROVE  /\ Passed(t) \in Nat /\ PassedUpTo(t, b) \in Nat /\ CountedUpTo(t, b) \in Nat
         /\ Cardinality(In(t)) \in Nat /\ Cardinality(InUpTo(t, b)) \in Nat
         /\ Cardinality(InBefore(t, b)) \in Nat /\ Early(t) \in {0, 1}
         /\ In(t) \subseteq Checkers /\ InUpTo(t, b) \subseteq Checkers
         /\ InBefore(t, b) \subseteq Checkers
  BY FinitelyMany, TotalNat, SomeCheckers
     DEF Passed, PassedUpTo, CountedUpTo, Early, In, InUpTo, InBefore

LEMMA KeyTimes ==
  /\ Limiter!Never \in Nat /\ LastTime + Window + BucketSize < Limiter!Never
  /\ \A c \in Limiter!Buckets : /\ c \in Nat /\ c * BucketSize \in Nat
                                /\ c * BucketSize + Window + BucketSize <= Limiter!Never
<1>1. Limiter!Never \in Nat /\ LastTime + Window + BucketSize < Limiter!Never
  BY LimiterNumbers DEF Limiter!Never
<1>2. ASSUME NEW c \in Limiter!Buckets
      PROVE  /\ c \in Nat /\ c * BucketSize \in Nat
             /\ c * BucketSize + Window + BucketSize <= Limiter!Never
  <2>1. c \in Nat /\ c <= BucketOf(LastTime) /\ BucketOf(LastTime) * BucketSize <= LastTime
    BY BucketNumbers, LimiterNumbers
  <2>2. c * BucketSize <= BucketOf(LastTime) * BucketSize
    BY <2>1, BucketNumbers, LimiterNumbers, BucketsApart
  <2>3. c * BucketSize \in Nat
    BY <2>1, LimiterNumbers
  <2>4. BucketOf(LastTime) * BucketSize \in Nat
    BY BucketNumbers, LimiterNumbers
  <2> QED  BY <1>1, <2>1, <2>2, <2>3, <2>4, LimiterNumbers
<1> QED  BY <1>1, <1>2

LEMMA CheckTimes ==
  ASSUME LimiterType, LimiterTimes, NEW p \in Checkers, Checking(p)
  PROVE  LET s == check[p].since
             b == check[p].bucket
         IN  /\ check[p] \in Check
             /\ s \in 0..LastTime /\ s <= clock /\ clock <= s + CheckStall
             /\ b = BucketOf(s) /\ b \in Limiter!Buckets /\ b \in Nat
             /\ b * BucketSize <= s /\ s < b * BucketSize + BucketSize
<1>1. check[p] \in Check
  BY DEF LimiterType, Checking
<1>2. check[p].since \in 0..LastTime
  BY <1>1 DEF Check
<1>3. /\ check[p].since <= clock /\ clock <= check[p].since + CheckStall
      /\ check[p].bucket = BucketOf(check[p].since)
  BY DEF LimiterTimes
<1> QED  BY <1>1, <1>2, <1>3, BucketNumbers

LEMMA InitLimits == Limiter!Init => LimiterInv
<1> SUFFICES ASSUME Limiter!Init PROVE LimiterInv
  OBVIOUS
<1>1. LimiterType
  <2>1. Limiter!Never \in Nat
    BY LimiterNumbers DEF Limiter!Never
  <2>2. clock \in 0..LastTime /\ attempts \in 0..MaxAttempts
    BY LimiterNumbers DEF Limiter!Init
  <2> QED  BY <2>1, <2>2 DEF LimiterType, Limiter!Init
<1>2. LimiterTimes
  BY KeyTimes DEF LimiterTimes, Limiter!Init, Checking
<1>3. ASSUME NEW t \in 0..LastTime PROVE Limits(t)
  <2>1. \A p \in Checkers : ~Checking(p)
    BY DEF Limiter!Init, Checking
  <2>2. Early(t) = 0
    BY BucketNumbers, LimiterNumbers DEF Early, Limiter!Init, Limiter!Never
  <2>3. ASSUME NEW b \in Limiter!Buckets
        PROVE  PassedUpTo(t, b) = 0 /\ Cardinality(InUpTo(t, b)) = 0
    <3>1. InUpTo(t, b) = {}
      BY <2>1 DEF InUpTo
    <3> QED  BY <3>1, FS_EmptySet, TotalOfNone, FinitelyMany DEF PassedUpTo, Limiter!Init
  <2>4. CountIsKept(t)
    BY <2>2, <2>3, Sizes DEF CountIsKept
  <2>5. RoomIsLeft(t)
    BY FinitelyMany DEF RoomIsLeft, Limiter!Init
  <2> QED  BY <2>4, <2>5 DEF Limits
<1> QED  BY <1>1, <1>2, <1>3 DEF LimiterInv
-----------------------------------------------------------------------------
LEMMA SetExpiryKeepsChecks ==
  ASSUME LimiterType, NEW p \in Checkers, Limiter!SetExpiry(p)
  PROVE  /\ Checking(p) /\ check[p] \in Check
         /\ check' \in [Checkers -> Check \cup {Limiter!NoCheck}]
         /\ \A q \in Checkers : /\ Checking(q)' <=> Checking(q)
                                /\ Checking(q) => /\ check'[q].since = check[q].since
                                                  /\ check'[q].bucket = check[q].bucket
<1> USE DEF LimiterType, Limiter!SetExpiry
<1>1. Checking(p) /\ check[p] \in Check
  BY DEF Checking, Limiter!NoCheck
<1>2. check' = [check EXCEPT ![p] = [check[p] EXCEPT !.at = "sum"]]
  OBVIOUS
<1>3. [check[p] EXCEPT !.at = "sum"] \in Check
  BY <1>1 DEF Check
<1>4. [check[p] EXCEPT !.at = "sum"] # Limiter!NoCheck
  BY <1>1 DEF Check, Limiter!NoCheck
<1>5. check'[p] = [check[p] EXCEPT !.at = "sum"] /\ \A q \in Checkers \ {p} : check'[q] = check[q]
  BY <1>2
<1>6. check'[p].since = check[p].since /\ check'[p].bucket = check[p].bucket
  BY <1>1, <1>5 DEF Check
<1>7. Checking(p)'
  BY <1>4, <1>5 DEF Checking
<1> QED  BY <1>1, <1>2, <1>3, <1>5, <1>6, <1>7 DEF Checking

LEMMA NextLimiterTyped ==
  ASSUME LimiterType, LimiterTimes, Limiter!Next PROVE LimiterType' /\ LimiterTimes'
<1> USE DEF LimiterType, LimiterTimes, Checking
<1>1. ASSUME NEW p \in Checkers, Limiter!Increment(p) PROVE LimiterType' /\ LimiterTimes'
  <2> USE <1>1 DEF Limiter!Increment
  <2> DEFINE b == Limiter!CurrentBucket
             mine == [at |-> IF counter[b] = 0 THEN "expire" ELSE "sum",
                      bucket |-> b, since |-> clock]
  <2>1. b \in Limiter!Buckets /\ b \in Nat /\ b = BucketOf(clock)
    BY BucketNumbers DEF Limiter!CurrentBucket, BucketOf
  <2>2. mine \in Check /\ mine # Limiter!NoCheck
    BY <2>1 DEF Check, Limiter!NoCheck
  <2>3. check' = [check EXCEPT ![p] = mine] /\ counter' = [counter EXCEPT ![b] = @ + 1]
    OBVIOUS
  <2>4. mine.since = clock /\ mine.bucket = b
    OBVIOUS
  <2> HIDE DEF b, mine
  <2>5. LimiterType'
    <3>1. check' \in [Checkers -> Check \cup {Limiter!NoCheck}]
      BY <2>2, <2>3
    <3>2. counter' \in [Limiter!Buckets -> Nat]
      BY <2>1, <2>3
    <3>3. attempts' \in 0..MaxAttempts
      BY LimiterNumbers
    <3> QED  BY <3>1, <3>2, <3>3
  <2>6. ASSUME NEW c \in Limiter!Buckets PROVE counter'[c] <= attempts'
    <3>1. counter[c] \in Nat /\ counter[c] <= attempts /\ attempts \in Nat /\ attempts' = attempts + 1
      OBVIOUS
    <3>2. counter'[c] \in {counter[c], counter[c] + 1}
      BY <2>1, <2>3
    <3> HIDE DEF LimiterType, LimiterTimes, Limiter!Increment
    <3> QED  BY <3>1, <3>2
  <2>7. \A q \in Checkers : Checking(q)' =>
           /\ check'[q].since <= clock /\ clock <= check'[q].since + CheckStall
           /\ check'[q].bucket = BucketOf(check'[q].since)
    BY <2>1, <2>3, <2>4, LimiterNumbers
  <2> QED  BY <2>5, <2>6, <2>7
<1>2. ASSUME NEW p \in Checkers, Limiter!SetExpiry(p) PROVE LimiterType' /\ LimiterTimes'
  <2> USE <1>2 DEF Limiter!SetExpiry
  <2>1. /\ Checking(p) /\ check[p] \in Check
        /\ check' \in [Checkers -> Check \cup {Limiter!NoCheck}]
        /\ \A q \in Checkers : /\ Checking(q)' <=> Checking(q)
                               /\ Checking(q) => /\ check'[q].since = check[q].since
                                                 /\ check'[q].bucket = check[q].bucket
    BY SetExpiryKeepsChecks
  <2> DEFINE b == check[p].bucket
  <2>2. b \in Limiter!Buckets /\ b * BucketSize <= clock /\ b * BucketSize \in Nat
    <3>1. check[p].since \in Nat /\ check[p].since <= clock /\ clock \in Nat
      BY <2>1, CheckTimes
    <3>2. b \in Limiter!Buckets /\ b * BucketSize <= check[p].since /\ b * BucketSize \in Nat
      BY <2>1, CheckTimes, KeyTimes
    <3> HIDE DEF b
    <3> QED  BY <3>1, <3>2
  <2>4. \/ expiry' = expiry
        \/ expiry' = [expiry EXCEPT ![b] = clock + Window + BucketSize]
    OBVIOUS
  <2> HIDE DEF b
  <2>5. /\ expiry' \in [Limiter!Buckets -> Nat]
        /\ \A c \in Limiter!Buckets : c * BucketSize + Window + BucketSize <= expiry'[c]
    <3>1. clock + Window + BucketSize \in Nat
      <4>1. clock \in Nat
        BY LimiterNumbers
      <4> HIDE DEF LimiterType, LimiterTimes, Limiter!SetExpiry
      <4> QED  BY <4>1, LimiterNumbers
    <3>2. expiry' \in [Limiter!Buckets -> Nat]
      <4>1. expiry \in [Limiter!Buckets -> Nat]
        OBVIOUS
      <4> DEFINE when == clock + Window + BucketSize
      <4>2. /\ when \in Nat
            /\ expiry' = expiry \/ expiry' = [expiry EXCEPT ![b] = when]
        BY <2>4, <3>1
      <4> HIDE DEF LimiterType, LimiterTimes, Limiter!SetExpiry, when
      <4> QED  BY <2>2, <4>1, <4>2
    <3>3. ASSUME NEW c \in Limiter!Buckets
          PROVE  c * BucketSize + Window + BucketSize <= expiry'[c]
      <4>1. CASE c = b /\ expiry'[c] = clock + Window + BucketSize
        <5>1. clock \in Nat /\ c * BucketSize \in Nat /\ c * BucketSize <= clock
          BY <2>2, <4>1, LimiterNumbers
        <5> HIDE DEF LimiterType, LimiterTimes, Limiter!SetExpiry
        <5> QED  BY <4>1, <5>1, LimiterNumbers
      <4>2. CASE expiry'[c] = expiry[c]
        BY <4>2
      <4> QED  BY <2>2, <2>4, <4>1, <4>2
    <3> QED  BY <3>2, <3>3
  <2>6. LimiterType'
    BY <2>1, <2>5
  <2> QED  BY <2>1, <2>5, <2>6
<1>3. ASSUME NEW p \in Checkers, Limiter!Sum(p) PROVE LimiterType' /\ LimiterTimes'
  <2> USE <1>3 DEF Limiter!Sum
  <2>1. check[p] \in Check /\ check[p].since \in 0..LastTime /\ check[p].since <= clock
    BY DEF Check, Limiter!NoCheck
  <2>2. \/ allowed' = allowed
        \/ allowed' = [allowed EXCEPT ![check[p].since] = @ + 1]
    OBVIOUS
  <2>3. /\ allowed' \in [0..LastTime -> Nat]
        /\ \A u \in 0..LastTime : clock < u => allowed'[u] = 0
    BY <2>1, <2>2
  <2> QED  BY <2>3
<1>4. ASSUME NEW p \in Checkers, Limiter!Stop(p) PROVE LimiterType' /\ LimiterTimes'
  BY <1>4 DEF Limiter!Stop
<1>5. ASSUME Limiter!Pass PROVE LimiterType' /\ LimiterTimes'
  <2> USE <1>5 DEF Limiter!Pass
  <2>1. clock' = clock + 1 /\ clock' \in 0..LastTime
    BY LimiterNumbers
  <2>2. counter' \in [Limiter!Buckets -> Nat] /\ \A c \in Limiter!Buckets : counter'[c] <= counter[c]
    OBVIOUS
  <2>3. \A c \in Limiter!Buckets : expiry'[c] = Limiter!Never \/ expiry'[c] = expiry[c]
    OBVIOUS
  <2>4. /\ Limiter!Never \in Nat
        /\ \A c \in Limiter!Buckets : c * BucketSize + Window + BucketSize <= Limiter!Never
    BY KeyTimes
  <2>6. expiry' \in [Limiter!Buckets -> Nat]
    BY <2>4
  <2>7. \A c \in Limiter!Buckets : c * BucketSize + Window + BucketSize <= expiry'[c]
    BY <2>3, <2>4
  <2>8. \A c \in Limiter!Buckets : counter'[c] <= attempts
    BY <2>2, LimiterNumbers
  <2>9. \A q \in Checkers : Checking(q) =>
           check[q].since <= clock' /\ clock' <= check[q].since + CheckStall
    <3> SUFFICES ASSUME NEW q \in Checkers, Checking(q)
                 PROVE  check[q].since <= clock' /\ clock' <= check[q].since + CheckStall
      OBVIOUS
    <3>1. check[q].since \in 0..LastTime
      BY DEF Check
    <3> QED  BY <2>1, <3>1, LimiterNumbers
  <2>10. LimiterType'
    BY <2>1, <2>2, <2>6
  <2> QED  BY <2>1, <2>7, <2>8, <2>9, <2>10
<1> QED  BY <1>1, <1>2, <1>3, <1>4, <1>5 DEF Limiter!Next
-----------------------------------------------------------------------------
LEMMA SizesAfter ==
  ASSUME NEW t, NEW b
  PROVE  /\ Passed(t)' \in Nat /\ PassedUpTo(t, b)' \in Nat /\ CountedUpTo(t, b)' \in Nat
         /\ Cardinality(In(t)') \in Nat /\ Cardinality(InUpTo(t, b)') \in Nat
         /\ Cardinality(InBefore(t, b)') \in Nat /\ Early(t)' \in {0, 1}
         /\ In(t)' \subseteq Checkers /\ InUpTo(t, b)' \subseteq Checkers
         /\ InBefore(t, b)' \subseteq Checkers
  BY FinitelyMany, TotalNat, SomeCheckers
     DEF Passed, PassedUpTo, CountedUpTo, Early, In, InUpTo, InBefore

\* No check that was not there before.
Fewer ==
    \A q \in Checkers : Checking(q)' =>
        /\ Checking(q)
        /\ check'[q].since = check[q].since /\ check'[q].bucket = check[q].bucket

LEMMA FewerIn ==
  ASSUME Fewer, NEW t, NEW b
  PROVE  /\ In(t)' \subseteq In(t) /\ Cardinality(In(t)') <= Cardinality(In(t))
         /\ InUpTo(t, b)' \subseteq InUpTo(t, b)
         /\ Cardinality(InUpTo(t, b)') <= Cardinality(InUpTo(t, b))
         /\ InBefore(t, b)' \subseteq InBefore(t, b)
         /\ Cardinality(InBefore(t, b)') <= Cardinality(InBefore(t, b))
<1>1. In(t)' \in SUBSET In(t)
  BY DEF Fewer, In
<1>2. InUpTo(t, b)' \in SUBSET InUpTo(t, b)
  BY DEF Fewer, InUpTo
<1>3. InBefore(t, b)' \in SUBSET InBefore(t, b)
  BY DEF Fewer, InBefore, In
<1>4. IsFiniteSet(In(t)) /\ IsFiniteSet(InUpTo(t, b)) /\ IsFiniteSet(InBefore(t, b))
  BY Sizes, SomeCheckers
<1> QED  BY <1>1, <1>2, <1>3, <1>4, FS_Subset

\* A step that passes no attempt, starts no check and takes back no count.
LEMMA QuietStep ==
  ASSUME LimiterType, LimiterType', NEW t \in 0..LastTime, Limits(t),
         allowed' = allowed, Fewer, clock <= clock', Early(t)' <= Early(t),
         \A c \in Limiter!Buckets : BucketOf(t) <= c => counter[c] <= counter'[c]
  PROVE  Limits(t)'
<1>1. Passed(t)' = Passed(t) /\ \A b : PassedUpTo(t, b)' = PassedUpTo(t, b)
  BY DEF Passed, PassedUpTo
<1>2. ASSUME CountIsKept(t), NEW b \in Limiter!Buckets, BucketOf(t) <= b
      PROVE  PassedUpTo(t, b)' + Cardinality(InUpTo(t, b)') + Early(t)' <= CountedUpTo(t, b)'
  <2>1. CountedUpTo(t, b) <= CountedUpTo(t, b)'
    <3>1. \A c \in Keys(t, b) : counter[c] \in Nat /\ counter'[c] \in Nat /\ counter[c] <= counter'[c]
      BY DEF Keys, LimiterType
    <3>2. Limiter!Total(counter, Keys(t, b)) <= Limiter!Total(counter', Keys(t, b))
      BY <3>1, FinitelyMany, TotalGrows
    <3> QED  BY <3>2 DEF CountedUpTo
  <2>2. PassedUpTo(t, b) + Cardinality(InUpTo(t, b)) + Early(t) <= CountedUpTo(t, b)
    BY <1>2 DEF CountIsKept
  <2>3. Cardinality(InUpTo(t, b)') <= Cardinality(InUpTo(t, b))
    BY FewerIn
  <2> QED  BY <1>1, <2>1, <2>2, <2>3, Sizes, SizesAfter
<1>3. ASSUME RoomIsLeft(t), NEW u \in Stretch(t), allowed'[u] # 0
      PROVE  Passed(t)' + Cardinality(InBefore(t, BucketOf(u))') + Early(t)' <= MaxLimited
  <2>1. Passed(t) + Cardinality(InBefore(t, BucketOf(u))) + Early(t) <= MaxLimited
    BY <1>3 DEF RoomIsLeft
  <2>2. Cardinality(InBefore(t, BucketOf(u))') <= Cardinality(InBefore(t, BucketOf(u)))
    BY FewerIn
  <2> QED  BY <1>1, <2>1, <2>2, Sizes, SizesAfter, LimiterNumbers
<1>4. CASE CountIsKept(t) /\ RoomIsLeft(t)
  <2>1. CountIsKept(t)'
    BY <1>2, <1>4 DEF CountIsKept
  <2>2. RoomIsLeft(t)'
    BY <1>3, <1>4 DEF RoomIsLeft
  <2> QED  BY <2>1, <2>2 DEF Limits
<1>5. CASE IsOver(t)
  <2>1. Cardinality(In(t)') <= Cardinality(In(t))
    BY FewerIn
  <2>2. clock \in Nat /\ clock' \in Nat
    BY DEF LimiterType
  <2>3. Passed(t)' + Cardinality(In(t)') <= MaxLimited + Cardinality(Checkers) - 1
    <3>1. Passed(t) + Cardinality(In(t)) <= MaxLimited + Cardinality(Checkers) - 1
      BY <1>5 DEF IsOver
    <3>2. Passed(t) \in Nat /\ Cardinality(In(t)) \in Nat /\ Cardinality(In(t)') \in Nat
      BY Sizes, SizesAfter
    <3> QED  BY <1>1, <2>1, <3>1, <3>2, LimiterNumbers
  <2>4. t + Window <= clock'
    BY <1>5, <2>2, LimiterNumbers DEF IsOver
  <2> QED  BY <2>3, <2>4 DEF IsOver, Limits
<1> QED  BY <1>4, <1>5 DEF Limits

\* An attempt is counted in the bucket of its time before it may pass.
LEMMA IncrementLimits ==
  ASSUME LimiterType, LimiterTimes, LimiterType', NEW t \in 0..LastTime, Limits(t),
         NEW p \in Checkers, Limiter!Increment(p)
  PROVE  Limits(t)'
<1> DEFINE now0 == BucketOf(clock)
<1>1. /\ now0 \in Limiter!Buckets /\ now0 \in Nat /\ clock \in Nat /\ BucketOf(t) \in Nat
      /\ t <= clock => BucketOf(t) <= now0
      /\ \A u \in 0..LastTime : u <= clock => BucketOf(u) <= now0
  <2>1. clock \in 0..LastTime /\ clock \in Nat
    BY LimiterNumbers DEF LimiterType
  <2> QED  BY <2>1, BucketNumbers
<1>2. /\ ~Checking(p) /\ Checking(p)' /\ check'[p].since = clock /\ check'[p].bucket = now0
      /\ \A q \in Checkers \ {p} : check'[q] = check[q]
  BY DEF Limiter!Increment, LimiterType, Checking, Limiter!NoCheck, BucketOf,
         Limiter!CurrentBucket
<1>3. /\ allowed' = allowed /\ expiry' = expiry /\ clock' = clock
      /\ counter' = [counter EXCEPT ![now0] = @ + 1]
  BY DEF Limiter!Increment, BucketOf, Limiter!CurrentBucket
<1>4. counter[now0] < MaxAttempts
  <2>1. counter[now0] <= attempts /\ attempts < MaxAttempts
    BY <1>1 DEF LimiterTimes, Limiter!Increment
  <2>2. attempts \in Nat /\ counter[now0] \in Nat
    BY <1>1, LimiterNumbers DEF LimiterType
  <2> HIDE DEF now0
  <2> QED  BY <2>1, <2>2, LimiterNumbers
<1> HIDE DEF now0
<1>5. Passed(t)' = Passed(t) /\ Early(t)' = Early(t) /\ \A b : PassedUpTo(t, b)' = PassedUpTo(t, b)
  BY <1>3 DEF Passed, Early, PassedUpTo
<1>6. ASSUME NEW b \in Limiter!Buckets, BucketOf(t) <= b, CountIsKept(t)
      PROVE  PassedUpTo(t, b)' + Cardinality(InUpTo(t, b)') + Early(t)' <= CountedUpTo(t, b)'
  <2>1. PassedUpTo(t, b) + Cardinality(InUpTo(t, b)) + Early(t) <= CountedUpTo(t, b)
    BY <1>6 DEF CountIsKept
  <2>2. Keys(t, b) \subseteq Limiter!Buckets /\ IsFiniteSet(Keys(t, b)) /\ IsFiniteSet(InUpTo(t, b))
    BY FinitelyMany, Sizes, SomeCheckers
  <2>3. CASE t <= clock /\ now0 <= b
    <3>1. now0 \in Keys(t, b)
      BY <1>1, <2>3 DEF Keys
    <3>2. CountedUpTo(t, b)' = CountedUpTo(t, b) + 1
      <4> DEFINE more == [counter EXCEPT ![now0] = @ + 1]
                 keys == Keys(t, b)
      <4>1. CountedUpTo(t, b)' = Limiter!Total(more, keys) /\ CountedUpTo(t, b) = Limiter!Total(counter, keys)
        BY <1>3 DEF CountedUpTo
      <4>2. counter \in [Limiter!Buckets -> Nat] /\ now0 \in keys
        BY <3>1 DEF LimiterType
      <4>3. keys \subseteq Limiter!Buckets /\ IsFiniteSet(keys)
        BY <2>2
      <4> HIDE DEF keys
      <4>4. Limiter!Total(more, keys) = Limiter!Total(counter, keys) + 1
        <5>1. /\ more[now0] = counter[now0] + 1 /\ counter[now0] \in Nat /\ IsFiniteSet(keys)
              /\ \A x \in keys : counter[x] \in Nat /\ (x # now0 => more[x] = counter[x])
          BY <1>1, <4>2, <4>3
        <5> HIDE DEF more
        <5> QED  BY <1>4, <4>2, <5>1, TotalOneMore
      <4> QED  BY <4>1, <4>4
    <3>3. InUpTo(t, b)' = InUpTo(t, b) \cup {p} /\ p \notin InUpTo(t, b)
      BY <1>2, <2>3 DEF InUpTo, Checking
    <3>4. Cardinality(InUpTo(t, b)') = Cardinality(InUpTo(t, b)) + 1
      BY <2>2, <3>3, FS_AddElement
    <3> QED  BY <1>5, <2>1, <3>2, <3>4, Sizes
  <2>4. CASE ~(t <= clock /\ now0 <= b)
    <3>1. InUpTo(t, b)' = InUpTo(t, b)
      BY <1>2, <2>4 DEF InUpTo, Checking
    <3>2. \A c \in Keys(t, b) : counter[c] \in Nat /\ counter'[c] \in Nat /\ counter[c] <= counter'[c]
      BY <1>3, <2>2 DEF LimiterType
    <3>3. CountedUpTo(t, b) <= CountedUpTo(t, b)'
      BY <2>2, <3>2, TotalGrows DEF CountedUpTo
    <3> QED  BY <1>5, <2>1, <3>1, <3>3, Sizes, SizesAfter
  <2> QED  BY <2>3, <2>4
<1>7. ASSUME NEW u \in Stretch(t), allowed'[u] # 0, RoomIsLeft(t)
      PROVE  Passed(t)' + Cardinality(InBefore(t, BucketOf(u))') + Early(t)' <= MaxLimited
  <2>1. u \in 0..LastTime /\ u <= clock
    BY <1>1, <1>3, <1>7 DEF Stretch, LimiterTimes, LimiterType
  <2>2. BucketOf(u) <= now0 /\ BucketOf(u) \in Nat
    BY <1>1, <2>1, BucketNumbers
  <2>3. InBefore(t, BucketOf(u))' = InBefore(t, BucketOf(u))
    BY <1>1, <1>2, <2>2 DEF InBefore, In, Checking
  <2> QED  BY <1>3, <1>5, <1>7, <2>3 DEF RoomIsLeft
<1>8. CASE CountIsKept(t) /\ RoomIsLeft(t)
  BY <1>6, <1>7, <1>8 DEF Limits, CountIsKept, RoomIsLeft
<1>9. CASE IsOver(t)
  <2>1. clock \notin Stretch(t)
    BY <1>1, <1>9, LimiterNumbers DEF IsOver, Stretch
  <2>2. In(t)' = In(t)
    BY <1>2, <2>1 DEF In, Checking
  <2> QED  BY <1>3, <1>5, <1>9, <2>2 DEF IsOver, Limits
<1> QED  BY <1>8, <1>9 DEF Limits

\* What passed in a set of times is what passed in a larger one, or less.
LEMMA NarrowTotal ==
  ASSUME NEW S, NEW T, IsFiniteSet(T), NEW f,
         \A x \in S : f[x] \in Nat /\ (f[x] # 0 => x \in T)
  PROVE  Limiter!Total(f, S) <= Limiter!Total(f, T)
<1> DEFINE Less == {u \in S \X (1..MaxAttempts) : u[2] <= f[u[1]]}
           More == {u \in T \X (1..MaxAttempts) : u[2] <= f[u[1]]}
<1>1. IsFiniteSet(More)
  BY TotalNat
<1>2. Less \in SUBSET More
  <2> SUFFICES ASSUME NEW u \in Less PROVE u \in More
    OBVIOUS
  <2>1. /\ u = <<u[1], u[2]>> /\ u[1] \in S /\ u[2] \in 1..MaxAttempts
        /\ u[2] <= f[u[1]] /\ f[u[1]] \in Nat
    OBVIOUS
  <2>2. f[u[1]] # 0
    BY <2>1, LimiterNumbers
  <2>3. u[1] \in T
    BY <2>1, <2>2
  <2> QED  BY <2>1, <2>3
<1> HIDE DEF Less, More
<1>3. Cardinality(Less) <= Cardinality(More)
  BY <1>1, <1>2, FS_Subset
<1> QED  BY <1>3, TotalIs DEF Less, More

\* A check that began in the stretch sums the buckets since the stretch began.
LEMMA CountedInWindow ==
  ASSUME LimiterType, NEW t \in 0..LastTime, NEW s \in 0..LastTime, t <= s, s < t + Window,
         NEW mine, mine = BucketOf(s),
         Limiter!Total(counter, {b \in Limiter!Buckets : Limiter!InWindow(b, mine)}) <= MaxLimited
  PROVE  CountedUpTo(t, mine) <= MaxLimited
<1> DEFINE summed == {b \in Limiter!Buckets : Limiter!InWindow(b, mine)}
           first == BucketOf(t)
<1>1. /\ mine \in Nat /\ first \in Nat
      /\ mine * BucketSize <= s /\ t < first * BucketSize + BucketSize
  BY BucketNumbers
<1>2. mine <= first + Limiter!NumBuckets
  <2> DEFINE past == first + 1 + Limiter!NumBuckets
  <2>1. past \in Nat /\ past * BucketSize = first * BucketSize + BucketSize + Window
    BY <1>1, LimiterNumbers
  <2>2. mine * BucketSize \in Nat /\ first * BucketSize \in Nat
    BY <1>1, LimiterNumbers
  <2> HIDE DEF past, first
  <2>3. mine * BucketSize < past * BucketSize
    BY <1>1, <2>1, <2>2, LimiterNumbers
  <2>4. mine < past
    BY <1>1, <2>1, <2>3, LimiterNumbers, BucketsApart
  <2> QED  BY <1>1, <2>4, LimiterNumbers DEF past
<1>3. IsFiniteSet(summed)
  <2>1. IsFiniteSet(Limiter!Buckets)
    BY BucketNumbers, FS_Interval
  <2> QED  BY <2>1, FS_Subset
<1>4. Keys(t, mine) \subseteq summed
  <2> SUFFICES ASSUME NEW b \in Keys(t, mine) PROVE b \in summed
    OBVIOUS
  <2>1. b \in Limiter!Buckets /\ b \in Nat /\ first <= b /\ b <= mine
    BY BucketNumbers DEF Keys
  <2>2. mine <= b + Limiter!NumBuckets
    <3> HIDE DEF first, summed
    <3> QED  BY <1>1, <1>2, <2>1, LimiterNumbers
  <2> QED  BY <2>1, <2>2 DEF Limiter!InWindow
<1> HIDE DEF summed
<1>5. Limiter!Total(counter, Keys(t, mine)) <= Limiter!Total(counter, summed)
  <2>1. \A c \in Keys(t, mine) : counter[c] \in Nat
    BY FinitelyMany DEF LimiterType
  <2> QED  BY <1>3, <1>4, <2>1, TotalGrows
<1>6. Limiter!Total(counter, summed) <= MaxLimited
  BY DEF summed
<1>7. Limiter!Total(counter, summed) \in Nat /\ CountedUpTo(t, mine) \in Nat
  BY <1>3, TotalNat, Sizes
<1> QED  BY <1>5, <1>6, <1>7, LimiterNumbers DEF CountedUpTo

\* One attempt passes.
LEMMA PassLimits ==
  ASSUME LimiterType, LimiterType', LimiterTimes, NEW t \in 0..LastTime, Limits(t),
         NEW p \in Checkers, Checking(p), ~Checking(p)', Fewer,
         \A q \in Checkers \ {p} : check'[q] = check[q],
         NEW s, s = check[p].since, NEW mine, mine = check[p].bucket,
         counter' = counter, expiry' = expiry, clock' = clock,
         allowed' = [allowed EXCEPT ![s] = @ + 1],
         Limiter!Total(counter, {b \in Limiter!Buckets : Limiter!InWindow(b, mine)}) <= MaxLimited
  PROVE  Limits(t)'
<1>1. s \in 0..LastTime /\ mine = BucketOf(s) /\ mine \in Limiter!Buckets /\ mine \in Nat
  BY CheckTimes
<1>2. Early(t)' = Early(t) /\ \A b : CountedUpTo(t, b)' = CountedUpTo(t, b)
  BY DEF Early, CountedUpTo
<1>3. /\ In(t)' = In(t) \ {p}
      /\ \A b : InUpTo(t, b)' = InUpTo(t, b) \ {p} /\ InBefore(t, b)' = InBefore(t, b) \ {p}
  BY DEF In, InUpTo, InBefore, Checking
<1>4. /\ allowed \in [0..LastTime -> Nat]
      /\ Stretch(t) \subseteq 0..LastTime /\ IsFiniteSet(Stretch(t))
      /\ \A b : After(t, b) \subseteq 0..LastTime /\ IsFiniteSet(After(t, b))
  BY FinitelyMany DEF LimiterType
<1>5. /\ s \notin Stretch(t) => Passed(t)' = Passed(t)
      /\ Passed(t)' <= Passed(t) + 1
  <2> DEFINE more == [allowed EXCEPT ![s] = @ + 1]
  <2>1. /\ s \notin Stretch(t) => Limiter!Total(more, Stretch(t)) = Limiter!Total(allowed, Stretch(t))
        /\ Limiter!Total(more, Stretch(t)) <= Limiter!Total(allowed, Stretch(t)) + 1
    <3>1. /\ more[s] = allowed[s] + 1 /\ allowed[s] \in Nat /\ IsFiniteSet(Stretch(t))
          /\ \A x \in Stretch(t) : allowed[x] \in Nat /\ (x # s => more[x] = allowed[x])
      BY <1>1, <1>4
    <3> HIDE DEF more
    <3> QED  BY <3>1, TotalOneMore
  <2>2. Passed(t)' = Limiter!Total(more, Stretch(t))
    BY DEF Passed
  <2> HIDE DEF more
  <2> QED  BY <2>1, <2>2 DEF Passed
<1>6. \A b : /\ s \notin After(t, b) => PassedUpTo(t, b)' = PassedUpTo(t, b)
             /\ PassedUpTo(t, b)' <= PassedUpTo(t, b) + 1
  <2> SUFFICES ASSUME NEW b
               PROVE  /\ s \notin After(t, b) => PassedUpTo(t, b)' = PassedUpTo(t, b)
                      /\ PassedUpTo(t, b)' <= PassedUpTo(t, b) + 1
    OBVIOUS
  <2> DEFINE more == [allowed EXCEPT ![s] = @ + 1]
             when == After(t, b)
  <2>1. when \subseteq 0..LastTime /\ IsFiniteSet(when)
    BY <1>4
  <2>2. PassedUpTo(t, b)' = Limiter!Total(more, when) /\ PassedUpTo(t, b) = Limiter!Total(allowed, when)
    BY DEF PassedUpTo
  <2> HIDE DEF when
  <2>3. /\ s \notin when => Limiter!Total(more, when) = Limiter!Total(allowed, when)
        /\ Limiter!Total(more, when) <= Limiter!Total(allowed, when) + 1
    <3>1. /\ more[s] = allowed[s] + 1 /\ allowed[s] \in Nat /\ IsFiniteSet(when)
          /\ \A x \in when : allowed[x] \in Nat /\ (x # s => more[x] = allowed[x])
      BY <1>1, <1>4, <2>1
    <3> HIDE DEF more
    <3> QED  BY <3>1, TotalOneMore
  <2> HIDE DEF more
  <2> QED  BY <2>2, <2>3 DEF when
<1>7. \A S \in SUBSET Checkers : p \in S => Cardinality(S \ {p}) = Cardinality(S) - 1
  BY SomeCheckers, FS_RemoveElement
<1>8. s \in Stretch(t) => p \in In(t)
  BY DEF In
<1>9. ASSUME CountIsKept(t), NEW b \in Limiter!Buckets, BucketOf(t) <= b
      PROVE  PassedUpTo(t, b)' + Cardinality(InUpTo(t, b)') + Early(t)' <= CountedUpTo(t, b)'
  <2>1. PassedUpTo(t, b) + Cardinality(InUpTo(t, b)) + Early(t) <= CountedUpTo(t, b)
    BY <1>9 DEF CountIsKept
  <2>2. CASE s \in After(t, b)
    <3>1. p \in InUpTo(t, b)
      BY <1>1, <2>2 DEF After, InUpTo
    <3>2. Cardinality(InUpTo(t, b)') = Cardinality(InUpTo(t, b)) - 1
      BY <1>3, <1>7, <3>1, Sizes
    <3>3. PassedUpTo(t, b)' <= PassedUpTo(t, b) + 1
      BY <1>6
    <3> QED  BY <1>2, <2>1, <3>2, <3>3, Sizes, SizesAfter
  <2>3. CASE s \notin After(t, b)
    <3>1. Cardinality(InUpTo(t, b)') <= Cardinality(InUpTo(t, b))
      BY FewerIn
    <3> QED  BY <1>2, <1>6, <2>1, <2>3, <3>1, Sizes, SizesAfter
  <2> QED  BY <2>2, <2>3
<1>10. ASSUME CountIsKept(t), RoomIsLeft(t), NEW u \in Stretch(t), allowed'[u] # 0
       PROVE  Passed(t)' + Cardinality(InBefore(t, BucketOf(u))') + Early(t)' <= MaxLimited
  <2> DEFINE before == InBefore(t, BucketOf(u))
  <2>1. u \in 0..LastTime /\ BucketOf(u) \in Nat
    BY <1>4, BucketNumbers
  <2>2. CASE s \notin Stretch(t)
    <3>1. allowed[u] # 0
      BY <1>1, <1>4, <1>10, <2>1, <2>2
    <3>2. Passed(t) + Cardinality(before) + Early(t) <= MaxLimited
      BY <1>10, <3>1 DEF RoomIsLeft
    <3>3. Cardinality(before') <= Cardinality(before)
      BY FewerIn
    <3> QED  BY <1>2, <1>5, <2>2, <3>2, <3>3, Sizes, SizesAfter, LimiterNumbers
  <2>3. CASE s \in Stretch(t) /\ mine < BucketOf(u)
    <3>1. allowed[u] # 0
      BY <1>1, <1>4, <1>10, <2>1, <2>3
    <3>2. Passed(t) + Cardinality(before) + Early(t) <= MaxLimited
      BY <1>10, <3>1 DEF RoomIsLeft
    <3>3. p \in before
      BY <1>8, <2>3 DEF InBefore
    <3>4. Cardinality(before') = Cardinality(before) - 1
      BY <1>3, <1>7, <3>3, Sizes
    <3>5. Passed(t)' <= Passed(t) + 1
      BY <1>5
    <3> QED  BY <1>2, <3>2, <3>4, <3>5, Sizes, SizesAfter, LimiterNumbers
  <2>4. CASE s \in Stretch(t) /\ BucketOf(u) <= mine
    <3>1. CASE \E v \in Stretch(t) : allowed[v] # 0 /\ mine < BucketOf(v)
      <4>1. PICK v \in Stretch(t) : allowed[v] # 0 /\ mine < BucketOf(v)
        BY <3>1
      <4>2. BucketOf(v) \in Nat
        BY <1>4, BucketNumbers
      <4>3. Passed(t) + Cardinality(InBefore(t, BucketOf(v))) + Early(t) <= MaxLimited
        BY <1>10, <4>1 DEF RoomIsLeft
      <4>4. p \in InBefore(t, BucketOf(v))
        BY <1>8, <2>4, <4>1 DEF InBefore
      <4>5. before' \in SUBSET (InBefore(t, BucketOf(v)) \ {p})
        <5>1. \A q \in Checkers : Checking(q) => check[q].bucket \in Nat
          BY CheckTimes
        <5>2. before \subseteq InBefore(t, BucketOf(v))
          BY <1>1, <2>1, <2>4, <4>1, <4>2, <5>1 DEF InBefore, In
        <5> QED  BY <1>3, <5>2
      <4>6. /\ IsFiniteSet(InBefore(t, BucketOf(v)) \ {p})
            /\ Cardinality(InBefore(t, BucketOf(v)) \ {p}) = Cardinality(InBefore(t, BucketOf(v))) - 1
        BY <1>7, <4>4, Sizes, SomeCheckers
      <4>7. Cardinality(before') <= Cardinality(InBefore(t, BucketOf(v))) - 1
        BY <4>5, <4>6, FS_Subset
      <4>8. Passed(t)' <= Passed(t) + 1
        BY <1>5
      <4> QED  BY <1>2, <4>3, <4>7, <4>8, Sizes, SizesAfter, LimiterNumbers
    <3>2. CASE \A v \in Stretch(t) : allowed[v] # 0 => BucketOf(v) <= mine
      <4>1. t <= s /\ s < t + Window /\ BucketOf(t) <= mine /\ BucketOf(t) \in Nat
        BY <1>1, <2>4, BucketNumbers DEF Stretch
      <4>2. PassedUpTo(t, mine) + Cardinality(InUpTo(t, mine)) + Early(t) <= CountedUpTo(t, mine)
        BY <1>1, <1>10, <4>1 DEF CountIsKept
      <4>3. Passed(t) <= PassedUpTo(t, mine)
        BY <1>4, <3>2, NarrowTotal, FinitelyMany DEF Passed, PassedUpTo, Stretch, After
      <4>4. CountedUpTo(t, mine) <= MaxLimited
        BY <1>1, <4>1, CountedInWindow
      <4>5. p \in InUpTo(t, mine)
        <5>1. t <= check[p].since /\ check[p].bucket <= mine
          BY <1>1, <4>1
        <5> QED  BY <5>1 DEF InUpTo
      <4>6. before' \in SUBSET (InUpTo(t, mine) \ {p})
        <5>1. \A q \in Checkers : Checking(q) => check[q].bucket \in Nat
          BY CheckTimes
        <5>2. before \subseteq InUpTo(t, mine)
          BY <1>1, <2>1, <2>4, <5>1 DEF InBefore, In, InUpTo, Stretch
        <5> QED  BY <1>3, <5>2
      <4>7. /\ IsFiniteSet(InUpTo(t, mine) \ {p})
            /\ Cardinality(InUpTo(t, mine) \ {p}) = Cardinality(InUpTo(t, mine)) - 1
        BY <1>7, <4>5, Sizes, SomeCheckers
      <4>8. Cardinality(before') <= Cardinality(InUpTo(t, mine)) - 1
        BY <4>6, <4>7, FS_Subset
      <4>9. Passed(t)' <= Passed(t) + 1
        BY <1>5
      <4> QED  BY <1>2, <4>2, <4>3, <4>4, <4>8, <4>9, Sizes, SizesAfter, LimiterNumbers
    <3>3. \A v \in Stretch(t) : BucketOf(v) \in Nat
      BY <1>4, BucketNumbers
    <3> QED  BY <1>1, <3>1, <3>2, <3>3
  <2> QED  BY <1>1, <2>1, <2>2, <2>3, <2>4
<1>11. CASE CountIsKept(t) /\ RoomIsLeft(t)
  BY <1>9, <1>10, <1>11 DEF Limits, CountIsKept, RoomIsLeft
<1>12. CASE IsOver(t)
  <2>1. Passed(t) + Cardinality(In(t)) <= MaxLimited + Cardinality(Checkers) - 1
    BY <1>12 DEF IsOver
  <2>2. /\ Passed(t) \in Nat /\ Cardinality(In(t)) \in Nat
        /\ Passed(t)' \in Nat /\ Cardinality(In(t)') \in Nat
    BY Sizes, SizesAfter
  <2>3. Passed(t)' + Cardinality(In(t)') <= Passed(t) + Cardinality(In(t))
    <3>1. CASE s \in Stretch(t)
      <4>1. Cardinality(In(t)') = Cardinality(In(t)) - 1
        BY <1>3, <1>7, <1>8, <3>1, Sizes
      <4> QED  BY <1>5, <2>2, <4>1
    <3>2. CASE s \notin Stretch(t)
      <4>1. Cardinality(In(t)') <= Cardinality(In(t))
        BY FewerIn
      <4> QED  BY <1>5, <2>2, <3>2, <4>1
    <3> QED  BY <3>1, <3>2
  <2>4. Passed(t)' + Cardinality(In(t)') <= MaxLimited + Cardinality(Checkers) - 1
    BY <2>1, <2>2, <2>3, LimiterNumbers
  <2> QED  BY <1>12, <2>4 DEF IsOver, Limits
<1> QED  BY <1>11, <1>12 DEF Limits

\* An attempt that passes was inside before, with its bucket among those it counts.
LEMMA SumLimits ==
  ASSUME LimiterType, LimiterTimes, LimiterType', NEW t \in 0..LastTime, Limits(t),
         NEW p \in Checkers, Limiter!Sum(p)
  PROVE  Limits(t)'
<1> DEFINE s == check[p].since
           mine == check[p].bucket
<1>1. Checking(p)
  BY DEF Limiter!Sum, Checking, Limiter!NoCheck
<1>2. /\ s \in 0..LastTime /\ mine = BucketOf(s) /\ mine \in Limiter!Buckets /\ mine \in Nat
  BY <1>1, CheckTimes
<1>3. ~Checking(p)' /\ \A q \in Checkers \ {p} : check'[q] = check[q]
  BY DEF Limiter!Sum, LimiterType, Checking
<1>4. Fewer
  BY <1>1, <1>3 DEF Fewer, Checking
<1>5. counter' = counter /\ expiry' = expiry /\ clock' = clock
  BY DEF Limiter!Sum
<1>6. CASE allowed' = allowed
  <2>1. Early(t)' = Early(t) /\ clock \in Nat
    BY <1>5 DEF Early, LimiterType
  <2>2. \A c \in Limiter!Buckets : counter[c] <= counter'[c]
    BY <1>5 DEF LimiterType
  <2>3. Early(t)' <= Early(t) /\ clock <= clock'
    BY <1>5, <2>1, Sizes
  <2> QED  BY <1>4, <1>6, <2>2, <2>3, QuietStep
<1>7. CASE allowed' # allowed
  <2>1. allowed' = [allowed EXCEPT ![s] = @ + 1]
    BY <1>7 DEF Limiter!Sum
  <2>2. Limiter!Total(counter, {b \in Limiter!Buckets : Limiter!InWindow(b, mine)}) <= MaxLimited
    <3> DEFINE total == Limiter!Total(counter, {b \in Limiter!Buckets : Limiter!InWindow(b, mine)})
    <3>1. ~(total > MaxLimited)
      BY <1>7 DEF Limiter!Sum
    <3>2. IsFiniteSet(Limiter!Buckets)
      BY BucketNumbers, FS_Interval
    <3>3. IsFiniteSet({b \in Limiter!Buckets : Limiter!InWindow(b, mine)})
      BY <3>2, FS_Subset
    <3>4. total \in Nat
      BY <3>3, TotalNat
    <3> HIDE DEF total
    <3>5. total <= MaxLimited
      BY <3>1, <3>4, LimiterNumbers
    <3> QED  BY <3>5 DEF total
  <2> QED  BY <1>1, <1>2, <1>3, <1>4, <1>5, <2>1, <2>2, PassLimits
<1> QED  BY <1>6, <1>7

\* EXPIRE comes late, and the bucket that it ends holds an attempt before t.
LEMMA ExpiryLimits ==
  ASSUME LimiterType, LimiterTimes, LimiterType', NEW t \in 0..LastTime, Limits(t),
         NEW p \in Checkers, Limiter!SetExpiry(p)
  PROVE  Limits(t)'
<1>1. /\ allowed' = allowed /\ counter' = counter /\ clock' = clock /\ clock \in Nat
  BY DEF Limiter!SetExpiry, LimiterType
<1>2. Fewer
  BY SetExpiryKeepsChecks DEF Fewer
<1>3. CASE Early(t)' <= Early(t)
  <2>1. clock <= clock' /\ \A c \in Limiter!Buckets : counter[c] <= counter'[c]
    BY <1>1 DEF LimiterType
  <2> QED  BY <1>1, <1>2, <1>3, <2>1, QuietStep
<1>4. CASE ~(Early(t)' <= Early(t))
  <2> DEFINE first == BucketOf(t)
  <2>1. first \in Limiter!Buckets /\ first \in Nat
    BY BucketNumbers
  <2>2. Early(t)' = 1 /\ Early(t) = 0
    BY <1>4, Sizes, SizesAfter
  <2>3. expiry'[first] < t + Window + BucketSize /\ ~(expiry[first] < t + Window + BucketSize)
    BY <2>2 DEF Early
  <2>4. /\ check[p].bucket = first /\ counter[first] # 0
        /\ expiry'[first] = clock + Window + BucketSize
    BY <2>1, <2>3 DEF Limiter!SetExpiry, LimiterType
  <2>5. clock < t
    BY <1>1, <2>3, <2>4, LimiterNumbers
  <2>6. \A u \in 0..LastTime : t <= u => allowed[u] = 0
    BY <1>1, <2>5 DEF LimiterTimes
  <2>7. \A b : InUpTo(t, b)' = {}
    <3>1. \A q \in Checkers : Checking(q) => check[q].since \in Nat /\ check[q].since <= clock
      BY CheckTimes
    <3>2. \A q \in Checkers : Checking(q)' => check'[q].since \in Nat /\ check'[q].since <= clock
      BY <1>2, <3>1 DEF Fewer
    <3> QED  BY <1>1, <2>5, <3>2 DEF InUpTo
  <2>8. ASSUME NEW b \in Limiter!Buckets, first <= b
        PROVE  PassedUpTo(t, b)' + Cardinality(InUpTo(t, b)') + Early(t)' <= CountedUpTo(t, b)'
    <3>1. PassedUpTo(t, b)' = 0
      <4>1. \A u \in After(t, b) : allowed[u] = 0
        BY <2>6 DEF After
      <4>2. Limiter!Total(allowed, After(t, b)) = 0
        BY <4>1, TotalOfNone
      <4> QED  BY <1>1, <4>2 DEF PassedUpTo
    <3>2. Cardinality(InUpTo(t, b)') = 0
      BY <2>7, FS_EmptySet
    <3>3. 1 <= CountedUpTo(t, b)'
      <4>1. first \in Keys(t, b) /\ counter[first] \in Nat \ {0}
        BY <2>1, <2>4, <2>8 DEF Keys, LimiterType
      <4>2. counter[first] <= attempts /\ attempts \in 0..MaxAttempts
        BY <2>1 DEF LimiterTimes, LimiterType
      <4>3. 1 <= MaxAttempts
        BY <4>1, <4>2, LimiterNumbers
      <4> HIDE DEF first
      <4>4. 1 <= Limiter!Total(counter, Keys(t, b))
        BY <4>1, <4>3, FinitelyMany, TotalFound
      <4> QED  BY <1>1, <4>4 DEF CountedUpTo
    <3> QED  BY <2>2, <3>1, <3>2, <3>3
  <2>9. CountIsKept(t)'
    BY <2>8 DEF CountIsKept
  <2>10. RoomIsLeft(t)'
    BY <1>1, <2>6 DEF RoomIsLeft, Stretch
  <2> QED  BY <2>9, <2>10 DEF Limits
<1> QED  BY <1>3, <1>4

\* Redis drops a bucket of the stretch only after the stretch is over. If a check
\* of the stretch is still inside, the bucket is that of t, and it ended early.
LEMMA PassTimeLimits ==
  ASSUME ShortChecks, LimiterType, LimiterTimes, LimiterType', NEW t \in 0..LastTime, Limits(t),
         Limiter!Pass
  PROVE  Limits(t)'
<1> DEFINE first == BucketOf(t)
<1>1. /\ first \in Limiter!Buckets /\ first \in Nat /\ first * BucketSize \in Nat
      /\ first * BucketSize <= t /\ t < first * BucketSize + BucketSize
  BY BucketNumbers, KeyTimes
<1>2. /\ allowed' = allowed /\ check' = check
      /\ clock \in Nat /\ clock' = clock + 1 /\ clock' <= LastTime
  BY LimiterNumbers DEF Limiter!Pass, LimiterType
<1>3. Fewer
  BY <1>2 DEF Fewer, Checking
<1>4. CASE \A c \in Limiter!Buckets : first <= c => ~(expiry[c] <= clock')
  <2>1. \A c \in Limiter!Buckets : first <= c => counter'[c] = counter[c] /\ expiry'[c] = expiry[c]
    BY <1>4 DEF Limiter!Pass
  <2>2. Early(t)' = Early(t)
    BY <1>1, <2>1 DEF Early
  <2>3. \A c \in Limiter!Buckets : first <= c => counter[c] <= counter'[c]
    BY <2>1 DEF LimiterType
  <2>4. Early(t)' <= Early(t) /\ clock <= clock'
    BY <1>2, <2>2, Sizes
  <2> QED  BY <1>2, <1>3, <2>3, <2>4, QuietStep
<1>5. CASE IsOver(t)
  <2>1. Passed(t)' = Passed(t) /\ In(t)' = In(t)
    BY <1>2 DEF Passed, In, Checking
  <2>2. t + Window <= clock'
    BY <1>2, <1>5, LimiterNumbers DEF IsOver
  <2> QED  BY <1>5, <2>1, <2>2 DEF IsOver, Limits
<1>6. CASE /\ CountIsKept(t) /\ RoomIsLeft(t)
           /\ \E c \in Limiter!Buckets : first <= c /\ expiry[c] <= clock'
  <2>1. PICK c \in Limiter!Buckets : first <= c /\ expiry[c] <= clock'
    BY <1>6
  <2>2. /\ c \in Nat /\ c * BucketSize \in Nat /\ expiry[c] \in Nat
        /\ c * BucketSize + Window + BucketSize <= expiry[c]
    BY <2>1, KeyTimes DEF LimiterTimes, LimiterType
  <2>3. first * BucketSize <= c * BucketSize
    BY <1>1, <2>1, <2>2, LimiterNumbers, BucketsApart
  <2> HIDE DEF first
  <2>4. t + Window <= clock'
    BY <1>1, <1>2, <2>1, <2>2, <2>3, LimiterNumbers
  <2>5. In(t) # {} => Early(t) = 1
    <3> SUFFICES ASSUME NEW q \in In(t) PROVE Early(t) = 1
      OBVIOUS
    <3> DEFINE s == check[q].since
    <3>1. q \in Checkers /\ Checking(q) /\ s \in 0..LastTime /\ s \in Nat /\ s < t + Window
      BY LimiterNumbers DEF In, Stretch
    <3>2. clock' <= s + CheckStall
      BY <1>2, <3>1, LimiterNumbers DEF Limiter!Pass, Checking
    <3> HIDE DEF s
    <3>3. expiry[c] < t + Window + BucketSize
      BY <1>2, <2>1, <2>2, <3>1, <3>2, LimiterNumbers DEF ShortChecks
    <3>4. c * BucketSize < (first + 1) * BucketSize
      <4>1. (first + 1) * BucketSize = first * BucketSize + BucketSize
        BY <1>1, LimiterNumbers
      <4> QED  BY <1>1, <2>2, <3>3, <4>1, LimiterNumbers
    <3>5. c < first + 1
      BY <1>1, <2>2, <3>4, LimiterNumbers, BucketsApart
    <3>6. c = first
      BY <1>1, <2>1, <2>2, <3>5
    <3> QED  BY <3>3, <3>6 DEF Early, first
  <2>6. Passed(t) # 0 => Passed(t) + Early(t) <= MaxLimited
    <3> SUFFICES ASSUME Passed(t) # 0 PROVE Passed(t) + Early(t) <= MaxLimited
      OBVIOUS
    <3>1. PICK u \in Stretch(t) : allowed[u] # 0
      BY TotalOfNone DEF Passed
    <3>2. Passed(t) + Cardinality(InBefore(t, BucketOf(u))) + Early(t) <= MaxLimited
      BY <1>6, <3>1 DEF RoomIsLeft
    <3> QED  BY <3>2, Sizes, LimiterNumbers
  <2>7. /\ Passed(t) \in Nat /\ Early(t) \in {0, 1} /\ Cardinality(In(t)) \in Nat
        /\ Cardinality(In(t)) <= Cardinality(Checkers) /\ (In(t) = {} => Cardinality(In(t)) = 0)
    BY Sizes, SomeCheckers, FS_EmptySet
  <2>8. Passed(t) + Cardinality(In(t)) <= MaxLimited + Cardinality(Checkers) - 1
    <3>1. CASE In(t) = {}
      BY <2>6, <2>7, <3>1, LimiterNumbers
    <3>2. CASE In(t) # {}
      BY <2>5, <2>6, <2>7, <3>2, LimiterNumbers
    <3> QED  BY <3>1, <3>2
  <2>9. Passed(t)' = Passed(t) /\ In(t)' = In(t)
    BY <1>2 DEF Passed, In, Checking
  <2> QED  BY <2>4, <2>8, <2>9 DEF IsOver, Limits
<1> QED  BY <1>4, <1>5, <1>6 DEF Limits

LEMMA NextLimits ==
  ASSUME ShortChecks, LimiterInv, [Limiter!Next]_(Limiter!limiterVars) PROVE LimiterInv'
<1> USE DEF LimiterInv
<1>1. CASE UNCHANGED Limiter!limiterVars
  <2>1. LimiterType' /\ LimiterTimes'
    BY <1>1 DEF Limiter!limiterVars, LimiterType, LimiterTimes, Checking
  <2>2. ASSUME NEW t \in 0..LastTime PROVE Limits(t)'
    <3>1. Fewer /\ allowed' = allowed /\ clock <= clock' /\ Early(t)' <= Early(t)
      BY <1>1, Sizes DEF Limiter!limiterVars, Fewer, Checking, Early, LimiterType
    <3>2. \A c \in Limiter!Buckets : counter[c] <= counter'[c]
      BY <1>1 DEF Limiter!limiterVars, LimiterType
    <3> QED  BY <2>1, <3>1, <3>2, QuietStep
  <2> QED  BY <2>1, <2>2
<1>2. CASE Limiter!Next
  <2>1. LimiterType' /\ LimiterTimes'
    BY <1>2, NextLimiterTyped
  <2>2. ASSUME NEW t \in 0..LastTime PROVE Limits(t)'
    <3>1. ASSUME NEW p \in Checkers, Limiter!Increment(p) PROVE Limits(t)'
      BY <2>1, <3>1, IncrementLimits
    <3>2. ASSUME NEW p \in Checkers, Limiter!SetExpiry(p) PROVE Limits(t)'
      BY <2>1, <3>2, ExpiryLimits
    <3>3. ASSUME NEW p \in Checkers, Limiter!Sum(p) PROVE Limits(t)'
      BY <2>1, <3>3, SumLimits
    <3>4. ASSUME NEW p \in Checkers, Limiter!Stop(p) PROVE Limits(t)'
      <4> USE <3>4 DEF Limiter!Stop
      <4>1. Fewer
        BY DEF Fewer, Checking, LimiterType
      <4>2. allowed' = allowed /\ Early(t)' = Early(t) /\ clock' = clock /\ clock \in Nat
        BY DEF Early, LimiterType
      <4>3. \A c \in Limiter!Buckets : counter[c] <= counter'[c]
        BY DEF LimiterType
      <4>4. Early(t)' <= Early(t) /\ clock <= clock'
        BY <4>2, Sizes
      <4> QED  BY <2>1, <4>1, <4>2, <4>3, <4>4, QuietStep
    <3>5. ASSUME Limiter!Pass PROVE Limits(t)'
      BY <2>1, <3>5, PassTimeLimits
    <3> QED  BY <1>2, <3>1, <3>2, <3>3, <3>4, <3>5 DEF Limiter!Next
  <2> QED  BY <2>1, <2>2
<1> QED  BY <1>1, <1>2

LEMMA LimitsHold == LimiterInv => Limiter!WindowIsLimited
<1> SUFFICES ASSUME LimiterInv, NEW t \in 0..LastTime
             PROVE  Passed(t) <= MaxLimited + Cardinality(Checkers) - 1
  BY SameCardinality DEF Limiter!WindowIsLimited, Passed, Stretch
<1>1. Limits(t)
  BY DEF LimiterInv
<1>2. Passed(t) \in Nat /\ Early(t) \in Nat /\ Cardinality(In(t)) \in Nat
  BY Sizes
<1>3. CASE IsOver(t)
  BY <1>2, <1>3, LimiterNumbers DEF IsOver
<1>4. CASE RoomIsLeft(t) /\ Passed(t) # 0
  <2>1. PICK u \in Stretch(t) : allowed[u] # 0
    BY <1>4, TotalOfNone DEF Passed
  <2>2. Passed(t) + Cardinality(InBefore(t, BucketOf(u))) + Early(t) <= MaxLimited
    BY <1>4, <2>1 DEF RoomIsLeft
  <2> QED  BY <1>2, <2>2, Sizes, LimiterNumbers
<1>5. CASE Passed(t) = 0
  BY <1>5, LimiterNumbers
<1> QED  BY <1>1, <1>3, <1>4, <1>5 DEF Limits

\* "Max allowed events in the window" (RateLimiter): a window never lets more
\* attempts pass than the limit, and one more for every other process that was
\* inside is_limited when a bucket ended.
THEOREM LimitIsKept == ASSUME ShortChecks PROVE Spec => []WindowIsLimited
<1>1. LimiterInv /\ [Next]_vars => LimiterInv'
  BY ServicesStep, NextLimits
<1>2. LimiterInv => WindowIsLimited
  BY LimitsHold DEF WindowIsLimited
<1> QED  BY <1>1, <1>2, ServicesInit, InitLimits, PTL DEF Spec
-----------------------------------------------------------------------------
\* A set of numbers up to N that has 0, and with n < N also n + 1, has all:
\* what is missing from below shrinks, and finite sets do not shrink for ever.
LEMMA UpTo ==
  ASSUME NEW N \in Nat, NEW P \in SUBSET (0..N), 0 \in P,
         \A n \in P : n < N => n + 1 \in P
  PROVE  P = 0..N
<1> SUFFICES ASSUME NEW y \in (0..N) \ P PROVE FALSE
  OBVIOUS
<1> DEFINE M == (0..N) \ P
           Below(x) == {z \in M : z =< x}
           Chains == {Below(x) : x \in M}
<1>1. \A x \in M : Below(x) \in FiniteSubsetsOf(0..N)
  <2>1. IsFiniteSet(0..N)
    BY FS_Interval
  <2> QED  BY <2>1, FS_Subset DEF FiniteSubsetsOf
<1>2. PICK C \in Chains : \A D \in Chains : <<D, C>> \notin StrictSubsetOrdering(0..N)
  <2>1. Chains \subseteq FiniteSubsetsOf(0..N) /\ Chains # {}
    BY <1>1
  <2> HIDE DEF Chains
  <2> QED  BY <2>1, WFMin, FS_StrictSubsetOrderingWellFounded
<1>3. PICK x \in M : C = Below(x)
  BY <1>2
<1>4. x # 0 /\ x - 1 \in 0..N /\ x - 1 < N /\ x = (x - 1) + 1
  BY <1>3
<1>5. x - 1 \in M
  BY <1>3, <1>4
<1>6. Below(x - 1) \subseteq Below(x) /\ x \in Below(x) /\ x \notin Below(x - 1)
  BY <1>3, <1>4, <1>5
<1>7. <<Below(x - 1), Below(x)>> \in StrictSubsetOrdering(0..N)
  BY <1>1, <1>3, <1>5, <1>6 DEF StrictSubsetOrdering
<1> QED  BY <1>2, <1>3, <1>5, <1>7

\* A function may be defined from each number to the next.
Defined(X, N, start, step) ==
    {g \in [0..N -> X] : g[0] = start /\ \A i \in 1..N : g[i] = step[i][g[i - 1]]}
LEMMA Steps ==
  ASSUME NEW X, NEW N \in Nat, NEW start \in X, NEW step \in [1..N -> [X -> X]]
  PROVE  Defined(X, N, start, step) # {}
<1> DEFINE Fits(g, k) == g[0] = start /\ \A i \in 1..k : g[i] = step[i][g[i - 1]]
           P == {k \in 0..N : \E g \in [0..k -> X] : Fits(g, k)}
<1>1. 0 \in P
  <2>2. 0..0 = {0} /\ 1..0 = {} /\ 0 \in 0..N
    OBVIOUS
  <2>1. [i \in 0..0 |-> start] \in [0..0 -> X] /\ Fits([i \in 0..0 |-> start], 0)
    BY <2>2
  <2> QED  BY <2>1, <2>2
<1>2. ASSUME NEW k \in P, k < N PROVE k + 1 \in P
  <2>1. PICK g \in [0..k -> X] : Fits(g, k)
    BY <1>2
  <2>2. k \in 0..N /\ k + 1 \in 1..N /\ k \in Nat
    BY <1>2
  <2> DEFINE h == [i \in 0..(k + 1) |-> IF i = k + 1 THEN step[k + 1][g[k]] ELSE g[i]]
  <2>3. h \in [0..(k + 1) -> X]
    BY <2>1, <2>2
  <2>4. h[0] = start
    BY <2>1, <2>2
  <2>5. ASSUME NEW i \in 1..(k + 1) PROVE h[i] = step[i][h[i - 1]]
    <3>1. CASE i \in 1..k
      BY <2>1, <2>2, <3>1
    <3>2. CASE i = k + 1
      BY <2>2, <3>2
    <3> QED  BY <2>2, <3>1, <3>2
  <2>6. Fits(h, k + 1)
    BY <2>4, <2>5
  <2> HIDE DEF h, Fits
  <2> QED  BY <2>2, <2>3, <2>6
<1>3. P \in SUBSET (0..N)
  OBVIOUS
<1> HIDE DEF P
<1>4. N \in P
  BY <1>1, <1>2, <1>3, UpTo
<1> QED  BY <1>4 DEF P, Defined

LEMMA SublistSteps ==
  ASSUME NEW S, NEW s \in Seq(S), NEW T
  PROVE  \E f \in [0..Len(s) -> Seq(S)] :
             /\ Stream!Sublist(s, T) = f[Len(s)]
             /\ f[0] = <<>>
             /\ \A i \in 1..Len(s) :
                    f[i] = IF s[i] \in T THEN Append(f[i - 1], s[i]) ELSE f[i - 1]
<1> DEFINE N == Len(s)
           step == [i \in 1..N |-> [q \in Seq(S) |-> IF s[i] \in T THEN Append(q, s[i]) ELSE q]]
           Fits(g) == g = [i \in 0..N |-> IF i = 0 THEN <<>>
                           ELSE IF s[i] \in T THEN Append(g[i - 1], s[i]) ELSE g[i - 1]]
           f == CHOOSE g : Fits(g)
<1>1. N \in Nat /\ \A i \in 1..N : s[i] \in S
  OBVIOUS
<1>2. step \in [1..N -> [Seq(S) -> Seq(S)]] /\ <<>> \in Seq(S)
  BY <1>1
<1>3. \A i \in 1..N, q \in Seq(S) : step[i][q] = IF s[i] \in T THEN Append(q, s[i]) ELSE q
  OBVIOUS
<1> HIDE DEF step
<1>4. PICK g \in [0..N -> Seq(S)] : g[0] = <<>> /\ \A i \in 1..N : g[i] = step[i][g[i - 1]]
  <2> DEFINE X == Seq(S)
  <2>1. N \in Nat /\ step \in [1..N -> [X -> X]] /\ <<>> \in X
    BY <1>1, <1>2
  <2> HIDE DEF N, X
  <2>2. Defined(X, N, <<>>, step) # {}
    BY <2>1, Steps
  <2> QED  BY <2>2 DEF N, X, Defined
<1>5. \A i \in 1..N : i - 1 \in 0..N
  BY <1>1
<1>6. \A i \in 1..N : g[i] = IF s[i] \in T THEN Append(g[i - 1], s[i]) ELSE g[i - 1]
  BY <1>3, <1>4, <1>5
<1>7. Fits(g)
  <2>1. \A i \in 0..N : i # 0 => i \in 1..N
    BY <1>1
  <2>2. g = [i \in 0..N |-> g[i]]
    BY <1>4
  <2> QED  BY <1>4, <1>6, <2>1, <2>2
<1>8. Fits(f)
  <2> HIDE DEF Fits
  <2> QED  BY <1>7
<1>9. Stream!Sublist(s, T) = f[N]
  BY DEF Stream!Sublist
<1>10. 0 \in 0..N /\ \A i \in 1..N : i \in 0..N /\ i # 0
  BY <1>1
<1> HIDE DEF f
<1>11. f[0] = <<>> /\ \A i \in 1..N : f[i] = IF s[i] \in T THEN Append(f[i - 1], s[i]) ELSE f[i - 1]
  BY <1>8, <1>10
<1>12. f = [i \in 0..N |-> f[i]]
  BY <1>8
<1> DEFINE P == {i \in 0..N : f[i] \in Seq(S)}
<1>13. P = 0..N
  <2>1. 0 \in P /\ P \in SUBSET (0..N)
    BY <1>2, <1>10, <1>11
  <2>2. ASSUME NEW n \in P, n < N PROVE n + 1 \in P
    <3>1. n + 1 \in 1..N /\ n + 1 \in 0..N /\ n = (n + 1) - 1
      BY <1>1, <2>2
    <3>2. f[n + 1] = IF s[n + 1] \in T THEN Append(f[n], s[n + 1]) ELSE f[n]
      BY <1>11, <3>1
    <3>3. f[n] \in Seq(S) /\ s[n + 1] \in S
      BY <1>1, <2>2, <3>1
    <3>4. Append(f[n], s[n + 1]) \in Seq(S)
      BY <3>3
    <3> QED  BY <3>1, <3>2, <3>3, <3>4
  <2> HIDE DEF P
  <2> QED  BY <1>1, <2>1, <2>2, UpTo
<1>14. f \in [0..N -> Seq(S)]
  BY <1>12, <1>13
<1> HIDE DEF Fits
<1> QED  BY <1>9, <1>11, <1>14

NoRepeats(s) == \A i, j \in 1..Len(s) : s[i] = s[j] => i = j
Once(s, T) == \A i, j \in 1..Len(s) : s[i] \in T /\ s[i] = s[j] => i = j

LEMMA AddedAtEnd ==
  ASSUME NEW S, NEW q \in Seq(S), NEW x \in S
  PROVE  /\ Append(q, x) \in Seq(S)
         /\ Stream!Range(Append(q, x)) = Stream!Range(q) \cup {x}
         /\ NoRepeats(q) /\ x \notin Stream!Range(q) => NoRepeats(Append(q, x))
<1>1. /\ Len(q) \in Nat /\ DOMAIN q = 1..Len(q)
      /\ Len(Append(q, x)) = Len(q) + 1 /\ DOMAIN Append(q, x) = 1..Len(q) + 1
  OBVIOUS
<1>2. Append(q, x) \in Seq(S)
  OBVIOUS
<1>3. \A i \in 1..Len(q) : Append(q, x)[i] = q[i]
  OBVIOUS
<1>4. Append(q, x)[Len(q) + 1] = x
  OBVIOUS
<1>5. Stream!Range(Append(q, x)) = Stream!Range(q) \cup {x}
  BY <1>1, <1>3, <1>4 DEF Stream!Range
<1>6. ASSUME NoRepeats(q), x \notin Stream!Range(q) PROVE NoRepeats(Append(q, x))
  <2>1. \A i \in 1..Len(q) : q[i] # x
    BY <1>1, <1>6 DEF Stream!Range
  <2> SUFFICES ASSUME NEW i \in 1..Len(q) + 1, NEW j \in 1..Len(q) + 1,
                      Append(q, x)[i] = Append(q, x)[j], i # j
               PROVE  FALSE
    BY <1>1 DEF NoRepeats
  <2>2. CASE i = Len(q) + 1
    <3>1. j \in 1..Len(q)
      BY <1>1, <2>2
    <3> QED  BY <1>3, <1>4, <2>1, <2>2, <3>1
  <2>3. CASE j = Len(q) + 1
    <3>1. i \in 1..Len(q)
      BY <1>1, <2>3
    <3> QED  BY <1>3, <1>4, <2>1, <2>3, <3>1
  <2>4. CASE i \in 1..Len(q) /\ j \in 1..Len(q)
    <3>1. q[i] = q[j]
      BY <1>3, <2>4
    <3> QED  BY <1>6, <2>4, <3>1 DEF NoRepeats
  <2> QED  BY <1>1, <2>2, <2>3, <2>4
<1> QED  BY <1>2, <1>5, <1>6

LEMMA SublistIs ==
  ASSUME NEW S, NEW s \in Seq(S), NEW T
  PROVE  /\ Stream!Sublist(s, T) \in Seq(S)
         /\ Stream!Range(Stream!Sublist(s, T)) = Stream!Range(s) \cap T
         /\ Once(s, T) => NoRepeats(Stream!Sublist(s, T))
<1> DEFINE N == Len(s)
<1>1. N \in Nat /\ DOMAIN s = 1..N /\ \A i \in 1..N : s[i] \in S
  OBVIOUS
<1>2. PICK f \in [0..N -> Seq(S)] :
             /\ Stream!Sublist(s, T) = f[N]
             /\ f[0] = <<>>
             /\ \A i \in 1..N : f[i] = IF s[i] \in T THEN Append(f[i - 1], s[i]) ELSE f[i - 1]
  BY SublistSteps
<1> DEFINE Seen(i) == {s[j] : j \in 1..i} \cap T
           P == {i \in 0..N : Stream!Range(f[i]) = Seen(i) /\ (Once(s, T) => NoRepeats(f[i]))}
<1>3. 0 \in P
  <2>1. Seen(0) = {} /\ 0 \in 0..N
    BY <1>1
  <2>2. Stream!Range(<<>>) = {} /\ NoRepeats(<<>>)
    BY DEF Stream!Range, NoRepeats
  <2> QED  BY <1>2, <2>1, <2>2
<1>4. ASSUME NEW n \in P, n < N PROVE n + 1 \in P
  <2>1. n + 1 \in 1..N /\ n + 1 \in 0..N /\ n \in 0..N /\ n = (n + 1) - 1
    BY <1>1, <1>4
  <2>2. f[n + 1] = IF s[n + 1] \in T THEN Append(f[n], s[n + 1]) ELSE f[n]
    BY <1>2, <2>1
  <2>3. {s[j] : j \in 1..(n + 1)} = {s[j] : j \in 1..n} \cup {s[n + 1]}
    BY <2>1
  <2>4. f[n] \in Seq(S) /\ s[n + 1] \in S
    BY <1>1, <1>2, <2>1
  <2>5. Stream!Range(f[n]) = Seen(n) /\ (Once(s, T) => NoRepeats(f[n]))
    BY <1>4
  <2>6. CASE s[n + 1] \notin T
    <3>1. Seen(n + 1) = Seen(n)
      BY <2>3, <2>6
    <3> QED  BY <2>1, <2>2, <2>5, <2>6, <3>1
  <2>7. CASE s[n + 1] \in T
    <3>1. Seen(n + 1) = Seen(n) \cup {s[n + 1]}
      BY <2>3, <2>7
    <3>2. Stream!Range(Append(f[n], s[n + 1])) = Stream!Range(f[n]) \cup {s[n + 1]}
      BY <2>4, AddedAtEnd
    <3>3. ASSUME Once(s, T) PROVE NoRepeats(Append(f[n], s[n + 1]))
      <4>1. s[n + 1] \notin {s[j] : j \in 1..n}
        <5>1. ASSUME NEW j \in 1..n, s[n + 1] = s[j] PROVE FALSE
          <6>1. j \in 1..N /\ j # n + 1
            BY <1>1, <2>1
          <6> QED  BY <1>1, <2>1, <2>7, <3>3, <5>1, <6>1 DEF Once
        <5> QED  BY <5>1
      <4>2. s[n + 1] \notin Stream!Range(f[n])
        BY <2>5, <4>1
      <4>3. NoRepeats(f[n])
        BY <2>5, <3>3
      <4> QED  BY <2>4, <4>2, <4>3, AddedAtEnd
    <3> HIDE DEF Seen
    <3> QED  BY <2>1, <2>2, <2>5, <2>7, <3>1, <3>2, <3>3
  <2> QED  BY <2>6, <2>7
<1>5. P \in SUBSET (0..N)
  OBVIOUS
<1> HIDE DEF P
<1>6. N \in P
  BY <1>1, <1>3, <1>4, <1>5, UpTo
<1>7. Stream!Range(f[N]) = Seen(N) /\ (Once(s, T) => NoRepeats(f[N]))
  BY <1>6 DEF P
<1>8. Seen(N) = Stream!Range(s) \cap T
  BY <1>1 DEF Stream!Range
<1>9. f[N] \in Seq(S)
  BY <1>1, <1>2
<1> QED  BY <1>2, <1>7, <1>8, <1>9
-----------------------------------------------------------------------------
\* What the operators of ChatStream do to the calls and results of a list.
Items == Stream!ItemSet
Marks == {"call", "result"}

LEMMA ItemShape ==
  /\ \A i \in Items : i.type \in Stream!ItemTypes /\ i.id \in {0} \cup Stream!Calls
  /\ {Stream!Text, Stream!Blank, Stream!Code} \subseteq Items
  /\ \A c \in Stream!Calls : {Stream!Call(c), Stream!Result(c)} \subseteq Items
  /\ \A t \in Marks : Stream!Text.type # t /\ Stream!Blank.type # t /\ Stream!Code.type # t
  /\ \A c : /\ Stream!Call(c).type = "call" /\ Stream!Call(c).id = c
            /\ Stream!Result(c).type = "result" /\ Stream!Result(c).id = c
  /\ \A c : Stream!Call(c) # Stream!Code /\ Stream!Result(c) # Stream!Code
  /\ Stream!Text # Stream!Code /\ Stream!Blank # Stream!Code
  BY DEF Items, Marks, Stream!ItemSet, Stream!ItemTypes, Stream!Text, Stream!Blank, Stream!Code,
         Stream!Call, Stream!Result, Stream!Item

\* The identifiers, element by element.
LEMMA IdsOf ==
  ASSUME NEW out \in Seq(Items), NEW t
  PROVE  Stream!Ids(t, out) = {out[i].id : i \in {j \in 1..Len(out) : out[j].type = t}}
<1>1. DOMAIN out = 1..Len(out)
  OBVIOUS
<1> QED  BY <1>1 DEF Stream!Ids, Stream!Range

LEMMA IdsInCalls ==
  ASSUME NEW out \in Seq(Items), NEW t \in Marks
  PROVE  Stream!Ids(t, out) \subseteq {0} \cup Stream!Calls
<1>1. \A i \in 1..Len(out) : out[i] \in Items
  OBVIOUS
<1> QED  BY <1>1, IdsOf, ItemShape

LEMMA NoIds == \A t : Stream!Ids(t, <<>>) = {} /\ Stream!Range(<<>>) = {}
  BY DEF Stream!Ids, Stream!Range

LEMMA RangeJoined ==
  ASSUME NEW S, NEW a \in Seq(S), NEW b \in Seq(S)
  PROVE  a \o b \in Seq(S) /\ Stream!Range(a \o b) = Stream!Range(a) \cup Stream!Range(b)
<1>1. Range(a \o b) = Range(a) \cup Range(b)
  BY RangeConcatenation
<1>2. \A q : Range(q) = Stream!Range(q)
  BY DEF Range, Stream!Range
<1> QED  BY <1>1, <1>2

LEMMA IdsJoined ==
  ASSUME NEW a \in Seq(Items), NEW b \in Seq(Items), NEW t
  PROVE  /\ a \o b \in Seq(Items)
         /\ Stream!Ids(t, a \o b) = Stream!Ids(t, a) \cup Stream!Ids(t, b)
<1>1. Stream!Range(a \o b) = Stream!Range(a) \cup Stream!Range(b)
  BY RangeJoined
<1> QED  BY <1>1 DEF Stream!Ids

LEMMA IdsAppended ==
  ASSUME NEW a \in Seq(Items), NEW x \in Items, NEW t
  PROVE  /\ Append(a, x) \in Seq(Items)
         /\ Stream!Ids(t, Append(a, x)) =
                Stream!Ids(t, a) \cup IF x.type = t THEN {x.id} ELSE {}
<1>1. Stream!Range(Append(a, x)) = Stream!Range(a) \cup {x}
  BY AddedAtEnd
<1> QED  BY <1>1 DEF Stream!Ids

LEMMA BlankAdded ==
  ASSUME NEW a \in Seq(Items)
  PROVE  /\ Append(a, Stream!Blank) \in Seq(Items)
         /\ \A t \in Marks : Stream!Ids(t, Append(a, Stream!Blank)) = Stream!Ids(t, a)
         /\ Stream!Range(Append(a, Stream!Blank)) = Stream!Range(a) \cup {Stream!Blank}
<1>1. Stream!Blank \in Items /\ \A t \in Marks : Stream!Blank.type # t
  BY ItemShape
<1>2. ASSUME NEW t \in Marks PROVE Stream!Ids(t, Append(a, Stream!Blank)) = Stream!Ids(t, a)
  <2>1. Stream!Ids(t, Append(a, Stream!Blank)) = Stream!Ids(t, a)
            \cup IF Stream!Blank.type = t THEN {Stream!Blank.id} ELSE {}
    BY <1>1, IdsAppended
  <2> QED  BY <1>1, <2>1
<1>3. /\ Append(a, Stream!Blank) \in Seq(Items)
      /\ Stream!Range(Append(a, Stream!Blank)) = Stream!Range(a) \cup {Stream!Blank}
  BY <1>1, AddedAtEnd
<1> QED  BY <1>2, <1>3

\* Without its last item.
LEMMA FrontIs ==
  ASSUME NEW out \in Seq(Items), out # <<>>, NEW t
  PROVE  /\ Stream!Front(out) \in Seq(Items)
         /\ Stream!Range(Stream!Front(out)) \subseteq Stream!Range(out)
         /\ Len(Stream!Front(out)) = Len(out) - 1
         /\ \A i \in 1..Len(out) - 1 : Stream!Front(out)[i] = out[i]
         /\ Stream!Last(out) = out[Len(out)] /\ Stream!Last(out) \in Items
         /\ Stream!Last(out).type # t => Stream!Ids(t, Stream!Front(out)) = Stream!Ids(t, out)
<1> DEFINE n == Len(out) - 1
           f == Stream!Front(out)
<1>1. Len(out) \in Nat \ {0} /\ n \in Nat /\ \A i \in 1..Len(out) : out[i] \in Items
  OBVIOUS
<1>2. f = SubSeq(out, 1, n)
  BY DEF Stream!Front
<1>3. f \in Seq(Items) /\ Len(f) = n /\ \A i \in 1..n : f[i] = out[i]
  <2>1. 1 \in Int /\ n \in Int /\ n - 1 + 1 = n /\ \A i \in 1..n : out[i] \in Items /\ 1 + i - 1 = i
    BY <1>1
  <2> HIDE DEF n, f
  <2>2. 1 <= n \/ n = 0
    BY <1>1
  <2> QED  BY <1>2, <2>1, <2>2, SubSeqProperties
<1>4. Stream!Last(out) = out[Len(out)] /\ Stream!Last(out) \in Items
  BY <1>1 DEF Stream!Last
<1>5. Stream!Range(f) \subseteq Stream!Range(out)
  <2>1. DOMAIN f = 1..n /\ DOMAIN out = 1..Len(out)
    BY <1>3
  <2> HIDE DEF f
  <2> QED  BY <1>1, <1>3, <2>1 DEF Stream!Range
<1>6. ASSUME Stream!Last(out).type # t PROVE Stream!Ids(t, f) = Stream!Ids(t, out)
  <2>1. {j \in 1..Len(out) : out[j].type = t} = {j \in 1..n : f[j].type = t}
    BY <1>1, <1>3, <1>4, <1>6
  <2>2. \A i \in {j \in 1..n : f[j].type = t} : f[i].id = out[i].id
    BY <1>3
  <2> HIDE DEF f
  <2>3. Stream!Ids(t, f) = {f[i].id : i \in {j \in 1..n : f[j].type = t}}
    BY <1>3, IdsOf
  <2>4. Stream!Ids(t, out) = {out[i].id : i \in {j \in 1..n : f[j].type = t}}
    BY <2>1, IdsOf
  <2> HIDE DEF n
  <2> QED  BY <2>2, <2>3, <2>4
<1> QED  BY <1>3, <1>4, <1>5, <1>6

LEMMA CleanedIs ==
  ASSUME NEW out \in Seq(Items)
  PROVE  /\ Stream!Cleaned(out) \in Seq(Items)
         /\ \A t \in Marks : Stream!Ids(t, Stream!Cleaned(out)) = Stream!Ids(t, out)
         /\ Stream!Range(Stream!Cleaned(out)) \subseteq Stream!Range(out)
         /\ Len(Stream!Cleaned(out)) <= Len(out)
         /\ \A i \in 1..Len(Stream!Cleaned(out)) : Stream!Cleaned(out)[i] = out[i]
<1>1. CASE Len(out) > 1 /\ Stream!Last(out).type = "blank"
  <2>1. out # <<>> /\ Stream!Cleaned(out) = Stream!Front(out)
    BY <1>1 DEF Stream!Cleaned
  <2>2. \A t \in Marks : Stream!Last(out).type # t
    BY <1>1 DEF Marks
  <2>3. \A t \in Marks : Stream!Ids(t, Stream!Front(out)) = Stream!Ids(t, out)
    BY <2>1, <2>2, FrontIs
  <2>4. Len(out) \in Nat
    OBVIOUS
  <2> DEFINE f == Stream!Front(out)
  <2>5. /\ f \in Seq(Items) /\ Stream!Range(f) \subseteq Stream!Range(out)
        /\ Len(f) = Len(out) - 1 /\ \A i \in 1..Len(out) - 1 : f[i] = out[i]
    BY <2>1, FrontIs
  <2> HIDE DEF f
  <2>6. Len(f) <= Len(out) /\ \A i \in 1..Len(f) : f[i] = out[i]
    BY <2>4, <2>5
  <2> QED  BY <2>1, <2>3, <2>5, <2>6 DEF f
<1>2. CASE ~(Len(out) > 1 /\ Stream!Last(out).type = "blank")
  BY <1>2 DEF Stream!Cleaned
<1> QED  BY <1>1, <1>2

LEMMA WithTextIs ==
  ASSUME NEW out \in Seq(Items)
  PROVE  /\ Stream!WithText(out) \in Seq(Items)
         /\ \A t \in Marks : Stream!Ids(t, Stream!WithText(out)) = Stream!Ids(t, out)
<1>1. CASE out # <<>> /\ Stream!Last(out).type \in {"text", "blank"}
  <2> DEFINE w == [out EXCEPT ![Len(out)] = Stream!Text]
  <2>1. Stream!WithText(out) = w
    BY <1>1 DEF Stream!WithText
  <2>2. Len(out) \in 1..Len(out) /\ Stream!Text \in Items
    BY <1>1, ItemShape
  <2>3. w \in Seq(Items) /\ Len(w) = Len(out)
        /\ \A j \in 1..Len(out) : w[j] = IF j = Len(out) THEN Stream!Text ELSE out[j]
    BY <2>2
  <2>4. out[Len(out)].type \in {"text", "blank"}
    BY <1>1 DEF Stream!Last
  <2>5. ASSUME NEW t \in Marks PROVE Stream!Ids(t, w) = Stream!Ids(t, out)
    <3>1. Stream!Text.type # t /\ out[Len(out)].type # t
      BY <2>4, ItemShape DEF Marks
    <3> HIDE DEF w
    <3>2. {j \in 1..Len(w) : w[j].type = t} = {j \in 1..Len(out) : out[j].type = t}
      BY <2>3, <3>1
    <3>3. \A j \in {k \in 1..Len(out) : out[k].type = t} : w[j] = out[j]
      BY <2>3, <3>1
    <3> DEFINE where == {j \in 1..Len(out) : out[j].type = t}
    <3>4. Stream!Ids(t, w) = {w[i].id : i \in where}
      BY <2>3, <3>2, IdsOf
    <3>5. Stream!Ids(t, out) = {out[i].id : i \in where}
      BY IdsOf
    <3> HIDE DEF where
    <3> QED  BY <3>3, <3>4, <3>5 DEF where
  <2> HIDE DEF w
  <2>6. w \in Seq(Items)
    BY <2>3
  <2> QED  BY <2>1, <2>5, <2>6
<1>2. CASE ~(out # <<>> /\ Stream!Last(out).type \in {"text", "blank"})
  <2>1. Stream!WithText(out) = Append(out, Stream!Text)
    BY <1>2 DEF Stream!WithText
  <2>2. Stream!Text \in Items /\ \A t \in Marks : Stream!Text.type # t
    BY ItemShape
  <2>3. \A t : /\ Append(out, Stream!Text) \in Seq(Items)
              /\ Stream!Ids(t, Append(out, Stream!Text)) =
                     Stream!Ids(t, out) \cup IF Stream!Text.type = t THEN {Stream!Text.id} ELSE {}
    BY <2>2, IdsAppended
  <2> QED  BY <2>1, <2>2, <2>3
<1> QED  BY <1>1, <1>2

\* The items of some calls, and of their results.
LEMMA CallItems ==
  ASSUME NEW l \in Seq(Stream!Calls), NEW m, m = [i \in DOMAIN l |-> Stream!Call(l[i])]
  PROVE  /\ m \in Seq(Items)
         /\ Stream!Ids("call", m) = Stream!Range(l) /\ Stream!Ids("result", m) = {}
         /\ Stream!Code \notin Stream!Range(m)
<1>1. Len(l) \in Nat /\ DOMAIN l = 1..Len(l) /\ \A i \in 1..Len(l) : l[i] \in Stream!Calls
  OBVIOUS
<1>2. \A i \in 1..Len(l) : Stream!Call(l[i]) \in Items
  BY <1>1, ItemShape
<1>3. m \in Seq(Items) /\ Len(m) = Len(l) /\ DOMAIN m = 1..Len(l)
  BY <1>1, <1>2
<1>4. \A i \in 1..Len(l) : m[i] = Stream!Call(l[i])
  BY <1>1
<1>5. \A i \in 1..Len(l) : m[i].type = "call" /\ m[i].id = l[i] /\ m[i] # Stream!Code
  BY <1>4, ItemShape
<1>6. Stream!Ids("call", m) = Stream!Range(l)
  <2> DEFINE where == {j \in 1..Len(m) : m[j].type = "call"}
  <2>1. where = 1..Len(l)
    BY <1>3, <1>5
  <2>a. Stream!Ids("call", m) = {m[i].id : i \in where}
    BY <1>3, IdsOf
  <2> HIDE DEF where
  <2>2. Stream!Ids("call", m) = {m[i].id : i \in 1..Len(l)}
    BY <2>1, <2>a
  <2> QED  BY <1>1, <1>5, <2>2 DEF Stream!Range
<1>7. Stream!Ids("result", m) = {}
  <2> DEFINE where == {j \in 1..Len(m) : m[j].type = "result"}
  <2>1. where = {}
    BY <1>3, <1>5
  <2>2. Stream!Ids("result", m) = {m[i].id : i \in where}
    BY <1>3, IdsOf
  <2> HIDE DEF where
  <2> QED  BY <2>1, <2>2
<1> QED  BY <1>3, <1>5, <1>6, <1>7 DEF Stream!Range

LEMMA ResultItems ==
  ASSUME NEW l \in Seq(Stream!Calls), NEW m, m = [i \in DOMAIN l |-> Stream!Result(l[i])]
  PROVE  /\ m \in Seq(Items)
         /\ Stream!Ids("result", m) = Stream!Range(l) /\ Stream!Ids("call", m) = {}
         /\ Stream!Code \notin Stream!Range(m)
<1>1. Len(l) \in Nat /\ DOMAIN l = 1..Len(l) /\ \A i \in 1..Len(l) : l[i] \in Stream!Calls
  OBVIOUS
<1>2. \A i \in 1..Len(l) : Stream!Result(l[i]) \in Items
  BY <1>1, ItemShape
<1>3. m \in Seq(Items) /\ Len(m) = Len(l) /\ DOMAIN m = 1..Len(l)
  BY <1>1, <1>2
<1>4. \A i \in 1..Len(l) : m[i] = Stream!Result(l[i])
  BY <1>1
<1>5. \A i \in 1..Len(l) : m[i].type = "result" /\ m[i].id = l[i] /\ m[i] # Stream!Code
  BY <1>4, ItemShape
<1>6. Stream!Ids("result", m) = Stream!Range(l)
  <2> DEFINE where == {j \in 1..Len(m) : m[j].type = "result"}
  <2>1. where = 1..Len(l)
    BY <1>3, <1>5
  <2>a. Stream!Ids("result", m) = {m[i].id : i \in where}
    BY <1>3, IdsOf
  <2> HIDE DEF where
  <2>2. Stream!Ids("result", m) = {m[i].id : i \in 1..Len(l)}
    BY <2>1, <2>a
  <2> QED  BY <1>1, <1>5, <2>2 DEF Stream!Range
<1>7. Stream!Ids("call", m) = {}
  <2> DEFINE where == {j \in 1..Len(m) : m[j].type = "call"}
  <2>1. where = {}
    BY <1>3, <1>5
  <2>2. Stream!Ids("call", m) = {m[i].id : i \in where}
    BY <1>3, IdsOf
  <2> HIDE DEF where
  <2> QED  BY <2>1, <2>2
<1> QED  BY <1>3, <1>5, <1>6, <1>7 DEF Stream!Range

\* The calls without a result, in their order.
LEMMA UnhandledIs ==
  ASSUME NEW out \in Seq(Items)
  PROVE  /\ Stream!Unhandled(out) \in Seq(Stream!Calls)
         /\ Stream!Range(Stream!Unhandled(out)) \subseteq
                Stream!Ids("call", out) \ Stream!Ids("result", prior \o out)
         /\ Once(out, {i \in Items : i.type = "call"}) => NoRepeats(Stream!Unhandled(out))
<1> DEFINE some == {Stream!Call(c) : c \in Stream!Calls \ Stream!Ids("result", prior \o out)}
           open == Stream!Sublist(out, some)
           u == [i \in DOMAIN open |-> open[i].id]
<1>1. Stream!Unhandled(out) = u
  BY DEF Stream!Unhandled
<1>2. /\ open \in Seq(Items) /\ Stream!Range(open) = Stream!Range(out) \cap some
      /\ Once(out, some) => NoRepeats(open)
  BY SublistIs
<1>3. \A x \in some : /\ x \in Items /\ x.type = "call" /\ x.id \in Stream!Calls
                      /\ x = Stream!Call(x.id) /\ x.id \notin Stream!Ids("result", prior \o out)
  BY ItemShape
<1> HIDE DEF some, open
<1>4. DOMAIN open = 1..Len(open) /\ Len(open) \in Nat
      /\ \A i \in 1..Len(open) : open[i] \in Stream!Range(out) /\ open[i] \in some
  <2>1. DOMAIN open = 1..Len(open) /\ Len(open) \in Nat
    BY <1>2
  <2>2. \A i \in 1..Len(open) : open[i] \in Stream!Range(open)
    BY <2>1 DEF Stream!Range
  <2> QED  BY <1>2, <2>1, <2>2
<1>5. u \in Seq(Stream!Calls) /\ Len(u) = Len(open) /\ DOMAIN u = 1..Len(open)
      /\ \A i \in 1..Len(open) : u[i] = open[i].id
  BY <1>3, <1>4
<1> HIDE DEF u
<1>6. \A i \in 1..Len(open) : u[i] \in Stream!Ids("call", out)
                              /\ u[i] \notin Stream!Ids("result", prior \o out)
  BY <1>3, <1>4, <1>5 DEF Stream!Ids
<1>7. Stream!Range(u) \subseteq Stream!Ids("call", out) \ Stream!Ids("result", prior \o out)
  BY <1>5, <1>6 DEF Stream!Range
<1>8. ASSUME Once(out, {i \in Items : i.type = "call"}) PROVE NoRepeats(u)
  <2>1. NoRepeats(open)
    BY <1>2, <1>3, <1>8 DEF Once
  <2>2. \A i, j \in 1..Len(open) : u[i] = u[j] => open[i] = open[j]
    BY <1>3, <1>4, <1>5
  <2> QED  BY <1>5, <2>1, <2>2 DEF NoRepeats
<1> QED  BY <1>1, <1>5, <1>7, <1>8
-----------------------------------------------------------------------------
StreamType ==
    /\ api \in {"chat", "responses"} /\ realtime \in BOOLEAN
    /\ streamPc \in Stream!Streaming \cup
           {"loop", "tools", "ask", "code", "askCode", "finish", "ended"}
    /\ output \in Seq(Items) /\ prior \in Seq(Items) /\ items \in Seq(Items)
    /\ streamed \in Seq(Stream!Calls) /\ queue \in Seq(Seq(Stream!Calls))
    /\ turn \in Seq(Stream!Calls) /\ at \in 0..Len(turn)
    /\ row \in [output : Seq(Items), done : BOOLEAN, error : BOOLEAN]
    /\ calls \in 0..MaxCalls /\ ran \in [Stream!Calls -> Nat]
    /\ recorded \subseteq Stream!Calls /\ continues \in Nat

LEMMA InitStreamType == Stream!Init => StreamType
<1> SUFFICES ASSUME Stream!Init PROVE StreamType
  OBVIOUS
<1>1. <<>> \in Seq(Items) /\ <<>> \in Seq(Stream!Calls) /\ <<>> \in Seq(Seq(Stream!Calls))
  OBVIOUS
<1>2. MaxCalls \in Nat /\ api \in {"chat", "responses"} /\ realtime \in BOOLEAN
  BY StreamAssumption DEF Stream!Init
<1> QED  BY <1>1, <1>2 DEF Stream!Init, StreamType, Stream!Streaming

\* The end of a stream, in one piece.
EndCalls(out) == IF streamed # <<>> THEN streamed ELSE Stream!Unhandled(Stream!Cleaned(out))
Ends(out) ==
    /\ queue' = IF EndCalls(out) = <<>> THEN queue ELSE Append(queue, EndCalls(out))
    /\ output' = IF streamPc = "again" THEN prior \o Stream!Cleaned(out) ELSE Stream!Cleaned(out)
    /\ prior' = IF streamPc = "again" THEN <<>> ELSE prior
    /\ streamPc' = IF streamPc = "coding" THEN "code" ELSE "loop"
    /\ UNCHANGED <<api, realtime, items, streamed, turn, at, base, sent, row, calls, ran,
                   recorded, cuts, continues>>

\* What stands at the end: the items of the response, or the output, or the
\* output and a block of code.
Final(out) ==
    \/ api = "responses" /\ out = items
    \/ /\ api = "chat" /\ out \in Seq(Items)
       /\ out \in {output, Append(Stream!Cleaned(output), Stream!Code)}
       /\ \A t \in Marks : Stream!Ids(t, out) = Stream!Ids(t, output)

LEMMA StreamEnding ==
  ASSUME StreamType, Stream!EndStream \/ Stream!EndStreamWithCode
  PROVE  streamPc \in Stream!Streaming /\ \E out \in Seq(Items) : Final(out) /\ Ends(out)
<1>1. \A out : Stream!StreamEnds(out) => Ends(out)
  BY DEF Stream!StreamEnds, Ends, EndCalls, Stream!config, Stream!asked, Stream!history
<1>2. CASE Stream!EndStream
  <2> DEFINE out == IF api = "responses" THEN items ELSE output
  <2>1. out \in Seq(Items) /\ Final(out)
    BY DEF StreamType, Final
  <2>2. Stream!StreamEnds(out) /\ streamPc \in Stream!Streaming
    BY <1>2 DEF Stream!EndStream
  <2> HIDE DEF out
  <2> QED  BY <1>1, <2>1, <2>2
<1>3. CASE Stream!EndStreamWithCode
  <2> DEFINE out == Append(Stream!Cleaned(output), Stream!Code)
  <2>1. Stream!StreamEnds(out) /\ streamPc \in Stream!Streaming /\ api = "chat"
    BY <1>3 DEF Stream!EndStreamWithCode
  <2>2. Stream!Code \in Items /\ \A t \in Marks : Stream!Code.type # t
    BY ItemShape
  <2>3. output \in Seq(Items)
    BY DEF StreamType
  <2>4. /\ Stream!Cleaned(output) \in Seq(Items)
        /\ \A t \in Marks : Stream!Ids(t, Stream!Cleaned(output)) = Stream!Ids(t, output)
    BY <2>3, CleanedIs
  <2>a. \A t : Stream!Ids(t, out) = Stream!Ids(t, Stream!Cleaned(output))
                        \cup IF Stream!Code.type = t THEN {Stream!Code.id} ELSE {}
    BY <2>2, <2>4, IdsAppended
  <2>b. out \in Seq(Items)
    BY <2>2, <2>4
  <2>c. out \in {output, Append(Stream!Cleaned(output), Stream!Code)}
    OBVIOUS
  <2> HIDE DEF out
  <2>5. /\ out \in Seq(Items)
        /\ \A t \in Marks : Stream!Ids(t, out) = Stream!Ids(t, Stream!Cleaned(output))
    BY <2>2, <2>a, <2>b
  <2>6. Final(out)
    BY <2>1, <2>4, <2>5, <2>c DEF Final
  <2> QED  BY <1>1, <2>1, <2>5, <2>6
<1> QED  BY <1>2, <1>3

LEMMA EndCallsTyped ==
  ASSUME StreamType, NEW out \in Seq(Items)
  PROVE  EndCalls(out) \in Seq(Stream!Calls)
<1>1. Stream!Cleaned(out) \in Seq(Items)
  BY CleanedIs
<1>2. Stream!Unhandled(Stream!Cleaned(out)) \in Seq(Stream!Calls)
  BY <1>1, UnhandledIs
<1> QED  BY <1>2 DEF EndCalls, StreamType

LEMMA TypeEnds ==
  ASSUME StreamType, NEW out \in Seq(Items), Ends(out)
  PROVE  StreamType'
<1>1. EndCalls(out) \in Seq(Stream!Calls)
  BY EndCallsTyped
<1>2. Stream!Cleaned(out) \in Seq(Items)
  BY CleanedIs
<1>3. prior \o Stream!Cleaned(out) \in Seq(Items) /\ <<>> \in Seq(Items)
  BY <1>2 DEF StreamType
<1>4. Append(queue, EndCalls(out)) \in Seq(Seq(Stream!Calls))
  BY <1>1 DEF StreamType
<1>5. queue' \in Seq(Seq(Stream!Calls))
  BY <1>4 DEF Ends, StreamType
<1>6. output' \in Seq(Items) /\ prior' \in Seq(Items)
  BY <1>2, <1>3 DEF Ends, StreamType
<1> QED  BY <1>5, <1>6 DEF Ends, StreamType

LEMMA StoredTyped ==
  ASSUME StreamType
  PROVE  Stream!Stored \in [output : Seq(Items), done : BOOLEAN, error : BOOLEAN]
  BY DEF StreamType, Stream!Stored

\* An item goes to the end, and another copy of it over whatever its index finds.
LEMMA ItemAdded ==
  ASSUME StreamType, NEW item, Stream!StreamItem(item)
  PROVE  /\ item \in Items /\ item # Stream!Code
         /\ \/ item = Stream!Text /\ calls' = calls
            \/ item = Stream!Call(calls + 1) /\ calls' = calls + 1
         /\ calls' \in 0..MaxCalls
         /\ output' \in Seq(Items) /\ Len(output') = Len(output) + 1
         /\ \A i \in 1..Len(output') : output'[i] \in {Stream!Blank, item}
                                       \/ (i <= Len(output) /\ output'[i] = output[i])
         /\ items' = Append(items, item) /\ items' \in Seq(Items)
<1>1. /\ \/ item = Stream!Text /\ calls' = calls
         \/ item = Stream!Call(calls + 1) /\ calls < MaxCalls /\ calls' = calls + 1
      /\ items' = Append(items, item)
      /\ output' = [Append(output, IF item = Stream!Text THEN Stream!Blank ELSE item)
                        EXCEPT ![Len(items')] = item]
  BY DEF Stream!StreamItem
<1>2. item \in Items /\ item # Stream!Code /\ calls' \in 0..MaxCalls
  <2>1. calls \in 0..MaxCalls /\ MaxCalls \in Nat
    BY StreamAssumption DEF StreamType
  <2>2. CASE item = Stream!Text /\ calls' = calls
    BY <2>1, <2>2, ItemShape
  <2>3. CASE item = Stream!Call(calls + 1) /\ calls < MaxCalls /\ calls' = calls + 1
    <3>1. calls + 1 \in Stream!Calls /\ calls + 1 \in 0..MaxCalls
      BY <2>1, <2>3 DEF Stream!Calls
    <3> QED  BY <2>3, <3>1, ItemShape
  <2> QED  BY <1>1, <2>2, <2>3
<1> DEFINE new == IF item = Stream!Text THEN Stream!Blank ELSE item
           long == Append(output, new)
           k == Len(items')
<1>3. new \in Items /\ new \in {Stream!Blank, item} /\ output \in Seq(Items) /\ items \in Seq(Items)
  BY <1>2, ItemShape DEF StreamType
<1>4. output' = [long EXCEPT ![k] = item]
  BY <1>1
<1> HIDE DEF new
<1>5. /\ long \in Seq(Items) /\ Len(output) \in Nat /\ Len(long) = Len(output) + 1
      /\ \A i \in 1..Len(output) : long[i] = output[i]
      /\ long[Len(output) + 1] = new
  BY <1>3
<1> HIDE DEF long, k
<1>6. /\ output' \in Seq(Items) /\ Len(output') = Len(long)
      /\ \A i \in 1..Len(long) : output'[i] = IF i = k THEN item ELSE long[i]
  <2>1. CASE k \in 1..Len(long)
    BY <1>2, <1>4, <1>5, <2>1, ExceptSeq
  <2>2. CASE k \notin 1..Len(long)
    <3>1. long \in [1..Len(long) -> Items] /\ Len(long) \in Nat
      BY <1>5
    <3>2. output' = long
      BY <1>4, <2>2, <3>1
    <3> QED  BY <1>5, <2>2, <3>2
  <2> QED  BY <2>1, <2>2
<1>7. \A i \in 1..Len(output') : output'[i] \in {Stream!Blank, item}
                                 \/ (i <= Len(output) /\ output'[i] = output[i])
  <2> SUFFICES ASSUME NEW i \in 1..Len(output'), output'[i] # item
               PROVE  output'[i] = Stream!Blank \/ (i <= Len(output) /\ output'[i] = output[i])
    OBVIOUS
  <2>1. i \in 1..Len(output) + 1 /\ output'[i] = long[i]
    BY <1>5, <1>6
  <2>2. CASE i = Len(output) + 1
    BY <1>3, <1>5, <2>1, <2>2
  <2>3. CASE i \in 1..Len(output)
    BY <1>5, <2>1, <2>3
  <2> QED  BY <1>5, <2>1, <2>2, <2>3
<1>8. Append(items, item) \in Seq(Items)
  BY <1>2, <1>3
<1> QED  BY <1>1, <1>2, <1>5, <1>6, <1>7, <1>8

LEMMA NextStreamType == ASSUME StreamType, [Stream!Next]_(Stream!vars) PROVE StreamType'
<1> USE DEF Stream!config, Stream!loop, Stream!asked, Stream!history
<1>0. Stream!Streaming = {"first", "again", "coding"}
  BY DEF Stream!Streaming
<1>1. CASE Stream!StreamText
  <2>1. Stream!WithText(output) \in Seq(Items)
    BY WithTextIs DEF StreamType
  <2>2. prior \o Stream!WithText(output) \in Seq(Items)
    BY <2>1 DEF StreamType
  <2> QED  BY <1>1, <2>1, <2>2 DEF Stream!StreamText, StreamType
<1>2. CASE Stream!StreamCall
  <2>1. calls' \in 0..MaxCalls /\ calls' \in Stream!Calls
    <3>1. calls \in 0..MaxCalls /\ MaxCalls \in Nat
      BY StreamAssumption DEF StreamType
    <3> QED  BY <1>2, <3>1 DEF Stream!StreamCall, Stream!Calls
  <2>2. Append(streamed, calls') \in Seq(Stream!Calls)
    BY <2>1 DEF StreamType
  <2> QED  BY <1>2, <2>1, <2>2 DEF Stream!StreamCall, StreamType
<1>3. ASSUME NEW item, Stream!StreamItem(item) PROVE StreamType'
  <2>1. output' \in Seq(Items) /\ items' \in Seq(Items) /\ calls' \in 0..MaxCalls
    BY <1>3, ItemAdded
  <2> QED  BY <1>3, <2>1 DEF Stream!StreamItem, StreamType
<1>4. CASE Stream!EndStream \/ Stream!EndStreamWithCode
  BY <1>4, StreamEnding, TypeEnds
<1>5. CASE Stream!StreamRaises
  BY <1>0, <1>5 DEF Stream!StreamRaises, StreamType
<1>6. CASE Stream!BeginTurn
  <2>1. turn' \in Seq(Stream!Calls) /\ queue' \in Seq(Seq(Stream!Calls)) /\ at' \in 0..Len(turn')
    BY <1>6 DEF Stream!BeginTurn, StreamType
  <2> DEFINE added == Stream!Sublist(turn', Stream!Calls \ Stream!Ids("call", output))
             m == [i \in DOMAIN added |-> Stream!Call(added[i])]
  <2>2. added \in Seq(Stream!Calls)
    BY <2>1, SublistIs
  <2>3. output' = output \o m
    BY <1>6 DEF Stream!BeginTurn
  <2> HIDE DEF added
  <2>4. m \in Seq(Items)
    BY <2>2, CallItems
  <2> HIDE DEF m
  <2>5. output' \in Seq(Items)
    BY <2>3, <2>4 DEF StreamType
  <2> QED  BY <1>6, <2>1, <2>5 DEF Stream!BeginTurn, StreamType
<1>7. CASE Stream!RunTool
  <2>1. at' \in 0..Len(turn') /\ at' \in 1..Len(turn)
    BY <1>7 DEF Stream!RunTool, StreamType
  <2>2. turn[at'] \in Stream!Calls
    <3>1. turn \in Seq(Stream!Calls)
      BY DEF StreamType
    <3> QED  BY <2>1, <3>1
  <2>3. ran' \in [Stream!Calls -> Nat]
    <3> DEFINE c == turn[at']
    <3>1. ran' = [ran EXCEPT ![c] = @ + 1] /\ ran \in [Stream!Calls -> Nat]
      BY <1>7 DEF Stream!RunTool, StreamType
    <3>2. c \in Stream!Calls
      BY <2>2
    <3> HIDE DEF c
    <3> QED  BY <3>1, <3>2
  <2> QED  BY <1>7, <2>1, <2>3 DEF Stream!RunTool, StreamType
<1>8. CASE Stream!Record
  <2> DEFINE m == [i \in DOMAIN turn |-> Stream!Result(turn[i])]
  <2>1. m \in Seq(Items)
    BY ResultItems DEF StreamType
  <2>2. output' = output \o m \o <<Stream!Blank>>
    BY <1>8 DEF Stream!Record
  <2>3. Stream!Range(turn) \subseteq Stream!Calls
    <3>1. DOMAIN turn = 1..Len(turn) /\ \A i \in 1..Len(turn) : turn[i] \in Stream!Calls
      BY DEF StreamType
    <3> QED  BY <3>1 DEF Stream!Range
  <2> HIDE DEF m
  <2>4. output' \in Seq(Items)
    BY <2>1, <2>2, ItemShape DEF StreamType
  <2> QED  BY <1>8, <2>3, <2>4 DEF Stream!Record, StreamType
<1>9. CASE Stream!AskAgain
  <2>1. prior' \in Seq(Items)
    <3>1. CASE Stream!Last(output).type = "blank" /\ output # <<>>
      BY <1>9, <3>1, FrontIs DEF Stream!AskAgain, StreamType
    <3>2. CASE Stream!Last(output).type # "blank"
      BY <1>9, <3>2 DEF Stream!AskAgain, StreamType
    <3>3. CASE output = <<>>
      <4>1. Stream!Front(output) = <<>>
        BY <3>3 DEF Stream!Front
      <4>2. prior' = <<>>
        BY <1>9, <3>3, <4>1 DEF Stream!AskAgain
      <4> QED  BY <4>2
    <3> QED  BY <3>1, <3>2, <3>3
  <2>2. <<>> \in Seq(Items) /\ <<>> \in Seq(Stream!Calls)
    OBVIOUS
  <2> QED  BY <1>0, <1>9, <2>1, <2>2 DEF Stream!AskAgain, Stream!Ask, StreamType
<1>10. CASE Stream!AskFails
  BY <1>10 DEF Stream!AskFails, StreamType
<1>11. CASE Stream!LeaveLoop
  BY <1>11 DEF Stream!LeaveLoop, StreamType
<1>12. CASE Stream!RunCode
  <2>1. Append(output, Stream!Blank) \in Seq(Items)
    BY ItemShape DEF StreamType
  <2> QED  BY <1>12, <2>1 DEF Stream!RunCode, StreamType
<1>13. CASE Stream!AskCode
  <2>1. <<>> \in Seq(Items) /\ <<>> \in Seq(Stream!Calls)
    OBVIOUS
  <2> QED  BY <1>0, <1>13, <2>1 DEF Stream!AskCode, Stream!Ask, StreamType
<1>14. CASE Stream!Finish
  BY <1>14, StoredTyped DEF Stream!Finish, StreamType
<1>15. CASE Stream!Cancel
  BY <1>15, StoredTyped DEF Stream!Cancel, StreamType
<1>16. CASE Stream!Continue
  <2>1. <<>> \in Seq(Items) /\ <<>> \in Seq(Stream!Calls) /\ <<>> \in Seq(Seq(Stream!Calls))
    OBVIOUS
  <2>2. at' \in 0..Len(turn')
    BY <1>16 DEF Stream!Continue
  <2>3. row.output \in Seq(Items) /\ continues + 1 \in Nat
    BY DEF StreamType
  <2>5. [row EXCEPT !.done = FALSE] \in [output : Seq(Items), done : BOOLEAN, error : BOOLEAN]
    BY DEF StreamType
  <2>4. output' = row.output /\ row' = [row EXCEPT !.done = FALSE] /\ streamPc' = "first"
        /\ continues' = continues + 1
    BY <1>16 DEF Stream!Continue
  <2> QED  BY <1>0, <1>16, <2>1, <2>2, <2>3, <2>4, <2>5 DEF Stream!Continue, StreamType
<1>17. CASE UNCHANGED Stream!vars
  BY <1>17 DEF Stream!vars, StreamType
<1> QED  BY <1>1, <1>2, <1>3, <1>4, <1>5, <1>6, <1>7, <1>8, <1>9, <1>10, <1>11, <1>12, <1>13,
            <1>14, <1>15, <1>16, <1>17 DEF Stream!Next
-----------------------------------------------------------------------------
\* The calls of one stream at most wait in the queue, and none while more come.
Queued ==
    /\ streamPc = "loop" => Len(queue) <= 1
    /\ streamPc \in {"first", "again", "tools", "ask"} => queue = <<>>

LEMMA EndQueue ==
  ASSUME Queued, streamPc \in Stream!Streaming, NEW out, Ends(out), streamPc' = "loop"
  PROVE  Len(queue') <= 1 /\ \A i \in 1..Len(queue') : queue'[i] = EndCalls(out)
<1> DEFINE e == EndCalls(out)
<1>1. queue' = <<>> \/ queue' = Append(<<>>, e)
  BY DEF Queued, Ends, Stream!Streaming
<1> HIDE DEF e
<1>2. Len(<<>>) = 0 /\ Len(Append(<<>>, e)) = 1 /\ Append(<<>>, e)[1] = e
  OBVIOUS
<1>3. CASE queue' = <<>>
  BY <1>2, <1>3
<1>4. CASE queue' = Append(<<>>, e)
  <2>1. \A i \in 1..1 : i = 1
    OBVIOUS
  <2> QED  BY <1>2, <1>4, <2>1 DEF e
<1> QED  BY <1>1, <1>3, <1>4

LEMMA Taken ==
  ASSUME StreamType, Queued, Stream!BeginTurn
  PROVE  /\ 1 \in 1..Len(queue) /\ turn' = queue[1] /\ queue' = <<>>
         /\ turn' \in Seq(Stream!Calls)
<1> DEFINE S == Seq(Stream!Calls)
           n == Len(queue)
<1>1. queue \in Seq(S) /\ queue # <<>> /\ turn' = Head(queue) /\ queue' = Tail(queue)
  BY DEF StreamType, Stream!BeginTurn
<1> HIDE DEF S
<1>2. n \in Nat \ {0}
  BY <1>1
<1>3. n <= 1
  BY DEF Queued, Stream!BeginTurn
<1> HIDE DEF n
<1>4. n = 1
  BY <1>2, <1>3
<1>5. Head(queue) = queue[1] /\ queue[1] \in S /\ Tail(queue) \in Seq(S) /\ Len(Tail(queue)) = 0
  <2>1. Len(queue) = 1 /\ n - 1 = 0
    BY <1>4 DEF n
  <2>2. Head(queue) = queue[1] /\ queue[1] \in S
    BY <1>1, <2>1
  <2> QED  BY <1>1, <2>1, <2>2, HeadTailProperties DEF n
<1>6. Tail(queue) = <<>>
  BY <1>5, EmptySeq
<1> QED  BY <1>1, <1>4, <1>5, <1>6 DEF S, n

LEMMA InitQueued == Stream!Init => Queued
  BY DEF Stream!Init, Queued

LEMMA NextQueued ==
  ASSUME StreamType, Queued, [Stream!Next]_(Stream!vars)
  PROVE  Queued'
<1> USE DEF Stream!config, Stream!loop, Stream!asked, Stream!history
<1>1. CASE Stream!EndStream \/ Stream!EndStreamWithCode
  <2>1. PICK out \in Seq(Items) : Ends(out)
    BY <1>1, StreamEnding
  <2>2. streamPc \in Stream!Streaming /\ streamPc' \in {"code", "loop"}
    BY <1>1, <2>1, StreamEnding DEF Ends
  <2>3. streamPc' = "loop" => Len(queue') <= 1
    BY <2>1, <2>2, EndQueue
  <2> QED  BY <2>2, <2>3 DEF Queued
<1>2. CASE Stream!BeginTurn
  <2>1. queue' = <<>> /\ streamPc' = "tools"
    BY <1>2, Taken DEF Stream!BeginTurn
  <2> QED  BY <2>1 DEF Queued
<1>3. CASE Stream!StreamText \/ Stream!StreamCall \/ Stream!RunTool
           \/ \E item \in {Stream!Text, Stream!Call(calls + 1)} : Stream!StreamItem(item)
  BY <1>3 DEF Stream!StreamText, Stream!StreamCall, Stream!RunTool, Stream!StreamItem, Queued
<1>4. CASE Stream!Record \/ Stream!AskAgain
  BY <1>4 DEF Stream!Record, Stream!AskAgain, Stream!Ask, Queued
<1>5. CASE Stream!StreamRaises \/ Stream!AskFails \/ Stream!LeaveLoop
  BY <1>5 DEF Stream!StreamRaises, Stream!AskFails, Stream!LeaveLoop, Stream!Streaming, Queued
<1>6. CASE Stream!RunCode \/ Stream!AskCode \/ Stream!Finish \/ Stream!Cancel
  BY <1>6 DEF Stream!RunCode, Stream!AskCode, Stream!Ask, Stream!Finish, Stream!Cancel, Queued
<1>7. CASE Stream!Continue
  BY <1>7 DEF Stream!Continue, Queued
<1>8. CASE UNCHANGED Stream!vars
  BY <1>8 DEF Stream!vars, Queued
<1> QED  BY <1>1, <1>2, <1>3, <1>4, <1>5, <1>6, <1>7, <1>8 DEF Stream!Next
-----------------------------------------------------------------------------
\* Calls that have been made and not been run, each once: in a list, among items.
IsCall == {i \in Items : i.type = "call"}
ToRun(list, r, n) ==
    /\ Stream!Range(list) \subseteq 1..n /\ NoRepeats(list)
    /\ \A c \in Stream!Range(list) : r[c] = 0
Fresh(out, r, n) ==
    /\ Stream!Ids("call", out) \subseteq 1..n /\ Once(out, IsCall)
    /\ \A c \in Stream!Ids("call", out) : r[c] = 0

\* Every call has its result.
Answered(out) == Stream!Ids("call", out) \subseteq Stream!Ids("result", out)

\* What may still be run.
Waiting ==
    /\ streamPc = "loop" => \A i \in 1..Len(queue) : ToRun(queue[i], ran, calls)
    /\ streamPc \in Stream!Streaming => ToRun(streamed, ran, calls) /\ Fresh(items, ran, calls)

InTurn ==
    streamPc = "tools" =>
        /\ Stream!Range(turn) \subseteq 1..calls /\ NoRepeats(turn)
        /\ \A i \in 1..Len(turn) : i > at => ran[turn[i]] = 0

\* Chat Completions puts a call beside the text, so that only the turn under way
\* has calls without results in the output.
AllAnswered ==
    /\ Answered(prior) /\ Answered(row.output)
    /\ Stream!Ids("call", output) \subseteq Stream!Ids("result", output)
           \cup IF streamPc = "tools" THEN Stream!Range(turn) ELSE {}

\* A cancellation while the tools run leaves calls that have been run and are
\* not answered.
RunInv ==
    "tools" \notin cuts =>
        /\ \A c \in Stream!Calls : ran[c] <= 1 /\ (ran[c] > 0 => c <= calls)
        /\ Waiting /\ InTurn
        /\ api = "chat" => AllAnswered

LEMMA Nothing ==
  /\ \A r, n : ToRun(<<>>, r, n) /\ Fresh(<<>>, r, n)
  /\ Answered(<<>>)
<1>1. NoRepeats(<<>>) /\ Once(<<>>, IsCall)
  BY DEF NoRepeats, Once
<1> QED  BY <1>1, NoIds DEF ToRun, Fresh, Answered

LEMMA InitRunInv == Stream!Init => RunInv
  BY Nothing, NoIds, StreamAssumption
     DEF Stream!Init, RunInv, Waiting, InTurn, AllAnswered, Stream!Calls, Stream!Streaming

LEMMA AnsweredJoined ==
  ASSUME NEW a \in Seq(Items), NEW b \in Seq(Items), Answered(a), Answered(b)
  PROVE  Answered(a \o b)
  BY IdsJoined DEF Answered

LEMMA AnsweredSame ==
  ASSUME NEW a, NEW b, Answered(a), \A t \in Marks : Stream!Ids(t, a) = Stream!Ids(t, b)
  PROVE  Answered(b)
  BY DEF Answered, Marks

\* The calls that a stream leaves to be run are new ones.
LEMMA EndCallsToRun ==
  ASSUME StreamType, RunInv, "tools" \notin cuts, streamPc \in Stream!Streaming,
         NEW out \in Seq(Items), Final(out)
  PROVE  ToRun(EndCalls(out), ran, calls)
<1>1. ToRun(streamed, ran, calls) /\ Fresh(items, ran, calls) /\ (api = "chat" => AllAnswered)
  BY DEF RunInv, Waiting
<1> DEFINE last == Stream!Cleaned(out)
           list == Stream!Unhandled(last)
<1>2. /\ last \in Seq(Items) /\ \A t \in Marks : Stream!Ids(t, last) = Stream!Ids(t, out)
      /\ Len(last) <= Len(out) /\ \A i \in 1..Len(last) : last[i] = out[i]
  BY CleanedIs
<1>3. /\ list \in Seq(Stream!Calls)
      /\ Stream!Range(list) \subseteq Stream!Ids("call", last) \ Stream!Ids("result", prior \o last)
      /\ Once(last, IsCall) => NoRepeats(list)
  BY <1>2, UnhandledIs DEF IsCall
<1>4. "call" \in Marks /\ "result" \in Marks
  BY DEF Marks
<1> HIDE DEF last, list
<1>a. EndCalls(out) = streamed \/ EndCalls(out) = list
  BY DEF EndCalls, list, last
<1>5. CASE api = "responses" /\ out = items
  <2>1. Once(last, IsCall)
    <3>1. Len(last) \in Nat /\ Len(out) \in Nat
      BY <1>2
    <3>2. \A i \in 1..Len(last) : i \in 1..Len(out)
      BY <1>2, <3>1
    <3> QED  BY <1>1, <1>2, <1>5, <3>2 DEF Fresh, Once
  <2>2. ToRun(list, ran, calls)
    BY <1>1, <1>2, <1>3, <1>4, <1>5, <2>1 DEF ToRun, Fresh
  <2> QED  BY <1>1, <1>a, <2>2
<1>6. CASE api = "chat" /\ \A t \in Marks : Stream!Ids(t, out) = Stream!Ids(t, output)
  <2>1. Stream!Ids("call", last) \subseteq Stream!Ids("result", last)
    BY <1>1, <1>2, <1>4, <1>6 DEF AllAnswered, Stream!Streaming
  <2>2. Stream!Ids("result", last) \subseteq Stream!Ids("result", prior \o last)
    BY <1>2, IdsJoined DEF StreamType
  <2>3. Stream!Range(list) = {}
    BY <1>3, <2>1, <2>2
  <2>4. Len(list) = 0
    <3>1. Len(list) \in Nat /\ DOMAIN list = 1..Len(list)
      BY <1>3
    <3>2. ASSUME Len(list) > 0 PROVE FALSE
      <4>1. 1 \in DOMAIN list
        BY <3>1, <3>2
      <4> QED  BY <2>3, <4>1 DEF Stream!Range
    <3> QED  BY <3>1, <3>2
  <2>5. NoRepeats(list)
    BY <2>4 DEF NoRepeats
  <2>6. ToRun(list, ran, calls)
    BY <2>3, <2>5 DEF ToRun
  <2> QED  BY <1>1, <1>a, <2>6
<1> QED  BY <1>5, <1>6 DEF Final
-----------------------------------------------------------------------------
\* The counters of the runs: no call that has not been made has been run.
Counted == \A c \in Stream!Calls : ran[c] <= 1 /\ (ran[c] > 0 => c <= calls)

\* A call made now has not been run.
LEMMA NewCall ==
  ASSUME StreamType, Counted, calls < MaxCalls
  PROVE  /\ calls + 1 \in Stream!Calls /\ ran[calls + 1] = 0
         /\ \A list \in Seq(Stream!Calls) : ToRun(list, ran, calls) =>
                ToRun(Append(list, calls + 1), ran, calls + 1)
         /\ \A list \in Seq(Items) : Fresh(list, ran, calls) =>
                /\ Fresh(Append(list, Stream!Call(calls + 1)), ran, calls + 1)
                /\ Fresh(Append(list, Stream!Text), ran, calls)
<1>1. calls + 1 \in Stream!Calls /\ calls \in Nat /\ ran[calls + 1] = 0
  <2>1. calls + 1 \in Stream!Calls /\ calls \in Nat
    BY StreamAssumption DEF StreamType, Stream!Calls
  <2>2. ran[calls + 1] \in Nat /\ ~(ran[calls + 1] > 0)
    BY <2>1 DEF StreamType, Counted
  <2> QED  BY <2>1, <2>2
<1> DEFINE n == calls + 1
<1>2. calls + 1 \notin 1..calls /\ 1..(calls + 1) = (1..calls) \cup {calls + 1}
  BY <1>1
<1>3. ASSUME NEW list \in Seq(Stream!Calls), ToRun(list, ran, calls)
      PROVE  ToRun(Append(list, calls + 1), ran, calls + 1)
  <2>1. calls + 1 \notin Stream!Range(list)
    BY <1>2, <1>3 DEF ToRun
  <2>2. /\ Stream!Range(Append(list, calls + 1)) = Stream!Range(list) \cup {calls + 1}
        /\ NoRepeats(Append(list, calls + 1))
    BY <1>1, <1>3, <2>1, AddedAtEnd DEF ToRun
  <2> QED  BY <1>1, <1>2, <1>3, <2>2 DEF ToRun
<1>4. ASSUME NEW list \in Seq(Items), Fresh(list, ran, calls)
      PROVE  /\ Fresh(Append(list, Stream!Call(calls + 1)), ran, calls + 1)
             /\ Fresh(Append(list, Stream!Text), ran, calls)
  <2>1. ASSUME NEW x \in Items, x \notin IsCall \/ x.id = calls + 1
        PROVE  Once(Append(list, x), IsCall)
    <3>1. /\ Len(list) \in Nat /\ Len(Append(list, x)) = Len(list) + 1
          /\ \A i \in 1..Len(list) : Append(list, x)[i] = list[i] /\ list[i] \in Items
          /\ Append(list, x)[Len(list) + 1] = x
      OBVIOUS
    <3>2. \A i \in 1..Len(list) : list[i] \in IsCall => list[i] # x
      <4>1. ASSUME NEW i \in 1..Len(list), list[i] \in IsCall, list[i] = x PROVE FALSE
        <5>1. list[i].id \in Stream!Ids("call", list)
          BY <4>1, IdsOf DEF IsCall
        <5> QED  BY <1>2, <1>4, <2>1, <4>1, <5>1 DEF Fresh
      <4> QED  BY <4>1
    <3> DEFINE long == Append(list, x)
    <3> HIDE DEF long
    <3>3. SUFFICES ASSUME NEW i \in 1..Len(list) + 1, NEW j \in 1..Len(list) + 1,
                          long[i] \in IsCall, long[i] = long[j], i # j
                   PROVE  FALSE
      BY <3>1 DEF Once, long
    <3>4. CASE i \in 1..Len(list) /\ j \in 1..Len(list)
      BY <1>4, <3>1, <3>3, <3>4 DEF Fresh, Once, long
    <3>5. CASE i \in 1..Len(list) /\ j = Len(list) + 1
      BY <3>1, <3>2, <3>3, <3>5 DEF long
    <3>6. CASE i = Len(list) + 1 /\ j \in 1..Len(list)
      BY <3>1, <3>2, <3>3, <3>6 DEF long
    <3> QED  BY <3>1, <3>3, <3>4, <3>5, <3>6
  <2>2. /\ Stream!Call(calls + 1) \in Items /\ Stream!Call(calls + 1).id = calls + 1
        /\ Stream!Call(calls + 1).type = "call"
        /\ Stream!Text \in Items /\ Stream!Text \notin IsCall /\ Stream!Text.type # "call"
    BY <1>1, ItemShape DEF IsCall, Marks
  <2>3. /\ Stream!Ids("call", Append(list, Stream!Call(calls + 1))) =
               Stream!Ids("call", list) \cup {calls + 1}
        /\ Stream!Ids("call", Append(list, Stream!Text)) = Stream!Ids("call", list)
    <3>1. \A x \in Items : Stream!Ids("call", Append(list, x)) =
              Stream!Ids("call", list) \cup IF x.type = "call" THEN {x.id} ELSE {}
      BY IdsAppended
    <3> QED  BY <2>2, <3>1
  <2>4. Fresh(Append(list, Stream!Call(calls + 1)), ran, calls + 1)
    BY <1>1, <1>2, <1>4, <2>1, <2>2, <2>3 DEF Fresh
  <2>5. Fresh(Append(list, Stream!Text), ran, calls)
    BY <1>4, <2>1, <2>2, <2>3 DEF Fresh
  <2> QED  BY <2>4, <2>5
<1> QED  BY <1>1, <1>3, <1>4

\* Streaming ends with new calls to run, at most once before the loop takes them.
LEMMA RunEnds ==
  ASSUME StreamType, Queued, RunInv, streamPc \in Stream!Streaming,
         NEW out \in Seq(Items), Final(out), Ends(out)
  PROVE  RunInv'
<1>0. Stream!Streaming = {"first", "again", "coding"}
  BY DEF Stream!Streaming
<1> SUFFICES ASSUME "tools" \notin cuts
             PROVE  Counted' /\ Waiting' /\ InTurn' /\ (api' = "chat" => AllAnswered')
  BY DEF RunInv, Counted, Ends
<1>1. Counted'
  BY DEF RunInv, Counted, Ends
<1>2. ToRun(EndCalls(out), ran, calls)
  BY EndCallsToRun
<1>3. Waiting'
  <2>1. streamPc' = "loop" => \A i \in 1..Len(queue') : queue'[i] = EndCalls(out)
    BY EndQueue
  <2>2. streamPc' \in {"code", "loop"} /\ ran' = ran /\ calls' = calls
    BY DEF Ends
  <2> QED  BY <1>0, <1>2, <2>1, <2>2 DEF Waiting
<1>4. InTurn'
  BY <1>0 DEF InTurn, Ends
<1>5. ASSUME api' = "chat" PROVE AllAnswered'
  <2> DEFINE last == Stream!Cleaned(out)
  <2>1. last \in Seq(Items) /\ \A t \in Marks : Stream!Ids(t, last) = Stream!Ids(t, output)
    BY <1>5, CleanedIs DEF Final, Ends
  <2>2. Answered(prior) /\ Answered(row.output) /\ Answered(output)
    BY <1>0, <1>5 DEF RunInv, AllAnswered, Answered, Ends
  <2>3. prior \in Seq(Items)
    BY DEF StreamType
  <2>4. output' = (IF streamPc = "again" THEN prior \o last ELSE last)
        /\ prior' = (IF streamPc = "again" THEN <<>> ELSE prior) /\ row' = row /\ streamPc' # "tools"
    BY <1>0 DEF Ends
  <2> HIDE DEF last
  <2>5. Answered(last)
    BY <2>1, <2>2, AnsweredSame
  <2>6. Answered(prior \o last)
    BY <2>1, <2>2, <2>3, <2>5, AnsweredJoined
  <2>7. Answered(output') /\ Answered(prior') /\ Answered(row'.output)
    BY <2>2, <2>4, <2>5, <2>6, Nothing
  <2> QED  BY <2>4, <2>7 DEF AllAnswered, Answered
<1> QED  BY <1>1, <1>3, <1>4, <1>5

LEMMA NextRunInv ==
  ASSUME StreamType, Queued, RunInv, [Stream!Next]_(Stream!vars)
  PROVE  RunInv'
<1> USE DEF Stream!config, Stream!loop, Stream!asked, Stream!history
<1>0. Stream!Streaming = {"first", "again", "coding"}
  BY DEF Stream!Streaming
<1> DEFINE Holds == Counted /\ Waiting /\ InTurn /\ (api = "chat" => AllAnswered)
<1>a. "tools" \notin cuts => Holds
  BY DEF RunInv, Counted
<1>b. ("tools" \notin cuts' => Holds') => RunInv'
  BY DEF RunInv, Counted
<1>1. CASE Stream!StreamText
  <2> SUFFICES ASSUME Holds PROVE Holds'
    BY <1>1, <1>a, <1>b DEF Stream!StreamText
  <2> DEFINE w == Stream!WithText(output)
  <2>1. w \in Seq(Items) /\ \A t \in Marks : Stream!Ids(t, w) = Stream!Ids(t, output)
    BY WithTextIs DEF StreamType
  <2>2. /\ output' = w /\ (row' = row \/ row' = [row EXCEPT !.output = prior \o w])
        /\ UNCHANGED <<api, streamPc, prior, items, streamed, queue, turn, at, calls, ran>>
        /\ streamPc # "tools"
    BY <1>0, <1>1 DEF Stream!StreamText
  <2> HIDE DEF w
  <2>3. ASSUME api = "chat" PROVE AllAnswered'
    <3>1. Answered(output) /\ Answered(prior) /\ Answered(row.output)
      BY <2>2, <2>3 DEF AllAnswered, Answered
    <3>2. Answered(w)
      BY <2>1, <3>1, AnsweredSame
    <3>3. Answered(prior \o w)
      BY <2>1, <3>1, <3>2, AnsweredJoined DEF StreamType
    <3>4. Answered(row'.output)
      BY <2>2, <3>1, <3>3 DEF StreamType
    <3> QED  BY <2>2, <3>1, <3>2, <3>4 DEF AllAnswered, Answered
  <2>4. Counted' /\ Waiting' /\ InTurn'
    BY <2>2 DEF Counted, Waiting, InTurn
  <2> QED  BY <2>2, <2>3, <2>4
<1>2. CASE Stream!StreamCall
  <2> SUFFICES ASSUME Holds PROVE Holds'
    BY <1>2, <1>a, <1>b DEF Stream!StreamCall
  <2>1. /\ calls < MaxCalls /\ calls' = calls + 1 /\ streamed' = Append(streamed, calls + 1)
        /\ UNCHANGED <<api, streamPc, output, prior, items, queue, turn, at, row, ran>>
        /\ streamPc \in Stream!Streaming
    BY <1>2 DEF Stream!StreamCall
  <2>2. /\ ToRun(streamed, ran, calls) /\ Fresh(items, ran, calls)
        /\ streamed \in Seq(Stream!Calls) /\ calls \in Nat
    BY <2>1 DEF Waiting, StreamType
  <2>3. ToRun(streamed', ran, calls + 1)
    BY <2>1, <2>2, NewCall
  <2>4. Fresh(items, ran, calls + 1)
    <3>1. 1..calls \subseteq 1..(calls + 1)
      BY <2>2
    <3> QED  BY <2>2, <3>1 DEF Fresh
  <2>5. Waiting' /\ InTurn'
    BY <1>0, <2>1, <2>3, <2>4 DEF Waiting, InTurn
  <2>6. Counted'
    BY <2>1, <2>2, StreamAssumption DEF Counted, Stream!Calls
  <2>7. api' = "chat" => AllAnswered'
    BY <2>1 DEF AllAnswered
  <2> QED  BY <2>5, <2>6, <2>7
<1>3. ASSUME NEW item, Stream!StreamItem(item) PROVE RunInv'
  <2> SUFFICES ASSUME Holds PROVE Holds'
    BY <1>3, <1>a, <1>b DEF Stream!StreamItem
  <2>1. /\ \/ item = Stream!Text /\ calls' = calls
           \/ item = Stream!Call(calls + 1) /\ calls < MaxCalls /\ calls' = calls + 1
        /\ items' = Append(items, item) /\ api' # "chat"
        /\ UNCHANGED <<streamPc, streamed, queue, turn, at, ran>>
        /\ streamPc \in Stream!Streaming
    BY <1>3 DEF Stream!StreamItem
  <2>2. /\ ToRun(streamed, ran, calls) /\ Fresh(items, ran, calls)
        /\ items \in Seq(Items) /\ calls \in Nat
    BY <2>1 DEF Waiting, StreamType
  <2>3. CASE item = Stream!Text /\ calls' = calls
    <3>1. Fresh(items', ran, calls)
      <4>1. CASE calls < MaxCalls
        BY <2>1, <2>2, <2>3, <4>1, NewCall
      <4>2. Stream!Text \in Items /\ Stream!Text.type # "call" /\ Stream!Text \notin IsCall
        BY ItemShape DEF IsCall, Marks
      <4>3. Stream!Ids("call", items') = Stream!Ids("call", items)
        <5>1. Stream!Ids("call", Append(items, Stream!Text)) = Stream!Ids("call", items)
                \cup IF Stream!Text.type = "call" THEN {Stream!Text.id} ELSE {}
          BY <2>2, <4>2, IdsAppended
        <5> QED  BY <2>1, <2>3, <4>2, <5>1
      <4>4. Once(items', IsCall)
        <5>1. Once(items, IsCall)
          BY <2>2 DEF Fresh
        <5> DEFINE long == Append(items, Stream!Text)
        <5>2. /\ Len(items) \in Nat /\ Len(long) = Len(items) + 1
              /\ \A i \in 1..Len(items) : long[i] = items[i]
              /\ long[Len(items) + 1] = Stream!Text
          BY <2>2, <4>2
        <5> HIDE DEF long
        <5>3. \A i \in 1..Len(long) : long[i] \in IsCall => i \in 1..Len(items)
          BY <4>2, <5>2
        <5>4. Once(long, IsCall)
          BY <5>1, <5>2, <5>3 DEF Once
        <5> QED  BY <2>1, <2>3, <5>4 DEF long
      <4> QED  BY <2>2, <4>3, <4>4 DEF Fresh
    <3> QED  BY <1>0, <2>1, <2>2, <2>3, <3>1 DEF Counted, Waiting, InTurn
  <2>4. CASE item = Stream!Call(calls + 1) /\ calls < MaxCalls /\ calls' = calls + 1
    <3>1. Fresh(items', ran, calls + 1)
      BY <2>1, <2>2, <2>4, NewCall
    <3>2. ToRun(streamed, ran, calls + 1)
      <4>1. 1..calls \subseteq 1..(calls + 1)
        BY <2>2
      <4> QED  BY <2>2, <4>1 DEF ToRun
    <3>3. Counted'
      BY <2>1, <2>2, <2>4, StreamAssumption DEF Counted, Stream!Calls
    <3> QED  BY <1>0, <2>1, <2>4, <3>1, <3>2, <3>3 DEF Waiting, InTurn
  <2> QED  BY <2>1, <2>3, <2>4
<1>4. CASE Stream!EndStream \/ Stream!EndStreamWithCode
  BY <1>4, StreamEnding, RunEnds
<1>5. CASE Stream!StreamRaises
  <2> SUFFICES ASSUME Holds PROVE Holds'
    BY <1>5, <1>a, <1>b DEF Stream!StreamRaises
  <2>1. /\ streamPc' \in {"ended", "code", "finish"} /\ streamPc # "tools"
        /\ UNCHANGED <<api, output, prior, calls, ran>> /\ row'.output = row.output
    BY <1>0, <1>5 DEF Stream!StreamRaises, StreamType
  <2> QED  BY <1>0, <2>1 DEF Counted, Waiting, InTurn, AllAnswered
<1>6. CASE Stream!BeginTurn
  <2> SUFFICES ASSUME Holds PROVE Holds'
    BY <1>6, <1>a, <1>b DEF Stream!BeginTurn
  <2> DEFINE added == Stream!Sublist(turn', Stream!Calls \ Stream!Ids("call", output))
             m == [i \in DOMAIN added |-> Stream!Call(added[i])]
  <2>1. /\ streamPc = "loop" /\ queue # <<>> /\ streamPc' = "tools"
        /\ turn' = Head(queue) /\ queue' = Tail(queue) /\ at' = 0 /\ output' = output \o m
        /\ UNCHANGED <<api, prior, row, calls, ran>>
    BY <1>6 DEF Stream!BeginTurn
  <2>2. turn' = queue[1] /\ queue' = <<>> /\ turn' \in Seq(Stream!Calls)
    BY <1>6, Taken
  <2>3. ToRun(turn', ran, calls)
    <3>1. 1 \in 1..Len(queue)
      BY <1>6, Taken
    <3> QED  BY <2>1, <2>2, <3>1 DEF Waiting
  <2>4. Waiting'
    BY <1>0, <2>1, <2>2 DEF Waiting
  <2>5. InTurn'
    <3>1. \A i \in 1..Len(turn') : turn'[i] \in Stream!Range(turn')
      <4>1. DOMAIN turn' = 1..Len(turn')
        BY <2>2
      <4> QED  BY <4>1 DEF Stream!Range
    <3> QED  BY <2>1, <2>2, <2>3, <3>1 DEF InTurn, ToRun
  <2>6. ASSUME api' = "chat" PROVE AllAnswered'
    <3>1. added \in Seq(Stream!Calls) /\ Stream!Range(added) \subseteq Stream!Range(turn')
      BY <2>2, SublistIs
    <3> HIDE DEF added
    <3>2. m \in Seq(Items) /\ Stream!Ids("call", m) = Stream!Range(added)
          /\ Stream!Ids("result", m) = {}
      BY <3>1, CallItems
    <3> HIDE DEF m
    <3>3. output \in Seq(Items)
      BY DEF StreamType
    <3>4. /\ Stream!Ids("call", output') = Stream!Ids("call", output) \cup Stream!Ids("call", m)
          /\ Stream!Ids("result", output') = Stream!Ids("result", output) \cup Stream!Ids("result", m)
      BY <2>1, <3>2, <3>3, IdsJoined
    <3> QED  BY <2>1, <2>6, <3>1, <3>2, <3>4 DEF AllAnswered
  <2> QED  BY <2>1, <2>4, <2>5, <2>6 DEF Counted
<1>7. CASE Stream!RunTool
  <2> SUFFICES ASSUME Holds PROVE Holds'
    BY <1>7, <1>a, <1>b DEF Stream!RunTool
  <2>1. /\ streamPc = "tools" /\ at < Len(turn) /\ at' = at + 1
        /\ ran' = [ran EXCEPT ![turn[at + 1]] = @ + 1]
        /\ UNCHANGED <<api, streamPc, output, prior, items, streamed, queue, turn, row, calls>>
    BY <1>7 DEF Stream!RunTool
  <2>2. at \in Nat /\ Len(turn) \in Nat /\ at + 1 \in 1..Len(turn) /\ DOMAIN turn = 1..Len(turn)
    <3>1. turn \in Seq(Stream!Calls) /\ at \in 0..Len(turn)
      BY DEF StreamType
    <3>2. Len(turn) \in Nat /\ DOMAIN turn = 1..Len(turn)
      BY <3>1
    <3> QED  BY <2>1, <3>1, <3>2
  <2> DEFINE c == turn[at + 1]
  <2>3. c \in Stream!Calls /\ c \in Stream!Range(turn) /\ c \in 1..calls /\ ran[c] = 0
    <3>1. c \in Stream!Calls /\ c \in Stream!Range(turn)
      <4>1. turn \in Seq(Stream!Calls)
        BY DEF StreamType
      <4>2. c \in Stream!Calls
        BY <2>2, <4>1
      <4> QED  BY <2>2, <4>2 DEF Stream!Range
    <3>2. ran[c] = 0 /\ Stream!Range(turn) \subseteq 1..calls
      <4>1. at + 1 > at
        BY <2>2
      <4> QED  BY <2>1, <2>2, <4>1 DEF InTurn
    <3> HIDE DEF c
    <3> QED  BY <3>1, <3>2
  <2>4. ran \in [Stream!Calls -> Nat] /\ \A d \in Stream!Calls : ran'[d] = IF d = c THEN 1 ELSE ran[d]
    BY <2>1, <2>3 DEF StreamType
  <2>5. Counted'
    BY <2>1, <2>3, <2>4 DEF Counted, StreamType
  <2>6. InTurn'
    <3>1. \A i \in 1..Len(turn) : i > at + 1 => turn[i] # c /\ ran[turn[i]] = 0 /\ turn[i] \in Stream!Calls
      BY <2>1, <2>2 DEF InTurn, NoRepeats, StreamType
    <3>2. \A i \in 1..Len(turn) : i > at + 1 => ran'[turn[i]] = 0
      BY <2>4, <3>1
    <3> HIDE DEF c
    <3> QED  BY <2>1, <3>2 DEF InTurn
  <2>7. Waiting' /\ (api' = "chat" => AllAnswered')
    BY <1>0, <2>1 DEF Waiting, AllAnswered
  <2> QED  BY <2>5, <2>6, <2>7
<1>8. CASE Stream!Record
  <2> SUFFICES ASSUME Holds PROVE Holds'
    BY <1>8, <1>a, <1>b DEF Stream!Record
  <2> DEFINE m == [i \in DOMAIN turn |-> Stream!Result(turn[i])]
  <2>1. /\ streamPc = "tools" /\ streamPc' = "ask" /\ output' = output \o m \o <<Stream!Blank>>
        /\ UNCHANGED <<api, prior, queue, row, calls, ran>>
    BY <1>8 DEF Stream!Record
  <2>2. ASSUME api' = "chat" PROVE AllAnswered'
    <3>1. /\ m \in Seq(Items) /\ Stream!Ids("result", m) = Stream!Range(turn)
          /\ Stream!Ids("call", m) = {} /\ output \in Seq(Items)
      BY ResultItems DEF StreamType
    <3> HIDE DEF m
    <3>2. output \o m \in Seq(Items) /\ output \o m \o <<Stream!Blank>> = Append(output \o m, Stream!Blank)
      BY <3>1
    <3>3. \A t \in Marks : Stream!Ids(t, output \o m) = Stream!Ids(t, output) \cup Stream!Ids(t, m)
      BY <3>1, IdsJoined
    <3> DEFINE long == output \o m
    <3>4. long \in Seq(Items) /\ output' = Append(long, Stream!Blank)
      BY <2>1, <3>2
    <3>a. \A t \in Marks : Stream!Ids(t, long) = Stream!Ids(t, output) \cup Stream!Ids(t, m)
      BY <3>3
    <3> HIDE DEF long
    <3>5. \A t \in Marks : Stream!Ids(t, output') = Stream!Ids(t, output) \cup Stream!Ids(t, m)
      BY <3>4, <3>a, BlankAdded
    <3> QED  BY <2>1, <2>2, <3>1, <3>5 DEF AllAnswered, Marks
  <2> QED  BY <1>0, <2>1, <2>2 DEF Counted, Waiting, InTurn
<1>9. CASE Stream!AskAgain
  <2> SUFFICES ASSUME Holds PROVE Holds'
    BY <1>9, <1>a, <1>b DEF Stream!AskAgain, Stream!Ask
  <2>1. /\ streamPc = "ask" /\ streamPc' = "again" /\ items' = <<>> /\ streamed' = <<>>
        /\ output' = <<>> /\ UNCHANGED <<api, queue, row, calls, ran>>
        /\ prior' = IF Stream!Last(output).type = "blank" THEN Stream!Front(output) ELSE output
    BY <1>9 DEF Stream!AskAgain, Stream!Ask
  <2>2. ASSUME api' = "chat" PROVE AllAnswered'
    <3>1. Answered(output) /\ Answered(row.output)
      BY <2>1, <2>2 DEF AllAnswered, Answered
    <3>2. Answered(prior')
      <4>1. CASE output = <<>>
        <5>1. Stream!Front(output) = <<>>
          BY <4>1 DEF Stream!Front
        <5> QED  BY <2>1, <3>1, <4>1, <5>1
      <4>2. CASE output # <<>> /\ Stream!Last(output).type = "blank"
        <5>1. output \in Seq(Items) /\ \A t \in Marks : Stream!Last(output).type # t
          BY <4>2 DEF StreamType, Marks
        <5>2. \A t \in Marks : Stream!Ids(t, output) = Stream!Ids(t, Stream!Front(output))
          BY <4>2, <5>1, FrontIs
        <5>3. Answered(Stream!Front(output))
          BY <3>1, <5>2, AnsweredSame
        <5> QED  BY <2>1, <4>2, <5>3
      <4>3. CASE Stream!Last(output).type # "blank"
        BY <2>1, <3>1, <4>3
      <4> QED  BY <4>1, <4>2, <4>3
    <3> QED  BY <2>1, <3>1, <3>2, NoIds DEF AllAnswered
  <2> QED  BY <1>0, <2>1, <2>2, Nothing DEF Counted, Waiting, InTurn
<1>10. CASE Stream!AskFails \/ Stream!LeaveLoop
  <2> SUFFICES ASSUME Holds PROVE Holds'
    BY <1>10, <1>a, <1>b DEF Stream!AskFails, Stream!LeaveLoop
  <2>1. /\ streamPc' \in {"code", "finish"} /\ streamPc # "tools" /\ row'.output = row.output
        /\ UNCHANGED <<api, output, prior, calls, ran>>
    BY <1>10 DEF Stream!AskFails, Stream!LeaveLoop, StreamType
  <2> QED  BY <1>0, <2>1 DEF Counted, Waiting, InTurn, AllAnswered
<1>11. CASE Stream!RunCode
  <2> SUFFICES ASSUME Holds PROVE Holds'
    BY <1>11, <1>a, <1>b DEF Stream!RunCode
  <2>1. /\ streamPc = "code" /\ streamPc' = "askCode" /\ output' = Append(output, Stream!Blank)
        /\ UNCHANGED <<api, prior, row, calls, ran>>
    BY <1>11 DEF Stream!RunCode
  <2>3. \A t \in Marks : Stream!Ids(t, output') = Stream!Ids(t, output)
    BY <2>1, BlankAdded DEF StreamType
  <2> QED  BY <1>0, <2>1, <2>3 DEF Counted, Waiting, InTurn, AllAnswered, Marks
<1>12. CASE Stream!AskCode
  <2> SUFFICES ASSUME Holds PROVE Holds'
    BY <1>12, <1>a, <1>b DEF Stream!AskCode, Stream!Ask
  <2>1. /\ streamPc = "askCode" /\ streamPc' = "coding" /\ items' = <<>> /\ streamed' = <<>>
        /\ UNCHANGED <<api, output, prior, row, calls, ran>>
    BY <1>12 DEF Stream!AskCode, Stream!Ask
  <2> QED  BY <1>0, <2>1, Nothing DEF Counted, Waiting, InTurn, AllAnswered
<1>13. CASE Stream!Finish \/ Stream!Cancel
  <2> SUFFICES ASSUME "tools" \notin cuts' PROVE Holds'
    BY <1>b
  <2>1. /\ streamPc' = "ended" /\ UNCHANGED <<api, output, prior, calls, ran>> /\ row' = Stream!Stored
        /\ streamPc # "tools" /\ "tools" \notin cuts
    BY <1>13 DEF Stream!Finish, Stream!Cancel
  <2>2. row'.output = row.output \/ row'.output = output
    BY <2>1 DEF Stream!Stored, StreamType
  <2>3. Holds
    BY <1>a, <2>1
  <2>4. ASSUME api' = "chat" PROVE AllAnswered'
    <3>1. Answered(row.output) /\ Answered(output) /\ Answered(prior)
      BY <2>1, <2>3, <2>4 DEF AllAnswered, Answered
    <3>2. Answered(row'.output)
      BY <2>2, <3>1
    <3> QED  BY <2>1, <3>1, <3>2 DEF AllAnswered, Answered
  <2> QED  BY <1>0, <2>1, <2>3, <2>4 DEF Counted, Waiting, InTurn
<1>14. CASE Stream!Continue
  <2> SUFFICES ASSUME Holds PROVE Holds'
    BY <1>14, <1>a, <1>b DEF Stream!Continue
  <2>1. /\ streamPc = "ended" /\ streamPc' = "first" /\ output' = row.output /\ prior' = <<>>
        /\ items' = <<>> /\ streamed' = <<>> /\ queue' = <<>>
        /\ row'.output = row.output /\ UNCHANGED <<api, calls, ran>>
    BY <1>14 DEF Stream!Continue, StreamType
  <2>2. api' = "chat" => AllAnswered'
    BY <2>1, Nothing DEF AllAnswered, Answered
  <2> QED  BY <1>0, <2>1, <2>2, Nothing DEF Counted, Waiting, InTurn
<1>15. CASE UNCHANGED Stream!vars
  BY <1>15 DEF Stream!vars, RunInv, Waiting, InTurn, AllAnswered
<1> QED  BY <1>1, <1>2, <1>3, <1>4, <1>5, <1>6, <1>7, <1>8, <1>9, <1>10, <1>11, <1>12, <1>13,
            <1>14, <1>15 DEF Stream!Next
-----------------------------------------------------------------------------
Results(out) == Stream!Ids("result", out)
NoCode(out) == Stream!Code \notin Stream!Range(out)

\* The Responses API streams no code; and its first stream, which may replace
\* what the output has, finds no results to lose.
Codeless ==
    api = "responses" =>
        /\ streamPc \notin {"askCode", "coding"}
        /\ NoCode(output) /\ NoCode(prior) /\ NoCode(items) /\ NoCode(row.output)
        /\ streamPc = "first" /\ continues = 0 => recorded = {}

\* Where the results are, as long as nothing has cut them off.
Calm == ~realtime /\ "again" \notin cuts /\ (api = "chat" \/ continues = 0)
Held ==
    /\ streamPc = "again" => recorded \subseteq Results(prior)
    /\ streamPc \in {"first", "ended"} => recorded \subseteq Results(row.output)
    /\ streamPc \notin {"again", "ended"} => recorded \subseteq Results(output)
KeptInv == Codeless /\ (Calm => Held)

LEMMA InitKeptInv == Stream!Init => KeptInv
  BY NoIds DEF Stream!Init, KeptInv, Codeless, Calm, Held, NoCode

LEMMA ResultsJoined ==
  ASSUME NEW a \in Seq(Items), NEW b \in Seq(Items)
  PROVE  /\ Results(a \o b) = Results(a) \cup Results(b)
         /\ Stream!Range(a \o b) = Stream!Range(a) \cup Stream!Range(b)
<1>1. Stream!Range(a \o b) = Stream!Range(a) \cup Stream!Range(b)
  BY RangeJoined
<1>2. Stream!Ids("result", a \o b) = Stream!Ids("result", a) \cup Stream!Ids("result", b)
  BY IdsJoined
<1> QED  BY <1>1, <1>2 DEF Results

LEMMA NextKeptInv ==
  ASSUME StreamType, KeptInv, [Stream!Next]_(Stream!vars)
  PROVE  KeptInv'
<1> USE DEF Stream!config, Stream!loop, Stream!asked, Stream!history
<1>0. Stream!Streaming = {"first", "again", "coding"}
  BY DEF Stream!Streaming
<1>a. "result" \in Marks /\ Stream!Blank.type # "result" /\ Stream!Blank \in Items
      /\ Stream!Blank # Stream!Code
  BY ItemShape DEF Marks
<1>b. /\ output \in Seq(Items) /\ prior \in Seq(Items) /\ items \in Seq(Items)
      /\ turn \in Seq(Stream!Calls) /\ row.output \in Seq(Items)
  BY DEF StreamType
<1>1. CASE Stream!StreamText
  <2>1. Results(output') = Results(output)
    BY <1>1, <1>a, <1>b, WithTextIs DEF Stream!StreamText, Results
  <2>2. /\ api = "chat" /\ (~realtime => row' = row)
        /\ UNCHANGED <<api, realtime, streamPc, prior, recorded, cuts, continues>>
    BY <1>1 DEF Stream!StreamText
  <2> QED  BY <2>1, <2>2 DEF KeptInv, Codeless, Calm, Held
<1>2. CASE Stream!StreamCall
  BY <1>2 DEF Stream!StreamCall, KeptInv, Codeless, Calm, Held
<1>3. ASSUME NEW item, Stream!StreamItem(item) PROVE KeptInv'
  <2>1. /\ api = "responses" /\ streamPc \in Stream!Streaming /\ items' = Append(items, item)
        /\ UNCHANGED <<api, realtime, streamPc, prior, row, recorded, cuts, continues>>
    BY <1>3 DEF Stream!StreamItem
  <2>2. /\ item \in Items /\ item # Stream!Code /\ output' \in Seq(Items)
        /\ \A i \in 1..Len(output') : output'[i] \in {Stream!Blank, item}
                                      \/ (i <= Len(output) /\ output'[i] = output[i])
    BY <1>3, ItemAdded
  <2>3. Stream!Range(output') \subseteq Stream!Range(output) \cup {Stream!Blank, item}
    <3>1. DOMAIN output' = 1..Len(output') /\ DOMAIN output = 1..Len(output)
          /\ Len(output') \in Nat /\ Len(output) \in Nat
      BY <1>b, <2>2
    <3>2. \A i \in 1..Len(output') : output'[i] \in {Stream!Blank, item}
                                     \/ (i \in 1..Len(output) /\ output'[i] = output[i])
      BY <2>2, <3>1
    <3> QED  BY <3>1, <3>2 DEF Stream!Range
  <2>4. Stream!Range(items') = Stream!Range(items) \cup {item}
    BY <1>b, <2>1, <2>2, AddedAtEnd
  <2>5. Codeless'
    BY <1>a, <2>1, <2>2, <2>3, <2>4 DEF KeptInv, Codeless, NoCode
  <2>6. ASSUME Calm' PROVE Held'
    <3>1. Held /\ continues = 0 /\ streamPc \in {"first", "again"}
      BY <1>0, <2>1, <2>6 DEF KeptInv, Codeless, Calm
    <3>2. streamPc = "first" => recorded = {}
      BY <2>1, <3>1 DEF KeptInv, Codeless
    <3> QED  BY <2>1, <3>1, <3>2 DEF Held
  <2> QED  BY <2>5, <2>6 DEF KeptInv
<1>4. CASE Stream!EndStream \/ Stream!EndStreamWithCode
  <2>1. PICK out \in Seq(Items) : Final(out) /\ Ends(out)
    BY <1>4, StreamEnding
  <2>2. streamPc \in {"first", "again", "coding"}
    BY <1>0, <1>4, StreamEnding
  <2> DEFINE last == Stream!Cleaned(out)
  <2>3. /\ last \in Seq(Items) /\ Results(last) = Results(out)
        /\ Stream!Range(last) \subseteq Stream!Range(out)
    BY <1>a, CleanedIs DEF Results
  <2>4. /\ output' = IF streamPc = "again" THEN prior \o last ELSE last
        /\ prior' = IF streamPc = "again" THEN <<>> ELSE prior
        /\ streamPc' \in {"code", "loop"}
        /\ UNCHANGED <<api, realtime, items, row, recorded, cuts, continues>>
    BY <2>1 DEF Ends
  <2> HIDE DEF last
  <2>5. /\ Stream!Range(prior \o last) = Stream!Range(prior) \cup Stream!Range(last)
        /\ Results(prior \o last) = Results(prior) \cup Results(last)
    BY <1>b, <2>3, ResultsJoined
  <2>6. Codeless'
    <3> SUFFICES ASSUME api' = "responses"
                 PROVE  NoCode(output') /\ NoCode(prior') /\ NoCode(items') /\ NoCode(row'.output)
      BY <2>4 DEF Codeless
    <3>1. out = items
      BY <2>1, <2>4 DEF Final
    <3>2. NoCode(last) /\ NoCode(prior) /\ NoCode(prior \o last)
      BY <2>3, <2>4, <2>5, <3>1 DEF KeptInv, Codeless, NoCode
    <3> QED  BY <2>4, <3>2, NoIds DEF KeptInv, Codeless, NoCode
  <2>7. ASSUME Calm' PROVE Held'
    <3>1. Held /\ Calm
      BY <2>4, <2>7 DEF KeptInv, Calm
    <3>2. CASE streamPc = "again"
      BY <2>4, <2>5, <3>1, <3>2 DEF Held
    <3>3. CASE streamPc # "again" /\ api = "chat"
      <4>1. Results(out) = Results(output)
        BY <1>a, <2>1, <3>3 DEF Final, Results
      <4> QED  BY <2>2, <2>3, <2>4, <3>1, <3>3, <4>1 DEF Held
    <3>4. CASE streamPc # "again" /\ api = "responses"
      BY <2>2, <2>4, <3>1, <3>4 DEF KeptInv, Codeless, Calm, Held
    <3> QED  BY <3>2, <3>3, <3>4 DEF StreamType
  <2> QED  BY <2>6, <2>7 DEF KeptInv
<1>5. CASE Stream!StreamRaises
  <2>1. /\ streamPc' = CASE streamPc = "first" -> "ended" [] streamPc = "again" -> "code"
                        [] streamPc = "coding" -> "finish"
        /\ streamPc \in {"first", "again", "coding"} /\ cuts' = cuts \cup {streamPc}
        /\ row'.output = row.output
        /\ UNCHANGED <<api, realtime, output, prior, items, recorded, continues>>
    BY <1>0, <1>5 DEF Stream!StreamRaises, StreamType
  <2> QED  BY <2>1 DEF KeptInv, Codeless, Calm, Held
<1>6. CASE Stream!BeginTurn
  <2> DEFINE added == Stream!Sublist(turn', Stream!Calls \ Stream!Ids("call", output))
             m == [i \in DOMAIN added |-> Stream!Call(added[i])]
  <2>1. /\ streamPc = "loop" /\ streamPc' = "tools" /\ output' = output \o m
        /\ UNCHANGED <<api, realtime, prior, items, row, recorded, cuts, continues>>
    BY <1>6 DEF Stream!BeginTurn
  <2>2. turn' \in Seq(Stream!Calls)
    BY <1>6, NextStreamType DEF StreamType, Stream!Next
  <2>3. added \in Seq(Stream!Calls)
    BY <2>2, SublistIs
  <2> HIDE DEF added
  <2>4. m \in Seq(Items) /\ Results(m) = {} /\ NoCode(m)
    BY <2>3, CallItems DEF Results, NoCode
  <2> HIDE DEF m
  <2>5. /\ Stream!Range(output') = Stream!Range(output) \cup Stream!Range(m)
        /\ Results(output') = Results(output)
    <3>1. /\ Results(output \o m) = Results(output) \cup Results(m)
          /\ Stream!Range(output \o m) = Stream!Range(output) \cup Stream!Range(m)
      BY <1>b, <2>4, ResultsJoined
    <3> QED  BY <2>1, <2>4, <3>1
  <2> QED  BY <2>1, <2>4, <2>5 DEF KeptInv, Codeless, Calm, Held, NoCode
<1>7. CASE Stream!RunTool
  BY <1>7 DEF Stream!RunTool, KeptInv, Codeless, Calm, Held
<1>8. CASE Stream!Record
  <2> DEFINE m == [i \in DOMAIN turn |-> Stream!Result(turn[i])]
  <2>1. /\ streamPc = "tools" /\ streamPc' = "ask" /\ output' = output \o m \o <<Stream!Blank>>
        /\ recorded' = recorded \cup Stream!Range(turn)
        /\ UNCHANGED <<api, realtime, prior, items, row, cuts, continues>>
    BY <1>8 DEF Stream!Record
  <2>2. m \in Seq(Items) /\ Results(m) = Stream!Range(turn) /\ NoCode(m)
    BY <1>b, ResultItems DEF Results, NoCode
  <2> HIDE DEF m
  <2>3. /\ output \o m \in Seq(Items)
        /\ Results(output \o m) = Results(output) \cup Stream!Range(turn)
        /\ Stream!Range(output \o m) = Stream!Range(output) \cup Stream!Range(m)
    BY <1>b, <2>2, ResultsJoined
  <2>4. output' = Append(output \o m, Stream!Blank)
    BY <1>a, <2>1, <2>3
  <2> DEFINE long == output \o m
  <2>5. long \in Seq(Items)
    BY <2>3
  <2> HIDE DEF long
  <2>6. /\ Stream!Range(Append(long, Stream!Blank)) = Stream!Range(long) \cup {Stream!Blank}
        /\ Results(Append(long, Stream!Blank)) = Results(long)
    BY <1>a, <2>5, BlankAdded DEF Results
  <2> QED  BY <1>a, <2>1, <2>2, <2>3, <2>4, <2>6 DEF KeptInv, Codeless, Calm, Held, NoCode, long
<1>9. CASE Stream!AskAgain
  <2>1. /\ streamPc = "ask" /\ streamPc' = "again" /\ items' = <<>> /\ output' = <<>>
        /\ prior' = IF Stream!Last(output).type = "blank" THEN Stream!Front(output) ELSE output
        /\ UNCHANGED <<api, realtime, row, recorded, cuts, continues>>
    BY <1>9 DEF Stream!AskAgain, Stream!Ask
  <2>2. Results(prior') = Results(output) /\ Stream!Range(prior') \subseteq Stream!Range(output)
    <3>1. CASE output = <<>>
      <4>1. Stream!Front(output) = <<>>
        BY <3>1 DEF Stream!Front
      <4> QED  BY <2>1, <3>1, <4>1
    <3>2. CASE output # <<>> /\ Stream!Last(output).type = "blank"
      BY <1>b, <2>1, <3>2, FrontIs DEF Results
    <3>3. CASE Stream!Last(output).type # "blank"
      BY <2>1, <3>3
    <3> QED  BY <3>1, <3>2, <3>3
  <2> QED  BY <2>1, <2>2, NoIds DEF KeptInv, Codeless, Calm, Held, NoCode
<1>10. CASE Stream!AskFails \/ Stream!LeaveLoop
  <2>1. /\ streamPc' \in {"code", "finish"} /\ streamPc \in {"ask", "askCode", "loop"}
        /\ row'.output = row.output
        /\ UNCHANGED <<api, realtime, output, prior, items, recorded, cuts, continues>>
    BY <1>10 DEF Stream!AskFails, Stream!LeaveLoop, StreamType
  <2> QED  BY <2>1 DEF KeptInv, Codeless, Calm, Held
<1>11. CASE Stream!RunCode
  <2>1. /\ streamPc = "code" /\ streamPc' = "askCode" /\ output' = Append(output, Stream!Blank)
        /\ output # <<>> /\ Stream!Last(output) = Stream!Code
        /\ UNCHANGED <<api, realtime, prior, items, row, recorded, cuts, continues>>
    BY <1>11 DEF Stream!RunCode, Stream!CodeIsLast
  <2>2. Stream!Code \in Stream!Range(output)
    <3>1. Len(output) \in DOMAIN output
      BY <1>b, <2>1
    <3> QED  BY <2>1, <3>1 DEF Stream!Last, Stream!Range
  <2>3. Results(output') = Results(output)
    BY <1>a, <1>b, <2>1, BlankAdded DEF Results
  <2> QED  BY <2>1, <2>2, <2>3 DEF KeptInv, Codeless, Calm, Held, NoCode
<1>12. CASE Stream!AskCode
  BY <1>12 DEF Stream!AskCode, Stream!Ask, KeptInv, Codeless, Calm, Held
<1>13. CASE Stream!Finish \/ Stream!Cancel
  <2>1. /\ streamPc' = "ended" /\ row' = Stream!Stored /\ streamPc # "ended"
        /\ cuts \subseteq cuts' /\ (streamPc = "again" => "again" \in cuts')
        /\ UNCHANGED <<api, realtime, output, prior, items, recorded, continues>>
    BY <1>13 DEF Stream!Finish, Stream!Cancel
  <2>2. row'.output = IF realtime THEN row.output ELSE output
    BY <2>1 DEF Stream!Stored, StreamType
  <2> QED  BY <2>1, <2>2 DEF KeptInv, Codeless, Calm, Held
<1>14. CASE Stream!Continue
  <2>1. /\ streamPc = "ended" /\ streamPc' = "first" /\ output' = row.output /\ prior' = <<>>
        /\ items' = <<>> /\ row'.output = row.output /\ continues' = continues + 1
        /\ continues \in Nat /\ UNCHANGED <<api, realtime, recorded, cuts>>
    BY <1>14 DEF Stream!Continue, StreamType
  <2>2. continues' # 0 /\ NoCode(<<>>)
    BY <2>1, NoIds DEF NoCode
  <2> QED  BY <2>1, <2>2 DEF KeptInv, Codeless, Calm, Held
<1>15. CASE UNCHANGED Stream!vars
  BY <1>15 DEF Stream!vars, KeptInv, Codeless, Calm, Held
<1> QED  BY <1>1, <1>2, <1>3, <1>4, <1>5, <1>6, <1>7, <1>8, <1>9, <1>10, <1>11, <1>12, <1>13,
            <1>14, <1>15 DEF Stream!Next
-----------------------------------------------------------------------------
\* All calls that are anywhere have been made.
Within(out, n) == \A t \in Marks : Stream!Ids(t, out) \subseteq 1..n
Known ==
    /\ Within(output, calls) /\ Within(prior, calls)
    /\ Within(items, calls) /\ Within(row.output, calls)
    /\ \A list \in Stream!Range(queue) \cup {streamed, turn} : Stream!Range(list) \subseteq 1..calls

LEMMA InitKnown == Stream!Init => Known
  BY NoIds DEF Stream!Init, Known, Within

LEMMA WithinJoined ==
  ASSUME NEW a \in Seq(Items), NEW b \in Seq(Items), NEW n, Within(a, n), Within(b, n)
  PROVE  Within(a \o b, n)
  BY IdsJoined DEF Within

LEMMA WithinSame ==
  ASSUME NEW a, NEW b, NEW n, Within(a, n), \A t \in Marks : Stream!Ids(t, b) = Stream!Ids(t, a)
  PROVE  Within(b, n)
  BY DEF Within

\* What becomes of the lists of calls when a stream ends.
LEMMA EndLists ==
  ASSUME StreamType, NEW out \in Seq(Items), Ends(out)
  PROVE  /\ Stream!Range(queue') \subseteq Stream!Range(queue) \cup {EndCalls(out)}
         /\ EndCalls(out) = streamed \/
               Stream!Range(EndCalls(out)) \subseteq Stream!Ids("call", Stream!Cleaned(out))
<1> DEFINE e == EndCalls(out)
<1>1. e \in Seq(Stream!Calls) /\ queue \in Seq(Seq(Stream!Calls))
  BY EndCallsTyped DEF StreamType
<1>2. queue' = queue \/ queue' = Append(queue, e)
  BY DEF Ends
<1>3. Stream!Cleaned(out) \in Seq(Items)
  BY CleanedIs
<1>4. e = streamed \/ Stream!Range(e) \subseteq Stream!Ids("call", Stream!Cleaned(out))
  BY <1>3, UnhandledIs DEF EndCalls
<1> HIDE DEF e
<1>5. Stream!Range(Append(queue, e)) = Stream!Range(queue) \cup {e}
  BY <1>1, AddedAtEnd
<1> QED  BY <1>2, <1>4, <1>5 DEF e

LEMMA NextKnown ==
  ASSUME StreamType, Queued, Known, [Stream!Next]_(Stream!vars)
  PROVE  Known'
<1> USE DEF Stream!config, Stream!loop, Stream!asked, Stream!history
<1>a. /\ output \in Seq(Items) /\ prior \in Seq(Items) /\ items \in Seq(Items)
      /\ row.output \in Seq(Items) /\ turn \in Seq(Stream!Calls)
      /\ streamed \in Seq(Stream!Calls) /\ calls \in Nat
  BY DEF StreamType
<1>b. 1..calls \subseteq 1..(calls + 1) /\ calls + 1 \in 1..(calls + 1)
  BY <1>a
<1>1. CASE Stream!StreamText
  <2> DEFINE w == Stream!WithText(output)
  <2>1. w \in Seq(Items) /\ Within(w, calls)
    BY <1>a, WithTextIs, WithinSame DEF Known
  <2>2. /\ output' = w /\ (row' = row \/ row' = [row EXCEPT !.output = prior \o w])
        /\ UNCHANGED <<prior, items, streamed, queue, turn, calls>>
    BY <1>1 DEF Stream!StreamText
  <2> HIDE DEF w
  <2>3. Within(prior \o w, calls)
    BY <1>a, <2>1, WithinJoined DEF Known
  <2>4. Within(row'.output, calls)
    BY <2>2, <2>3 DEF Known, StreamType
  <2> QED  BY <2>1, <2>2, <2>4 DEF Known
<1>2. CASE Stream!StreamCall
  <2>1. /\ calls' = calls + 1 /\ streamed' = Append(streamed, calls + 1) /\ calls < MaxCalls
        /\ UNCHANGED <<output, prior, items, row, queue, turn>>
    BY <1>2 DEF Stream!StreamCall
  <2>2. calls + 1 \in Stream!Calls
    BY <1>a, <2>1, StreamAssumption DEF Stream!Calls
  <2>3. Stream!Range(streamed') = Stream!Range(streamed) \cup {calls + 1}
    BY <1>a, <2>1, <2>2, AddedAtEnd
  <2> QED  BY <1>b, <2>1, <2>3 DEF Known, Within
<1>3. ASSUME NEW item, Stream!StreamItem(item) PROVE Known'
  <2>1. /\ UNCHANGED <<prior, row, streamed, queue, turn>> /\ calls' \in {calls, calls + 1}
        /\ 1..calls \subseteq 1..calls' /\ item \in Items
        /\ \A t \in Marks : item.type = t => item.id \in 1..calls'
    <3>1. UNCHANGED <<prior, row, streamed, queue, turn>>
      BY <1>3 DEF Stream!StreamItem
    <3> QED  BY <1>3, <1>b, <3>1, ItemAdded, ItemShape
  <2>2. Within(items', calls')
    <3> SUFFICES ASSUME NEW t \in Marks PROVE Stream!Ids(t, items') \subseteq 1..calls'
      BY DEF Within
    <3>1. items' = Append(items, item)
      BY <1>3, ItemAdded
    <3>2. Stream!Ids(t, Append(items, item)) = Stream!Ids(t, items)
              \cup IF item.type = t THEN {item.id} ELSE {}
      BY <1>a, <2>1, IdsAppended
    <3> QED  BY <2>1, <3>1, <3>2 DEF Known, Within
  <2>3. Within(output', calls')
    <3> SUFFICES ASSUME NEW t \in Marks, NEW i \in 1..Len(output'), output'[i].type = t
                 PROVE  output'[i].id \in 1..calls'
      <4>1. output' \in Seq(Items)
        BY <1>3, ItemAdded
      <4>2. \A t \in Marks : Stream!Ids(t, output') =
                {output'[i].id : i \in {j \in 1..Len(output') : output'[j].type = t}}
        BY <4>1, IdsOf
      <4> QED  BY <4>2 DEF Within
    <3>1. output'[i] \in {Stream!Blank, item} \/ (i \in 1..Len(output) /\ output'[i] = output[i])
      <4>1. output'[i] \in {Stream!Blank, item} \/ (i <= Len(output) /\ output'[i] = output[i])
        BY <1>3, ItemAdded
      <4>2. Len(output) \in Nat /\ i \in Nat /\ i >= 1
        BY <1>3, <1>a, ItemAdded
      <4> QED  BY <4>1, <4>2
    <3>2. Stream!Blank.type # t
      BY ItemShape
    <3>3. CASE i \in 1..Len(output) /\ output'[i] = output[i]
      <4>1. output[i].id \in Stream!Ids(t, output)
        BY <1>a, <3>3, IdsOf
      <4> QED  BY <2>1, <3>3, <4>1 DEF Known, Within
    <3> QED  BY <2>1, <3>1, <3>2, <3>3
  <2> QED  BY <2>1, <2>2, <2>3 DEF Known, Within
<1>4. CASE Stream!EndStream \/ Stream!EndStreamWithCode
  <2>1. PICK out \in Seq(Items) : Final(out) /\ Ends(out)
    BY <1>4, StreamEnding
  <2> DEFINE last == Stream!Cleaned(out)
  <2>2. last \in Seq(Items) /\ Within(last, calls)
    <3>1. last \in Seq(Items) /\ \A t \in Marks : Stream!Ids(t, last) = Stream!Ids(t, out)
      BY CleanedIs
    <3>2. Within(out, calls)
      BY <2>1, WithinSame DEF Final, Known
    <3> QED  BY <3>1, <3>2, WithinSame
  <2>3. /\ output' \in {last, prior \o last} /\ prior' \in {prior, <<>>}
        /\ UNCHANGED <<items, row, streamed, turn, calls>>
    BY <2>1 DEF Ends
  <2>4. Stream!Range(EndCalls(out)) \subseteq 1..calls
    BY <2>1, <2>2, EndLists DEF Known, Within, Marks
  <2>5. Within(prior \o last, calls) /\ Within(<<>>, calls)
    BY <1>a, <2>2, WithinJoined, NoIds DEF Known, Within
  <2> HIDE DEF last
  <2>6. \A list \in Stream!Range(queue') : Stream!Range(list) \subseteq 1..calls
    BY <2>1, <2>4, EndLists DEF Known
  <2> QED  BY <2>2, <2>3, <2>5, <2>6 DEF Known
<1>5. CASE Stream!StreamRaises \/ Stream!AskFails \/ Stream!LeaveLoop \/ Stream!RunTool
  <2>1. /\ UNCHANGED <<output, prior, items, streamed, queue, turn, calls>>
        /\ row'.output = row.output
    BY <1>5 DEF Stream!StreamRaises, Stream!AskFails, Stream!LeaveLoop, Stream!RunTool, StreamType
  <2> QED  BY <2>1 DEF Known
<1>6. CASE Stream!BeginTurn
  <2> DEFINE added == Stream!Sublist(turn', Stream!Calls \ Stream!Ids("call", output))
             m == [i \in DOMAIN added |-> Stream!Call(added[i])]
  <2>1. output' = output \o m /\ UNCHANGED <<prior, items, streamed, row, calls>>
    BY <1>6 DEF Stream!BeginTurn
  <2>2. turn' \in Seq(Stream!Calls) /\ queue' = <<>> /\ turn' \in Stream!Range(queue)
    <3>1. DOMAIN queue = 1..Len(queue)
      BY DEF StreamType
    <3> QED  BY <1>6, <3>1, Taken DEF Stream!Range
  <2>3. Stream!Range(turn') \subseteq 1..calls
    BY <2>2 DEF Known
  <2>4. added \in Seq(Stream!Calls) /\ Stream!Range(added) \subseteq Stream!Range(turn')
    BY <2>2, SublistIs
  <2> HIDE DEF added
  <2>5. m \in Seq(Items) /\ Within(m, calls)
    <3>1. /\ m \in Seq(Items) /\ Stream!Ids("call", m) = Stream!Range(added)
          /\ Stream!Ids("result", m) = {}
      BY <2>4, CallItems
    <3> HIDE DEF m
    <3> QED  BY <2>3, <2>4, <3>1 DEF Within, Marks
  <2> HIDE DEF m
  <2>6. Within(output', calls)
    BY <1>a, <2>1, <2>5, WithinJoined DEF Known
  <2> QED  BY <2>1, <2>2, <2>3, <2>6, NoIds DEF Known
<1>7. CASE Stream!Record
  <2> DEFINE m == [i \in DOMAIN turn |-> Stream!Result(turn[i])]
             long == output \o m
  <2>1. /\ output' = long \o <<Stream!Blank>>
        /\ UNCHANGED <<prior, items, streamed, queue, turn, row, calls>>
    BY <1>7 DEF Stream!Record
  <2>2. m \in Seq(Items) /\ Within(m, calls)
    <3>1. /\ m \in Seq(Items) /\ Stream!Ids("result", m) = Stream!Range(turn)
          /\ Stream!Ids("call", m) = {}
      BY <1>a, ResultItems
    <3> HIDE DEF m
    <3> QED  BY <3>1 DEF Known, Within, Marks
  <2> HIDE DEF m
  <2>3. long \in Seq(Items) /\ Within(long, calls)
    BY <1>a, <2>2, WithinJoined DEF Known
  <2> HIDE DEF long
  <2>4. output' = Append(long, Stream!Blank)
    BY <2>1, <2>3, ItemShape
  <2>5. Within(output', calls)
    BY <2>3, <2>4, BlankAdded, WithinSame
  <2> QED  BY <2>1, <2>5 DEF Known
<1>8. CASE Stream!AskAgain
  <2>1. /\ prior' = IF Stream!Last(output).type = "blank" THEN Stream!Front(output) ELSE output
        /\ output' = <<>> /\ items' = <<>> /\ streamed' = <<>>
        /\ UNCHANGED <<queue, turn, row, calls>>
    BY <1>8 DEF Stream!AskAgain, Stream!Ask
  <2>2. Within(prior', calls)
    <3>1. CASE output = <<>>
      <4>1. Stream!Front(output) = <<>>
        BY <3>1 DEF Stream!Front
      <4> QED  BY <2>1, <3>1, <4>1 DEF Known
    <3>2. CASE output # <<>> /\ Stream!Last(output).type = "blank"
      <4>1. \A t \in Marks : Stream!Last(output).type # t
        BY <3>2 DEF Marks
      <4>2. \A t \in Marks : Stream!Ids(t, Stream!Front(output)) = Stream!Ids(t, output)
        BY <1>a, <3>2, <4>1, FrontIs
      <4>3. Within(Stream!Front(output), calls)
        BY <4>2, WithinSame DEF Known
      <4> QED  BY <2>1, <3>2, <4>3
    <3>3. CASE Stream!Last(output).type # "blank"
      BY <2>1, <3>3 DEF Known
    <3> QED  BY <3>1, <3>2, <3>3
  <2> QED  BY <2>1, <2>2, NoIds DEF Known, Within
<1>9. CASE Stream!RunCode
  <2>1. output' = Append(output, Stream!Blank)
        /\ UNCHANGED <<prior, items, streamed, queue, turn, row, calls>>
    BY <1>9 DEF Stream!RunCode
  <2>2. Within(output', calls)
    BY <1>a, <2>1, BlankAdded, WithinSame DEF Known
  <2> QED  BY <2>1, <2>2 DEF Known
<1>10. CASE Stream!AskCode
  BY <1>10, NoIds DEF Stream!AskCode, Stream!Ask, Known, Within
<1>11. CASE Stream!Finish \/ Stream!Cancel
  <2>1. /\ UNCHANGED <<output, prior, items, streamed, queue, turn, calls>>
        /\ row' = Stream!Stored
    BY <1>11 DEF Stream!Finish, Stream!Cancel
  <2>2. row'.output = row.output \/ row'.output = output
    BY <2>1 DEF Stream!Stored, StreamType
  <2> QED  BY <2>1, <2>2 DEF Known
<1>12. CASE Stream!Continue
  <2>1. /\ output' = row.output /\ prior' = <<>> /\ items' = <<>> /\ streamed' = <<>>
        /\ queue' = <<>> /\ turn' = <<>> /\ row'.output = row.output /\ calls' = calls
    BY <1>12 DEF Stream!Continue, StreamType
  <2> QED  BY <2>1, NoIds DEF Known, Within
<1>13. CASE UNCHANGED Stream!vars
  BY <1>13 DEF Stream!vars, Known
<1> QED  BY <1>1, <1>2, <1>3, <1>4, <1>5, <1>6, <1>7, <1>8, <1>9, <1>10, <1>11, <1>12, <1>13
         DEF Stream!Next
-----------------------------------------------------------------------------
\* The calls of a list come before their results.
Ordered(out) ==
    \A i, j \in 1..Len(out) :
        out[i].type = "call" /\ out[j].type = "result" /\ out[i].id = out[j].id => i < j
Requested(out) == Stream!Ids("call", out)

\* A list of which each item is that of an ordered one, at its place, or no mark.
LEMMA OrderedPart ==
  ASSUME NEW a \in Seq(Items), NEW b \in Seq(Items), Ordered(a), Len(b) <= Len(a) + 1,
         \A i \in 1..Len(b) : b[i].type \notin Marks \/ (i <= Len(a) /\ b[i] = a[i])
  PROVE  Ordered(b)
<1> SUFFICES ASSUME NEW i \in 1..Len(b), NEW j \in 1..Len(b), b[i].type = "call",
                    b[j].type = "result", b[i].id = b[j].id
             PROVE  i < j
  BY DEF Ordered
<1>1. Len(a) \in Nat /\ Len(b) \in Nat
  OBVIOUS
<1>2. b[i].type \in Marks /\ b[j].type \in Marks
  BY DEF Marks
<1>3. i \in 1..Len(a) /\ j \in 1..Len(a) /\ b[i] = a[i] /\ b[j] = a[j]
  BY <1>1, <1>2
<1> QED  BY <1>3 DEF Ordered

\* No marks of one kind, no order to break.
LEMMA OrderedAnyway ==
  ASSUME NEW out \in Seq(Items), Requested(out) \cap Results(out) = {}
  PROVE  Ordered(out)
<1> SUFFICES ASSUME NEW i \in 1..Len(out), NEW j \in 1..Len(out), out[i].type = "call",
                    out[j].type = "result", out[i].id = out[j].id
             PROVE  FALSE
  BY DEF Ordered
<1>1. out[i].id \in Requested(out)
  BY IdsOf DEF Requested
<1>2. out[j].id \in Results(out)
  BY IdsOf DEF Results
<1> QED  BY <1>1, <1>2

LEMMA OrderedJoined ==
  ASSUME NEW a \in Seq(Items), NEW b \in Seq(Items), Ordered(a), Ordered(b),
         Requested(b) \cap Results(a) = {}
  PROVE  Ordered(a \o b)
<1> DEFINE ab == a \o b
<1>1. /\ Len(a) \in Nat /\ Len(b) \in Nat /\ Len(ab) = Len(a) + Len(b)
      /\ \A i \in 1..Len(a) : ab[i] = a[i]
      /\ \A i \in Len(a) + 1..Len(ab) : ab[i] = b[i - Len(a)] /\ i - Len(a) \in 1..Len(b)
  OBVIOUS
<1> HIDE DEF ab
<1> SUFFICES ASSUME NEW i \in 1..Len(ab), NEW j \in 1..Len(ab), ab[i].type = "call",
                    ab[j].type = "result", ab[i].id = ab[j].id
             PROVE  i < j
  BY DEF Ordered, ab
<1>2. CASE i \in 1..Len(a) /\ j \in 1..Len(a)
  BY <1>1, <1>2 DEF Ordered
<1>3. CASE i \in 1..Len(a) /\ j \in Len(a) + 1..Len(ab)
  BY <1>1, <1>3
<1>4. CASE i \in Len(a) + 1..Len(ab) /\ j \in Len(a) + 1..Len(ab)
  <2>1. i - Len(a) < j - Len(a)
    BY <1>1, <1>4 DEF Ordered
  <2> QED  BY <1>1, <1>4, <2>1
<1>5. CASE i \in Len(a) + 1..Len(ab) /\ j \in 1..Len(a)
  <2> DEFINE k == i - Len(a)
  <2>1. k \in 1..Len(b) /\ b[k].type = "call" /\ b[k].id = ab[i].id
    BY <1>1, <1>5
  <2> HIDE DEF k
  <2>2. b[k].id \in Requested(b)
    BY <2>1, IdsOf DEF Requested
  <2>3. a[j].id \in Results(a) /\ a[j].id = ab[i].id
    BY <1>1, <1>5, IdsOf DEF Results
  <2> QED  BY <2>1, <2>2, <2>3
<1> QED  BY <1>1, <1>2, <1>3, <1>4, <1>5

LEMMA OrderedBlank ==
  ASSUME NEW a \in Seq(Items), Ordered(a), NEW x \in {Stream!Blank, Stream!Text, Stream!Code}
  PROVE  Ordered(Append(a, x))
<1>1. x \in Items /\ x.type \notin Marks
  BY ItemShape
<1> DEFINE b == Append(a, x)
<1>2. /\ b \in Seq(Items) /\ Len(a) \in Nat /\ Len(b) = Len(a) + 1
      /\ \A i \in 1..Len(a) : b[i] = a[i]
      /\ b[Len(a) + 1] = x
  BY <1>1
<1> HIDE DEF b
<1>3. \A i \in 1..Len(b) : b[i].type \notin Marks \/ (i <= Len(a) /\ b[i] = a[i])
  BY <1>1, <1>2
<1>4. b \in Seq(Items) /\ Len(b) <= Len(a) + 1
  BY <1>2
<1>5. Ordered(b)
  BY <1>3, <1>4, OrderedPart
<1> QED  BY <1>5 DEF b

LEMMA OrderedText ==
  ASSUME NEW out \in Seq(Items), Ordered(out)
  PROVE  Ordered(Stream!WithText(out))
<1>1. CASE out # <<>> /\ Stream!Last(out).type \in {"text", "blank"}
  <2> DEFINE w == [out EXCEPT ![Len(out)] = Stream!Text]
  <2>1. Stream!WithText(out) = w
    BY <1>1 DEF Stream!WithText
  <2>2. Len(out) \in 1..Len(out) /\ Stream!Text \in Items /\ Stream!Text.type \notin Marks
    BY <1>1, ItemShape
  <2>3. w \in Seq(Items) /\ Len(w) = Len(out)
        /\ \A j \in 1..Len(out) : w[j] = IF j = Len(out) THEN Stream!Text ELSE out[j]
    BY <2>2
  <2> HIDE DEF w
  <2>4. \A i \in 1..Len(w) : w[i].type \notin Marks \/ (i <= Len(out) /\ w[i] = out[i])
    BY <2>2, <2>3
  <2>5. Len(w) <= Len(out) + 1
    BY <2>2, <2>3
  <2> QED  BY <2>1, <2>3, <2>4, <2>5, OrderedPart
<1>2. CASE ~(out # <<>> /\ Stream!Last(out).type \in {"text", "blank"})
  BY <1>2, OrderedBlank DEF Stream!WithText
<1> QED  BY <1>1, <1>2

LEMMA OrderedPrefix ==
  ASSUME NEW a \in Seq(Items), NEW b \in Seq(Items), Ordered(a), Len(b) <= Len(a),
         \A i \in 1..Len(b) : b[i] = a[i]
  PROVE  Ordered(b)
<1>1. Len(a) \in Nat /\ Len(b) \in Nat
  OBVIOUS
<1>2. Len(b) <= Len(a) + 1
  BY <1>1
<1>3. \A i \in 1..Len(b) : i <= Len(a) /\ b[i] = a[i]
  BY <1>1
<1> QED  BY <1>2, <1>3, OrderedPart
-----------------------------------------------------------------------------
\* The messages of a request, and the identifiers that an item may have.
Named == {0} \cup Stream!Calls
Sent == [role : {"assistant", "tool"}, text : BOOLEAN, calls : Seq(Named)]
Pending == [messages : Seq(Sent), text : BOOLEAN, calls : Seq(Named)]

\* A message of a tool is about one call, and comes after those of the assistant
\* that are about it.
Single(m) == m.role = "tool" => Stream!Range(m.calls) = {Stream!Head(m.calls)}
Before(messages) ==
    \A i, j \in 1..Len(messages) :
        /\ messages[i].role = "assistant" /\ messages[j].role = "tool"
        /\ Stream!Range(messages[i].calls) \cap Stream!Range(messages[j].calls) # {}
        => i < j
InOrder(messages) ==
    /\ messages \in Seq(Sent) /\ Before(messages)
    /\ \A i \in 1..Len(messages) : Single(messages[i])
Done(messages) == Stream!CallsIn(messages, "tool")

\* The messages, one by one.
LEMMA CallsInIs ==
  ASSUME NEW messages \in Seq(Sent), NEW role
  PROVE  Stream!CallsIn(messages, role) =
             UNION {Stream!Range(messages[i].calls) :
                    i \in {j \in 1..Len(messages) : messages[j].role = role}}
<1>1. DOMAIN messages = 1..Len(messages)
  OBVIOUS
<1> QED  BY <1>1 DEF Stream!CallsIn, Stream!Range

LEMMA MessageAdded ==
  ASSUME NEW messages, InOrder(messages), NEW m \in Sent, Single(m),
         m.role = "assistant" => Stream!Range(m.calls) \cap Done(messages) = {}
  PROVE  /\ InOrder(Append(messages, m))
         /\ Done(Append(messages, m)) = Done(messages)
                \cup IF m.role = "tool" THEN Stream!Range(m.calls) ELSE {}
<1> DEFINE long == Append(messages, m)
<1>1. /\ messages \in Seq(Sent) /\ long \in Seq(Sent) /\ Len(messages) \in Nat
      /\ Len(long) = Len(messages) + 1 /\ long[Len(messages) + 1] = m
      /\ \A i \in 1..Len(messages) : long[i] = messages[i]
  BY DEF InOrder
<1>2. Stream!Range(long) = Stream!Range(messages) \cup {m}
  BY <1>1, AddedAtEnd
<1>3. Done(long) = Done(messages) \cup IF m.role = "tool" THEN Stream!Range(m.calls) ELSE {}
  <2> HIDE DEF long
  <2> QED  BY <1>2 DEF Done, Stream!CallsIn
<1> HIDE DEF long
<1>4. \A i \in 1..Len(long) : Single(long[i])
  <2> SUFFICES ASSUME NEW i \in 1..Len(long) PROVE Single(long[i])
    OBVIOUS
  <2>1. i \in 1..Len(messages) \/ i = Len(messages) + 1
    BY <1>1
  <2> QED  BY <1>1, <2>1 DEF InOrder
<1>5. Before(long)
  <2> SUFFICES ASSUME NEW i \in 1..Len(long), NEW j \in 1..Len(long),
                      long[i].role = "assistant", long[j].role = "tool",
                      Stream!Range(long[i].calls) \cap Stream!Range(long[j].calls) # {}
               PROVE  i < j
    BY DEF Before
  <2>1. CASE j = Len(messages) + 1
    <3>1. i # j
      OBVIOUS
    <3> QED  BY <1>1, <2>1, <3>1
  <2>2. CASE i \in 1..Len(messages) /\ j \in 1..Len(messages)
    BY <1>1, <2>2 DEF InOrder, Before
  <2>3. CASE i = Len(messages) + 1 /\ j \in 1..Len(messages)
    <3>1. Stream!Range(messages[j].calls) \subseteq Done(messages)
      BY <1>1, <2>3, CallsInIs DEF Done
    <3> QED  BY <1>1, <2>3, <3>1
  <2> QED  BY <1>1, <2>1, <2>2, <2>3
<1> QED  BY <1>1, <1>3, <1>4, <1>5 DEF InOrder, long

\* The conversion of the first n items: what is pending came after the results so far.
Tidy(acc, out, n) ==
    /\ acc \in Pending /\ InOrder(acc.messages)
    /\ \A c \in Done(acc.messages) : \E j \in 1..n : out[j].type = "result" /\ out[j].id = c
    /\ Stream!Range(acc.calls) \cap Done(acc.messages) = {}

LEMMA FlushedIs ==
  ASSUME NEW acc, NEW out, NEW n, Tidy(acc, out, n)
  PROVE  InOrder(Stream!Flushed(acc)) /\ Done(Stream!Flushed(acc)) = Done(acc.messages)
<1>1. CASE acc.calls = <<>> /\ ~acc.text
  BY <1>1 DEF Stream!Flushed, Tidy
<1>2. CASE ~(acc.calls = <<>> /\ ~acc.text)
  <2> DEFINE m == Stream!Assistant(acc.text, acc.calls)
  <2>1. m \in Sent /\ m.role = "assistant" /\ m.calls = acc.calls /\ Single(m)
    BY DEF Stream!Assistant, Sent, Pending, Tidy, Single
  <2>2. Stream!Flushed(acc) = Append(acc.messages, m)
    BY <1>2 DEF Stream!Flushed
  <2> HIDE DEF m
  <2>3. InOrder(acc.messages) /\ Stream!Range(m.calls) \cap Done(acc.messages) = {}
    BY <2>1 DEF Tidy
  <2> DEFINE old == acc.messages
             long == Append(old, m)
  <2>4. m.role # "tool"
    BY <2>1
  <2> HIDE DEF old
  <2>5. InOrder(old) /\ (m.role = "assistant" => Stream!Range(m.calls) \cap Done(old) = {})
    BY <2>3 DEF old
  <2>6. /\ InOrder(long)
        /\ Done(long) = Done(old) \cup IF m.role = "tool" THEN Stream!Range(m.calls) ELSE {}
    BY <2>1, <2>5, MessageAdded
  <2>7. InOrder(long) /\ Done(long) = Done(old)
    BY <2>4, <2>6
  <2> QED  BY <2>2, <2>7 DEF old
<1> QED  BY <1>1, <1>2

LEMMA ConvertedIs ==
  ASSUME NEW out \in Seq(Items), Ordered(out), NEW n \in Nat, n < Len(out),
         NEW acc, Tidy(acc, out, n)
  PROVE  Tidy(Stream!Converted(acc, out[n + 1]), out, n + 1)
<1> DEFINE item == out[n + 1]
           new == Stream!Converted(acc, item)
<1>1. /\ n + 1 \in 1..Len(out) /\ item \in Items /\ item.type \in Stream!ItemTypes
      /\ item.id \in Named /\ 1..n \subseteq 1..(n + 1)
  <2>1. n + 1 \in 1..Len(out) /\ 1..n \subseteq 1..(n + 1)
    OBVIOUS
  <2>2. out[n + 1] \in Items
    BY <2>1
  <2> QED  BY <2>1, <2>2, ItemShape DEF Named
<1>2. /\ acc \in Pending /\ InOrder(acc.messages)
      /\ \A c \in Done(acc.messages) : \E j \in 1..n : out[j].type = "result" /\ out[j].id = c
      /\ Stream!Range(acc.calls) \cap Done(acc.messages) = {}
  BY DEF Tidy
<1>3. \A c \in Done(acc.messages) : \E j \in 1..(n + 1) : out[j].type = "result" /\ out[j].id = c
  BY <1>1, <1>2
<1>4. CASE item.type \in {"text", "code"}
  <2>1. new = [acc EXCEPT !.text = TRUE]
    BY <1>4 DEF Stream!Converted
  <2>2. new \in Pending /\ new.messages = acc.messages /\ new.calls = acc.calls
    BY <1>2, <2>1 DEF Pending
  <2> HIDE DEF new
  <2> QED  BY <1>2, <1>3, <2>2 DEF Tidy, new
<1>5. CASE item.type = "call"
  <2>1. new = [acc EXCEPT !.calls = Append(@, item.id)]
    BY <1>5 DEF Stream!Converted
  <2>2. /\ new.messages = acc.messages /\ new.calls = Append(acc.calls, item.id)
        /\ acc.calls \in Seq(Named)
    BY <1>2, <2>1 DEF Pending
  <2>3. Append(acc.calls, item.id) \in Seq(Named)
        /\ Stream!Range(Append(acc.calls, item.id)) = Stream!Range(acc.calls) \cup {item.id}
    BY <1>1, <2>2, AddedAtEnd
  <2>4. new \in Pending
    BY <1>2, <2>1, <2>3 DEF Pending
  <2>5. item.id \notin Done(acc.messages)
    <3> SUFFICES ASSUME item.id \in Done(acc.messages) PROVE FALSE
      OBVIOUS
    <3>1. PICK j \in 1..n : out[j].type = "result" /\ out[j].id = item.id
      BY <1>2
    <3>2. j \in 1..Len(out)
      BY <1>1, <3>1
    <3>3. n + 1 < j
      BY <1>1, <1>5, <3>1, <3>2 DEF Ordered
    <3> QED  BY <3>1, <3>3
  <2> HIDE DEF new, item
  <2> QED  BY <1>2, <1>3, <2>2, <2>3, <2>4, <2>5 DEF Tidy, new, item
<1>6. CASE item.type = "result"
  <2> DEFINE m == Stream!Tool(item.id)
             flushed == Stream!Flushed(acc)
  <2>1. new = [messages |-> Append(flushed, m), text |-> FALSE, calls |-> <<>>]
    BY <1>6 DEF Stream!Converted
  <2>2. m \in Sent /\ m.role = "tool" /\ Stream!Range(m.calls) = {item.id} /\ Single(m)
    <3>1. m = [role |-> "tool", text |-> TRUE, calls |-> <<item.id>>]
      BY DEF Stream!Tool
    <3>2. <<item.id>> \in Seq(Named) /\ Stream!Range(<<item.id>>) = {item.id}
          /\ Stream!Head(<<item.id>>) = item.id
      BY <1>1 DEF Stream!Range
    <3> QED  BY <3>1, <3>2 DEF Sent, Single
  <2>3. InOrder(flushed) /\ Done(flushed) = Done(acc.messages)
    BY FlushedIs
  <2> HIDE DEF m, flushed
  <2>4. InOrder(Append(flushed, m)) /\ Done(Append(flushed, m)) = Done(acc.messages) \cup {item.id}
    BY <2>2, <2>3, MessageAdded
  <2>5. new \in Pending /\ new.messages = Append(flushed, m) /\ Stream!Range(new.calls) = {}
    BY <2>1, <2>4, NoIds DEF Pending, InOrder
  <2>6. \E j \in 1..(n + 1) : out[j].type = "result" /\ out[j].id = item.id
    BY <1>1, <1>6
  <2> HIDE DEF new, item
  <2> QED  BY <1>3, <2>4, <2>5, <2>6 DEF Tidy, new, item
<1>7. CASE item.type = "blank"
  <2>1. new = acc
    BY <1>7 DEF Stream!Converted
  <2> QED  BY <1>2, <1>3, <2>1 DEF Tidy
<1> QED  BY <1>1, <1>4, <1>5, <1>6, <1>7 DEF Stream!ItemTypes

LEMMA ConvertedTyped ==
  ASSUME NEW acc \in Pending, NEW item \in Items
  PROVE  Stream!Converted(acc, item) \in Pending
<1>1. item.type \in Stream!ItemTypes /\ item.id \in Named
  BY ItemShape DEF Named
<1>2. acc.messages \in Seq(Sent) /\ acc.text \in BOOLEAN /\ acc.calls \in Seq(Named)
  BY DEF Pending
<1>3. CASE item.type \in {"text", "code"}
  <2>1. Stream!Converted(acc, item) = [acc EXCEPT !.text = TRUE]
    BY <1>3 DEF Stream!Converted
  <2> QED  BY <2>1 DEF Pending
<1>4. CASE item.type = "call"
  <2>1. Stream!Converted(acc, item) = [acc EXCEPT !.calls = Append(@, item.id)]
    BY <1>4 DEF Stream!Converted
  <2>2. Append(acc.calls, item.id) \in Seq(Named)
    BY <1>1, <1>2
  <2> QED  BY <2>1, <2>2 DEF Pending
<1>5. CASE item.type = "result"
  <2> DEFINE flushed == Stream!Flushed(acc)
             m == Stream!Tool(item.id)
  <2>1. Stream!Converted(acc, item) = [messages |-> Append(flushed, m), text |-> FALSE, calls |-> <<>>]
    BY <1>5 DEF Stream!Converted
  <2>2. Stream!Assistant(acc.text, acc.calls) \in Sent /\ m \in Sent
    BY <1>1, <1>2 DEF Stream!Assistant, Stream!Tool, Sent
  <2>3. flushed \in Seq(Sent)
    BY <1>2, <2>2 DEF Stream!Flushed
  <2> HIDE DEF flushed, m
  <2>4. Append(flushed, m) \in Seq(Sent)
    BY <2>2, <2>3
  <2> QED  BY <2>1, <2>4 DEF Pending
<1>6. CASE item.type = "blank"
  BY <1>6 DEF Stream!Converted
<1> QED  BY <1>1, <1>3, <1>4, <1>5, <1>6 DEF Stream!ItemTypes

\* The conversion, item by item.
LEMMA ConversionSteps ==
  ASSUME NEW out \in Seq(Items)
  PROVE  \E f \in [0..Len(out) -> Pending] :
             /\ Stream!Conversion(out) = f[Len(out)]
             /\ f[0] = [messages |-> <<>>, text |-> FALSE, calls |-> <<>>]
             /\ \A i \in 1..Len(out) : f[i] = Stream!Converted(f[i - 1], out[i])
<1> DEFINE N == Len(out)
           start == [messages |-> <<>>, text |-> FALSE, calls |-> <<>>]
           step == [i \in 1..N |-> [acc \in Pending |-> Stream!Converted(acc, out[i])]]
           Fits(g) == g = [i \in 0..N |-> IF i = 0 THEN start
                                         ELSE Stream!Converted(g[i - 1], out[i])]
           f == CHOOSE g : Fits(g)
<1>1. N \in Nat /\ \A i \in 1..N : out[i] \in Items
  OBVIOUS
<1>2. start \in Pending
  BY DEF Pending
<1>3. step \in [1..N -> [Pending -> Pending]]
  BY <1>1, ConvertedTyped
<1>4. \A i \in 1..N, acc \in Pending : step[i][acc] = Stream!Converted(acc, out[i])
  OBVIOUS
<1> HIDE DEF step, start
<1>5. PICK g \in [0..N -> Pending] : g[0] = start /\ \A i \in 1..N : g[i] = step[i][g[i - 1]]
  <2> DEFINE M == N
  <2>1. M \in Nat /\ step \in [1..M -> [Pending -> Pending]]
    BY <1>1, <1>3
  <2> HIDE DEF M
  <2>2. Defined(Pending, M, start, step) # {}
    BY <1>2, <2>1, Steps
  <2> QED  BY <2>2 DEF M, Defined
<1>6. \A i \in 1..N : i - 1 \in 0..N
  BY <1>1
<1>7. \A i \in 1..N : g[i] = Stream!Converted(g[i - 1], out[i])
  BY <1>4, <1>5, <1>6
<1>8. Fits(g)
  <2>1. \A i \in 0..N : i # 0 => i \in 1..N
    BY <1>1
  <2>2. g = [i \in 0..N |-> g[i]]
    BY <1>5
  <2> QED  BY <1>5, <1>7, <2>1, <2>2
<1>9. Fits(f)
  <2> HIDE DEF Fits
  <2> QED  BY <1>8
<1>10. Stream!Conversion(out) = f[N]
  BY DEF Stream!Conversion, start
<1>11. 0 \in 0..N /\ \A i \in 1..N : i \in 0..N /\ i # 0
  BY <1>1
<1> HIDE DEF f
<1>12. f[0] = start /\ \A i \in 1..N : f[i] = Stream!Converted(f[i - 1], out[i])
  BY <1>9, <1>11
<1>13. f = [i \in 0..N |-> f[i]]
  BY <1>9
<1> DEFINE P == {i \in 0..N : f[i] \in Pending}
<1>14. P = 0..N
  <2>1. 0 \in P /\ P \in SUBSET (0..N)
    BY <1>2, <1>11, <1>12
  <2>2. ASSUME NEW n \in P, n < N PROVE n + 1 \in P
    <3>1. n + 1 \in 1..N /\ n + 1 \in 0..N /\ n = (n + 1) - 1
      BY <1>1, <2>2
    <3>2. f[n + 1] = Stream!Converted(f[n], out[n + 1])
      BY <1>12, <3>1
    <3>3. f[n] \in Pending /\ out[n + 1] \in Items
      BY <1>1, <2>2, <3>1
    <3> QED  BY <3>1, <3>2, <3>3, ConvertedTyped
  <2> HIDE DEF P
  <2> QED  BY <1>1, <2>1, <2>2, UpTo
<1>15. f \in [0..N -> Pending]
  BY <1>13, <1>14
<1> HIDE DEF Fits
<1> QED  BY <1>10, <1>12, <1>15 DEF start

LEMMA ConversionIs ==
  ASSUME NEW out \in Seq(Items), Ordered(out)
  PROVE  InOrder(Stream!Flushed(Stream!Conversion(out)))
<1> DEFINE N == Len(out)
<1>1. N \in Nat
  OBVIOUS
<1>2. PICK f \in [0..N -> Pending] :
             /\ Stream!Conversion(out) = f[N]
             /\ f[0] = [messages |-> <<>>, text |-> FALSE, calls |-> <<>>]
             /\ \A i \in 1..N : f[i] = Stream!Converted(f[i - 1], out[i])
  BY ConversionSteps
<1> DEFINE P == {n \in 0..N : Tidy(f[n], out, n)}
<1>3. 0 \in P
  <2>1. f[0] \in Pending /\ f[0].messages = <<>> /\ f[0].calls = <<>> /\ 0 \in 0..N
    <3>1. 0 \in 0..N
      BY <1>1
    <3>2. f[0] \in Pending
      BY <1>2, <3>1
    <3>3. f[0].messages = <<>> /\ f[0].calls = <<>>
      BY <1>2
    <3> QED  BY <3>1, <3>2, <3>3
  <2>2. <<>> \in Seq(Sent) /\ Len(<<>>) = 0
    OBVIOUS
  <2>3. InOrder(<<>>)
    BY <2>2 DEF InOrder, Before
  <2>4. Done(<<>>) = {} /\ Stream!Range(<<>>) = {}
    BY <2>2, CallsInIs, NoIds DEF Done
  <2> QED  BY <2>1, <2>3, <2>4 DEF Tidy
<1>4. ASSUME NEW n \in P, n < N PROVE n + 1 \in P
  <2>1. n \in Nat /\ n + 1 \in 1..N /\ n + 1 \in 0..N /\ (n + 1) - 1 = n /\ Tidy(f[n], out, n)
    BY <1>1, <1>4
  <2>2. f[n + 1] = Stream!Converted(f[n], out[n + 1])
    BY <1>2, <2>1
  <2>3. Tidy(Stream!Converted(f[n], out[n + 1]), out, n + 1)
    BY <1>4, <2>1, ConvertedIs
  <2> QED  BY <2>1, <2>2, <2>3
<1>5. P \in SUBSET (0..N)
  OBVIOUS
<1> HIDE DEF P
<1>6. N \in P
  BY <1>1, <1>3, <1>4, <1>5, UpTo
<1>7. Tidy(f[N], out, N)
  BY <1>6 DEF P
<1> QED  BY <1>2, <1>7, FlushedIs

\* The elements of a part of a list come from that list, in its order.
LEMMA SublistOrder ==
  ASSUME NEW S, NEW s \in Seq(S), NEW T
  PROVE  \E e \in [1..Len(Stream!Sublist(s, T)) -> 1..Len(s)] :
             /\ \A i \in 1..Len(Stream!Sublist(s, T)) : Stream!Sublist(s, T)[i] = s[e[i]]
             /\ \A i, j \in 1..Len(Stream!Sublist(s, T)) : e[i] < e[j] => i < j
             /\ \A k \in 1..Len(s) : s[k] \in T =>
                    \E i \in 1..Len(Stream!Sublist(s, T)) : e[i] = k
<1> DEFINE N == Len(s)
           Places(q, n, e) == /\ e \in [1..Len(q) -> 1..n]
                              /\ \A i \in 1..Len(q) : q[i] = s[e[i]]
                              /\ \A i, j \in 1..Len(q) : e[i] < e[j] => i < j
                              /\ \A k \in 1..n : s[k] \in T => \E i \in 1..Len(q) : e[i] = k
<1>1. N \in Nat /\ \A i \in 1..N : s[i] \in S
  OBVIOUS
<1>2. PICK f \in [0..N -> Seq(S)] :
             /\ Stream!Sublist(s, T) = f[N]
             /\ f[0] = <<>>
             /\ \A i \in 1..N : f[i] = IF s[i] \in T THEN Append(f[i - 1], s[i]) ELSE f[i - 1]
  BY SublistSteps
<1> DEFINE P == {n \in 0..N : \E e : Places(f[n], n, e)}
<1>3. 0 \in P
  <2>1. 0 \in 0..N /\ Len(f[0]) = 0
    BY <1>1, <1>2
  <2>2. Places(f[0], 0, [i \in {} |-> 0])
    BY <2>1
  <2> QED  BY <2>1, <2>2
<1>4. ASSUME NEW n \in P, n < N PROVE n + 1 \in P
  <2>1. n \in Nat /\ n + 1 \in 1..N /\ n + 1 \in 0..N /\ (n + 1) - 1 = n /\ n \in 0..N
    BY <1>1, <1>4
  <2>2. PICK e : Places(f[n], n, e)
    OBVIOUS
  <2> DEFINE q == f[n]
             L == Len(q)
             x == s[n + 1]
  <2>3. q \in Seq(S) /\ x \in S /\ L \in Nat
    <3>1. q \in Seq(S) /\ x \in S
      BY <1>1, <1>2, <2>1
    <3> HIDE DEF q, x
    <3> QED  BY <3>1
  <2>4. f[n + 1] = IF x \in T THEN Append(q, x) ELSE q
    BY <1>2, <2>1
  <2>5. /\ e \in [1..L -> 1..n]
        /\ \A i \in 1..L : q[i] = s[e[i]]
        /\ \A i, j \in 1..L : e[i] < e[j] => i < j
        /\ \A k \in 1..n : s[k] \in T => \E i \in 1..L : e[i] = k
    BY <2>2
  <2>6. 1..(n + 1) = 1..n \cup {n + 1}
    BY <2>1
  <2>7. CASE x \notin T
    <3>1. f[n + 1] = q
      BY <2>4, <2>7
    <3>2. \A k \in 1..(n + 1) : s[k] \in T => \E i \in 1..L : e[i] = k
      BY <2>5, <2>6, <2>7
    <3>3. e \in [1..L -> 1..(n + 1)]
      BY <2>5, <2>6
    <3> HIDE DEF L, q, x
    <3>4. Places(q, n + 1, e)
      BY <2>5, <3>2, <3>3 DEF L
    <3> HIDE DEF Places
    <3> QED  BY <2>1, <3>1, <3>4
  <2>8. CASE x \in T
    <3> DEFINE long == Append(q, x)
               d == [i \in 1..(L + 1) |-> IF i = L + 1 THEN n + 1 ELSE e[i]]
    <3>1. f[n + 1] = long
      BY <2>4, <2>8
    <3>2. Len(long) = L + 1 /\ long[L + 1] = x /\ \A i \in 1..L : long[i] = q[i]
      BY <2>3
    <3> HIDE DEF long, L
    <3>3. 1..(L + 1) = 1..L \cup {L + 1} /\ L + 1 \notin 1..L
      BY <2>3
    <3>4. d[L + 1] = n + 1 /\ \A i \in 1..L : d[i] = e[i]
      BY <3>3
    <3>5. d \in [1..(L + 1) -> 1..(n + 1)]
      BY <2>5, <2>6, <3>3
    <3> HIDE DEF d
    <3>6. \A i \in 1..(L + 1) : long[i] = s[d[i]]
      <4>1. \A i \in 1..L : long[i] = s[d[i]]
        BY <2>5, <3>2, <3>4
      <4>2. long[L + 1] = s[d[L + 1]]
        BY <3>2, <3>4
      <4> QED  BY <3>3, <4>1, <4>2
    <3>7. \A i, j \in 1..(L + 1) : d[i] < d[j] => i < j
      <4> SUFFICES ASSUME NEW i \in 1..(L + 1), NEW j \in 1..(L + 1), d[i] < d[j]
                   PROVE  i < j
        OBVIOUS
      <4>1. d[j] \in 1..(n + 1) /\ (i \in 1..L => d[i] \in 1..n)
        BY <2>5, <3>4, <3>5
      <4>2. i \in 1..L
        <5>1. i # L + 1
          BY <2>1, <3>4, <4>1
        <5> QED  BY <3>3, <5>1
      <4>3. CASE j = L + 1
        BY <2>3, <4>2, <4>3
      <4>4. CASE j \in 1..L
        BY <2>5, <3>4, <4>2, <4>4
      <4> QED  BY <3>3, <4>3, <4>4
    <3>8. \A k \in 1..(n + 1) : s[k] \in T => \E i \in 1..(L + 1) : d[i] = k
      <4> SUFFICES ASSUME NEW k \in 1..(n + 1), s[k] \in T
                   PROVE  \E i \in 1..(L + 1) : d[i] = k
        OBVIOUS
      <4>1. CASE k = n + 1
        BY <3>3, <3>4, <4>1
      <4>2. CASE k \in 1..n
        <5>1. PICK i \in 1..L : e[i] = k
          BY <2>5, <4>2
        <5> QED  BY <3>3, <3>4, <5>1
      <4> QED  BY <2>6, <4>1, <4>2
    <3> HIDE DEF q
    <3>9. Places(long, n + 1, d)
      BY <3>2, <3>5, <3>6, <3>7, <3>8
    <3> HIDE DEF Places
    <3> QED  BY <2>1, <3>1, <3>9
  <2> QED  BY <2>7, <2>8
<1>5. P \in SUBSET (0..N)
  OBVIOUS
<1> HIDE DEF P
<1>6. N \in P
  BY <1>1, <1>3, <1>4, <1>5, UpTo
<1>7. PICK e : Places(f[N], N, e)
  BY <1>6 DEF P
<1> DEFINE sub == Stream!Sublist(s, T)
<1>8. Places(sub, N, e)
  BY <1>2, <1>7
<1> HIDE DEF sub
<1>9. /\ e \in [1..Len(sub) -> 1..N]
      /\ \A i \in 1..Len(sub) : sub[i] = s[e[i]]
      /\ \A i, j \in 1..Len(sub) : e[i] < e[j] => i < j
      /\ \A k \in 1..N : s[k] \in T => \E i \in 1..Len(sub) : e[i] = k
  BY <1>8
<1> QED  BY <1>9 DEF sub

\* Services!RequestsArePaired, of any list of messages.
Paired(messages) ==
    \A i \in 1..Len(messages) : \A c \in Stream!Range(messages[i].calls) :
        \E j \in 1..Len(messages) :
            /\ c \in Stream!Range(messages[j].calls)
            /\ IF messages[i].role = "tool" THEN j < i /\ messages[j].role = "assistant"
               ELSE i < j /\ messages[j].role = "tool"

\* What Reconciled keeps of a message.
KeptOf(m, completed) ==
    IF m.role = "tool" THEN m ELSE [m EXCEPT !.calls = Stream!Sublist(m.calls, completed)]
Keeps(messages, m) ==
    IF m.role = "tool" THEN Stream!Head(m.calls) \in Stream!CallsIn(messages, "assistant")
    ELSE m.text \/ Stream!Sublist(m.calls, Done(messages)) # <<>>

LEMMA KeptOfIs ==
  ASSUME NEW m \in Sent, NEW completed
  PROVE  /\ KeptOf(m, completed) \in Sent /\ KeptOf(m, completed).role = m.role
         /\ m.role = "tool" => KeptOf(m, completed).calls = m.calls
         /\ m.role # "tool" =>
                Stream!Range(KeptOf(m, completed).calls) = Stream!Range(m.calls) \cap completed
         /\ Stream!Range(m.calls) \cap completed # {} => Stream!Sublist(m.calls, completed) # <<>>
<1> DEFINE sub == Stream!Sublist(m.calls, completed)
<1>1. sub \in Seq(Named) /\ Stream!Range(sub) = Stream!Range(m.calls) \cap completed
  BY SublistIs DEF Sent
<1> HIDE DEF sub
<1>2. [m EXCEPT !.calls = sub] \in Sent
      /\ [m EXCEPT !.calls = sub].role = m.role /\ [m EXCEPT !.calls = sub].calls = sub
  BY <1>1 DEF Sent
<1>3. Stream!Range(m.calls) \cap completed # {} => sub # <<>>
  BY <1>1, NoIds
<1>4. KeptOf(m, completed) = IF m.role = "tool" THEN m ELSE [m EXCEPT !.calls = sub]
  BY DEF KeptOf, sub
<1>5. CASE m.role = "tool"
  BY <1>3, <1>4, <1>5 DEF sub
<1>6. CASE m.role # "tool"
  <2>1. KeptOf(m, completed) = [m EXCEPT !.calls = sub]
    BY <1>4, <1>6
  <2> QED  BY <1>1, <1>2, <1>3, <1>6, <2>1 DEF sub
<1> QED  BY <1>5, <1>6

\* Message by message: which are kept, and in their order.
LEMMA ReconciledIs ==
  ASSUME NEW messages \in Seq(Sent)
  PROVE  \E e \in [1..Len(Stream!Reconciled(messages)) -> 1..Len(messages)] :
             /\ Stream!Reconciled(messages) \in Seq(Sent)
             /\ \A i \in 1..Len(Stream!Reconciled(messages)) :
                    /\ Stream!Reconciled(messages)[i] = KeptOf(messages[e[i]], Done(messages))
                    /\ Keeps(messages, messages[e[i]])
             /\ \A i, j \in 1..Len(Stream!Reconciled(messages)) : e[i] < e[j] => i < j
             /\ \A k \in 1..Len(messages) : Keeps(messages, messages[k]) =>
                    \E i \in 1..Len(Stream!Reconciled(messages)) : e[i] = k
<1> DEFINE completed == Done(messages)
           T == {m \in Stream!Range(messages) : Keeps(messages, m)}
           kept == Stream!Sublist(messages, T)
           list == [i \in DOMAIN kept |-> KeptOf(kept[i], completed)]
<1>1. Stream!Reconciled(messages) = list
  BY DEF Stream!Reconciled, Keeps, KeptOf, Done
<1>2. /\ Len(messages) \in Nat /\ DOMAIN messages = 1..Len(messages)
      /\ \A k \in 1..Len(messages) : messages[k] \in Sent
  OBVIOUS
<1>3. \A k \in 1..Len(messages) : messages[k] \in T <=> Keeps(messages, messages[k])
  BY <1>2 DEF Stream!Range
<1>4. kept \in Seq(Sent) /\ Stream!Range(kept) \subseteq T
  <2> HIDE DEF T
  <2> QED  BY SublistIs
<1>5. PICK e \in [1..Len(kept) -> 1..Len(messages)] :
             /\ \A i \in 1..Len(kept) : kept[i] = messages[e[i]]
             /\ \A i, j \in 1..Len(kept) : e[i] < e[j] => i < j
             /\ \A k \in 1..Len(messages) : messages[k] \in T => \E i \in 1..Len(kept) : e[i] = k
  <2> HIDE DEF T
  <2>1. \E e \in [1..Len(kept) -> 1..Len(messages)] :
             /\ \A i \in 1..Len(kept) : kept[i] = messages[e[i]]
             /\ \A i, j \in 1..Len(kept) : e[i] < e[j] => i < j
             /\ \A k \in 1..Len(messages) : messages[k] \in T => \E i \in 1..Len(kept) : e[i] = k
    BY ONLY messages \in Seq(Sent), SublistOrder
  <2> HIDE DEF kept
  <2> QED  BY <2>1
<1> HIDE DEF T, kept
<1>6. Len(kept) \in Nat /\ DOMAIN kept = 1..Len(kept) /\ \A i \in 1..Len(kept) : kept[i] \in Sent
  BY <1>4
<1>7. \A i \in 1..Len(kept) : KeptOf(kept[i], completed) \in Sent
  BY <1>6, KeptOfIs
<1>8. /\ list \in Seq(Sent) /\ Len(list) = Len(kept)
      /\ \A i \in 1..Len(kept) : list[i] = KeptOf(kept[i], completed)
  <2> HIDE DEF completed
  <2> QED  BY <1>6, <1>7
<1>9. \A i \in 1..Len(kept) : kept[i] \in T
  BY <1>4, <1>6 DEF Stream!Range
<1> HIDE DEF list
<1>10. \A i \in 1..Len(list) : list[i] = KeptOf(messages[e[i]], completed)
                               /\ Keeps(messages, messages[e[i]])
  <2> SUFFICES ASSUME NEW i \in 1..Len(list)
               PROVE  list[i] = KeptOf(messages[e[i]], completed) /\ Keeps(messages, messages[e[i]])
    OBVIOUS
  <2>1. i \in 1..Len(kept) /\ kept[i] = messages[e[i]] /\ e[i] \in 1..Len(messages)
    BY <1>5, <1>8
  <2>2. messages[e[i]] \in T
    BY <1>9, <2>1
  <2> QED  BY <1>3, <1>8, <2>1, <2>2
<1>11. \A k \in 1..Len(messages) : Keeps(messages, messages[k]) => \E i \in 1..Len(list) : e[i] = k
  BY <1>3, <1>5, <1>8
<1>12. e \in [1..Len(list) -> 1..Len(messages)] /\ list \in Seq(Sent)
       /\ \A i, j \in 1..Len(list) : e[i] < e[j] => i < j
  BY <1>5, <1>8
<1>13. \E d \in [1..Len(list) -> 1..Len(messages)] :
         /\ list \in Seq(Sent)
         /\ \A i \in 1..Len(list) : /\ list[i] = KeptOf(messages[d[i]], completed)
                                    /\ Keeps(messages, messages[d[i]])
         /\ \A i, j \in 1..Len(list) : d[i] < d[j] => i < j
         /\ \A k \in 1..Len(messages) : Keeps(messages, messages[k]) =>
                \E i \in 1..Len(list) : d[i] = k
  BY <1>10, <1>11, <1>12
<1> QED  BY <1>1, <1>13

LEMMA ReconciledPaired ==
  ASSUME NEW messages, InOrder(messages)
  PROVE  Stream!Reconciled(messages) \in Seq(Sent) /\ Paired(Stream!Reconciled(messages))
<1> DEFINE list == Stream!Reconciled(messages)
           completed == Done(messages)
           requested == Stream!CallsIn(messages, "assistant")
<1>1. /\ messages \in Seq(Sent) /\ Len(messages) \in Nat
      /\ \A k \in 1..Len(messages) : /\ messages[k] \in Sent /\ Single(messages[k])
                                     /\ messages[k].role \in {"assistant", "tool"}
  <2>1. messages \in Seq(Sent)
    BY DEF InOrder
  <2>2. Len(messages) \in Nat /\ \A k \in 1..Len(messages) : messages[k] \in Sent
    BY <2>1
  <2> QED  BY <2>1, <2>2 DEF InOrder, Sent
<1>2. PICK e \in [1..Len(list) -> 1..Len(messages)] :
             /\ list \in Seq(Sent)
             /\ \A i \in 1..Len(list) : /\ list[i] = KeptOf(messages[e[i]], completed)
                                        /\ Keeps(messages, messages[e[i]])
             /\ \A i, j \in 1..Len(list) : e[i] < e[j] => i < j
             /\ \A k \in 1..Len(messages) : Keeps(messages, messages[k]) =>
                    \E i \in 1..Len(list) : e[i] = k
  BY <1>1, ReconciledIs
<1>3. \A i \in 1..Len(list) :
        /\ e[i] \in 1..Len(messages) /\ list[i].role = messages[e[i]].role
        /\ Stream!Range(list[i].calls) =
               IF messages[e[i]].role = "tool" THEN Stream!Range(messages[e[i]].calls)
               ELSE Stream!Range(messages[e[i]].calls) \cap completed
  <2> HIDE DEF list, completed
  <2> SUFFICES ASSUME NEW i \in 1..Len(list)
               PROVE  /\ e[i] \in 1..Len(messages) /\ list[i].role = messages[e[i]].role
                      /\ Stream!Range(list[i].calls) =
                             IF messages[e[i]].role = "tool"
                             THEN Stream!Range(messages[e[i]].calls)
                             ELSE Stream!Range(messages[e[i]].calls) \cap completed
    OBVIOUS
  <2> DEFINE m == messages[e[i]]
  <2>1. e[i] \in 1..Len(messages) /\ m \in Sent /\ list[i] = KeptOf(m, completed)
    BY <1>1, <1>2
  <2> HIDE DEF m
  <2>2. /\ KeptOf(m, completed).role = m.role
        /\ m.role = "tool" => KeptOf(m, completed).calls = m.calls
        /\ m.role # "tool" =>
               Stream!Range(KeptOf(m, completed).calls) = Stream!Range(m.calls) \cap completed
    BY <2>1, KeptOfIs
  <2>3. CASE m.role = "tool"
    BY <2>1, <2>2, <2>3 DEF m
  <2>4. CASE m.role # "tool"
    BY <2>1, <2>2, <2>4 DEF m
  <2> QED  BY <2>3, <2>4
<1>4. requested = UNION {Stream!Range(messages[i].calls) :
                         i \in {j \in 1..Len(messages) : messages[j].role = "assistant"}}
  BY <1>1, CallsInIs
<1>5. completed = UNION {Stream!Range(messages[i].calls) :
                         i \in {j \in 1..Len(messages) : messages[j].role = "tool"}}
  BY <1>1, CallsInIs DEF Done
<1>6. \A k \in 1..Len(messages) : Keeps(messages, messages[k]) <=>
        IF messages[k].role = "tool" THEN Stream!Head(messages[k].calls) \in requested
        ELSE messages[k].text \/ Stream!Sublist(messages[k].calls, completed) # <<>>
  BY DEF Keeps
<1>7. Before(messages)
  BY DEF InOrder
<1> HIDE DEF list, completed, requested
<1> SUFFICES ASSUME NEW i \in 1..Len(list), NEW c \in Stream!Range(list[i].calls)
             PROVE  \E j \in 1..Len(list) :
                      /\ c \in Stream!Range(list[j].calls)
                      /\ IF list[i].role = "tool" THEN j < i /\ list[j].role = "assistant"
                         ELSE i < j /\ list[j].role = "tool"
  BY <1>2 DEF Paired, list
<1> DEFINE k == e[i]
<1>8. k \in 1..Len(messages) /\ c \in Stream!Range(messages[k].calls)
      /\ list[i].role = messages[k].role
  BY <1>3
<1>9. CASE list[i].role = "tool"
  <2>1. messages[k].role = "tool" /\ Keeps(messages, messages[k])
    BY <1>2, <1>8, <1>9
  <2>2. Stream!Head(messages[k].calls) \in requested
    BY <1>6, <1>8, <2>1
  <2>3. Stream!Range(messages[k].calls) = {Stream!Head(messages[k].calls)}
    BY <1>1, <1>8, <2>1 DEF Single
  <2>4. c \in requested /\ c \in completed
    BY <1>5, <1>8, <2>1, <2>2, <2>3
  <2>5. PICK h \in 1..Len(messages) : /\ messages[h].role = "assistant"
                                      /\ c \in Stream!Range(messages[h].calls)
    BY <1>4, <2>4
  <2>6. Stream!Sublist(messages[h].calls, completed) # <<>>
    BY <1>1, <2>4, <2>5, KeptOfIs
  <2>7. PICK j \in 1..Len(list) : e[j] = h
    BY <1>2, <1>6, <2>5, <2>6
  <2>8. h < k
    BY <1>7, <1>8, <2>1, <2>5 DEF Before
  <2>9. j < i
    BY <1>2, <2>7, <2>8
  <2>10. c \in Stream!Range(list[j].calls) /\ list[j].role = "assistant"
    BY <1>3, <2>4, <2>5, <2>7
  <2> QED  BY <1>9, <2>9, <2>10
<1>10. CASE list[i].role # "tool"
  <2>1. messages[k].role = "assistant" /\ c \in completed
    BY <1>1, <1>3, <1>8, <1>10
  <2>2. PICK h \in 1..Len(messages) : /\ messages[h].role = "tool"
                                      /\ c \in Stream!Range(messages[h].calls)
    BY <1>5, <2>1
  <2>3. Stream!Range(messages[h].calls) = {Stream!Head(messages[h].calls)}
    BY <1>1, <2>2 DEF Single
  <2>4. Stream!Head(messages[h].calls) \in requested
    BY <1>4, <1>8, <2>1, <2>2, <2>3
  <2>5. PICK j \in 1..Len(list) : e[j] = h
    BY <1>2, <1>6, <2>2, <2>4
  <2>6. k < h
    BY <1>7, <1>8, <2>1, <2>2 DEF Before
  <2>7. i < j
    BY <1>2, <2>5, <2>6
  <2>8. c \in Stream!Range(list[j].calls) /\ list[j].role = "tool"
    BY <1>3, <2>2, <2>5
  <2> QED  BY <1>10, <2>7, <2>8
<1> QED  BY <1>9, <1>10

\* The messages of an ordered list of items.
LEMMA MessagesPaired ==
  ASSUME NEW out \in Seq(Items), Ordered(out)
  PROVE  Stream!Messages(out) \in Seq(Sent) /\ Paired(Stream!Messages(out))
  BY ConversionIs, ReconciledPaired DEF Stream!Messages

LEMMA PairedJoined ==
  ASSUME NEW a \in Seq(Sent), NEW b \in Seq(Sent), Paired(a), Paired(b)
  PROVE  a \o b \in Seq(Sent) /\ Paired(a \o b)
<1> DEFINE ab == a \o b
<1>1. /\ ab \in Seq(Sent) /\ Len(a) \in Nat /\ Len(b) \in Nat /\ Len(ab) = Len(a) + Len(b)
      /\ \A i \in 1..Len(a) : ab[i] = a[i] /\ i \in 1..Len(ab)
      /\ \A i \in 1..Len(b) : ab[Len(a) + i] = b[i] /\ Len(a) + i \in 1..Len(ab)
      /\ \A i \in Len(a) + 1..Len(ab) : i - Len(a) \in 1..Len(b) /\ i = Len(a) + (i - Len(a))
  OBVIOUS
<1> HIDE DEF ab
<1> SUFFICES ASSUME NEW i \in 1..Len(ab), NEW c \in Stream!Range(ab[i].calls)
             PROVE  \E j \in 1..Len(ab) :
                      /\ c \in Stream!Range(ab[j].calls)
                      /\ IF ab[i].role = "tool" THEN j < i /\ ab[j].role = "assistant"
                         ELSE i < j /\ ab[j].role = "tool"
  BY <1>1 DEF Paired, ab
<1>2. CASE i \in 1..Len(a)
  <2>1. c \in Stream!Range(a[i].calls) /\ ab[i] = a[i]
    BY <1>1, <1>2
  <2>2. PICK j \in 1..Len(a) :
          /\ c \in Stream!Range(a[j].calls)
          /\ IF a[i].role = "tool" THEN j < i /\ a[j].role = "assistant"
             ELSE i < j /\ a[j].role = "tool"
    BY <1>2, <2>1 DEF Paired
  <2>3. ab[j] = a[j] /\ j \in 1..Len(ab)
    BY <1>1
  <2> QED  BY <2>1, <2>2, <2>3
<1>3. CASE i \in Len(a) + 1..Len(ab)
  <2> DEFINE k == i - Len(a)
  <2>1. k \in 1..Len(b) /\ i = Len(a) + k /\ ab[i] = b[k]
    BY <1>1, <1>3
  <2> HIDE DEF k
  <2>2. PICK h \in 1..Len(b) :
          /\ c \in Stream!Range(b[h].calls)
          /\ IF b[k].role = "tool" THEN h < k /\ b[h].role = "assistant"
             ELSE k < h /\ b[h].role = "tool"
    BY <2>1 DEF Paired
  <2> DEFINE j == Len(a) + h
  <2>3. ab[j] = b[h] /\ j \in 1..Len(ab) /\ (h < k => j < i) /\ (k < h => i < j)
    BY <1>1, <2>1
  <2> HIDE DEF j
  <2> QED  BY <2>1, <2>2, <2>3
<1> QED  BY <1>1, <1>2, <1>3
-----------------------------------------------------------------------------
\* Why the requests are paired.  A call reaches a list before its result does, or
\* later only in a list of its own: new calls have no results yet, and a turn adds
\* to the output those calls that it lacks.
OrderInv ==
    /\ Ordered(output) /\ Ordered(prior) /\ Ordered(row.output)
    /\ base \in Seq(Sent) /\ Paired(base) /\ sent \in Seq(Sent) /\ Paired(sent)
    /\ Requested(output) \cap Results(prior) = {}
    /\ streamPc \in {"first", "loop", "tools", "ask"} => prior = <<>>
    /\ streamPc \in Stream!Streaming =>
           /\ Results(items) = {} /\ Requested(items) \cap Results(prior) = {}
           /\ Stream!Range(streamed) \cap (Results(output) \cup Results(prior)) = {}
    /\ streamPc = "loop" =>
           \A i \in 1..Len(queue) :
               (Stream!Range(queue[i]) \ Requested(output)) \cap Results(output) = {}

LEMMA NoMessages == Ordered(<<>>) /\ <<>> \in Seq(Sent) /\ Paired(<<>>)
  BY DEF Ordered, Paired

LEMMA InitOrder == Stream!Init => OrderInv
<1> SUFFICES ASSUME Stream!Init PROVE OrderInv
  OBVIOUS
<1>1. /\ output = <<>> /\ prior = <<>> /\ items = <<>> /\ streamed = <<>> /\ queue = <<>>
      /\ base = <<>> /\ sent = <<>> /\ row.output = <<>> /\ streamPc = "first"
  BY DEF Stream!Init
<1> QED  BY <1>1, NoIds, NoMessages DEF OrderInv, Requested, Results

\* What stands at the end of a stream.
LEMMA FinalOrder ==
  ASSUME StreamType, OrderInv, streamPc \in Stream!Streaming, NEW out \in Seq(Items), Final(out)
  PROVE  /\ Ordered(Stream!Cleaned(out))
         /\ Requested(Stream!Cleaned(out)) \cap Results(prior) = {}
         /\ Results(Stream!Cleaned(out)) \subseteq Results(output)
<1>1. output \in Seq(Items) /\ items \in Seq(Items)
  BY DEF StreamType
<1>2. \A a \in Seq(Items) : Ordered(a) => Ordered(Stream!Cleaned(a))
  BY CleanedIs, OrderedPrefix
<1>3. /\ Requested(Stream!Cleaned(out)) = Requested(out)
      /\ Results(Stream!Cleaned(out)) = Results(out)
  BY CleanedIs DEF Marks, Requested, Results
<1>4. CASE api = "responses" /\ out = items
  <2>1. Ordered(items)
    BY <1>1, OrderedAnyway DEF OrderInv
  <2> QED  BY <1>2, <1>3, <1>4, <2>1 DEF OrderInv
<1>5. CASE out \in {output, Append(Stream!Cleaned(output), Stream!Code)}
           /\ \A t \in Marks : Stream!Ids(t, out) = Stream!Ids(t, output)
  <2>1. Ordered(output) /\ Ordered(Stream!Cleaned(output)) /\ Stream!Cleaned(output) \in Seq(Items)
    BY <1>1, <1>2, CleanedIs DEF OrderInv
  <2>2. Ordered(Append(Stream!Cleaned(output), Stream!Code))
    BY <2>1, OrderedBlank
  <2>3. Ordered(out)
    BY <1>5, <2>1, <2>2
  <2>4. Requested(out) = Requested(output) /\ Results(out) = Results(output)
    BY <1>5 DEF Marks, Requested, Results
  <2> QED  BY <1>2, <1>3, <2>3, <2>4 DEF OrderInv
<1> QED  BY <1>4, <1>5 DEF Final

LEMMA NextOrder ==
  ASSUME StreamType, Queued, Known, OrderInv, [Stream!Next]_(Stream!vars)
  PROVE  OrderInv'
<1> USE DEF Stream!config, Stream!loop, Stream!asked, Stream!history
<1>0. Stream!Streaming = {"first", "again", "coding"}
  BY DEF Stream!Streaming
<1>a. /\ output \in Seq(Items) /\ prior \in Seq(Items) /\ items \in Seq(Items)
      /\ row.output \in Seq(Items) /\ turn \in Seq(Stream!Calls)
      /\ streamed \in Seq(Stream!Calls) /\ calls \in Nat
  BY DEF StreamType
<1>b. Requested(<<>>) = {} /\ Results(<<>>) = {} /\ Stream!Range(<<>>) = {}
  BY NoIds DEF Requested, Results
<1>c. \A out : Within(out, calls) => calls + 1 \notin Requested(out) \cup Results(out)
  <2>1. calls + 1 \notin 1..calls
    BY <1>a
  <2> QED  BY <2>1 DEF Within, Marks, Requested, Results
<1>1. CASE Stream!StreamText
  <2> DEFINE w == Stream!WithText(output)
  <2>1. w \in Seq(Items) /\ Requested(w) = Requested(output) /\ Results(w) = Results(output)
    BY <1>a, WithTextIs DEF Marks, Requested, Results
  <2>2. Ordered(w)
    BY <1>a, OrderedText DEF OrderInv
  <2>3. /\ output' = w /\ (row' = row \/ row' = [row EXCEPT !.output = prior \o w])
        /\ streamPc \in Stream!Streaming
        /\ UNCHANGED <<streamPc, prior, items, streamed, queue, base, sent>>
    BY <1>1 DEF Stream!StreamText
  <2> HIDE DEF w
  <2>4. Ordered(prior \o w)
    BY <1>a, <2>1, <2>2, OrderedJoined DEF OrderInv
  <2>5. Ordered(row'.output)
    BY <2>3, <2>4 DEF OrderInv, StreamType
  <2>6. streamPc' # "loop"
    BY <1>0, <2>3
  <2> QED  BY <2>1, <2>2, <2>3, <2>5, <2>6 DEF OrderInv
<1>2. CASE Stream!StreamCall
  <2>1. /\ streamed' = Append(streamed, calls + 1) /\ calls < MaxCalls
        /\ streamPc \in Stream!Streaming
        /\ UNCHANGED <<streamPc, output, prior, items, row, queue, base, sent>>
    BY <1>2 DEF Stream!StreamCall
  <2>2. calls + 1 \in Stream!Calls
    BY <1>a, <2>1, StreamAssumption DEF Stream!Calls
  <2>3. Stream!Range(streamed') = Stream!Range(streamed) \cup {calls + 1}
    BY <1>a, <2>1, <2>2, AddedAtEnd
  <2>4. calls + 1 \notin Results(output) \cup Results(prior)
    BY <1>c DEF Known
  <2>5. streamPc' # "loop"
    BY <1>0, <2>1
  <2> QED  BY <2>1, <2>3, <2>4, <2>5 DEF OrderInv
<1>3. ASSUME NEW item, Stream!StreamItem(item) PROVE OrderInv'
  <2>1. /\ streamPc \in Stream!Streaming
        /\ UNCHANGED <<streamPc, prior, row, streamed, queue, base, sent>>
    BY <1>3 DEF Stream!StreamItem
  <2>2. /\ item \in Items /\ item.type # "result"
        /\ item.type = "call" => item.id = calls + 1
        /\ Stream!Blank.type \notin Marks
    BY <1>3, ItemAdded, ItemShape DEF Marks
  <2>3. /\ output' \in Seq(Items)
        /\ \A i \in 1..Len(output') : output'[i] \in {Stream!Blank, item}
                                      \/ (i \in 1..Len(output) /\ output'[i] = output[i])
    <3>1. /\ output' \in Seq(Items)
          /\ \A i \in 1..Len(output') : output'[i] \in {Stream!Blank, item}
                                        \/ (i <= Len(output) /\ output'[i] = output[i])
      BY <1>3, ItemAdded
    <3>2. Len(output) \in Nat /\ Len(output') \in Nat
      BY <1>a, <3>1
    <3> QED  BY <3>1, <3>2
  <2>4. \A j \in 1..Len(output') : output'[j].type = "result" =>
            j \in 1..Len(output) /\ output'[j] = output[j]
    BY <2>2, <2>3 DEF Marks
  <2>5. \A i \in 1..Len(output') : output'[i].type = "call" =>
            output'[i].id = calls + 1 \/ (i \in 1..Len(output) /\ output'[i] = output[i])
    BY <2>2, <2>3 DEF Marks
  <2>a. /\ Results(output') = {output'[j].id : j \in {i \in 1..Len(output') : output'[i].type = "result"}}
        /\ Requested(output') = {output'[j].id : j \in {i \in 1..Len(output') : output'[i].type = "call"}}
    BY <2>3, IdsOf DEF Results, Requested
  <2>b. /\ Results(output) = {output[j].id : j \in {i \in 1..Len(output) : output[i].type = "result"}}
        /\ Requested(output) = {output[j].id : j \in {i \in 1..Len(output) : output[i].type = "call"}}
    BY <1>a, IdsOf DEF Results, Requested
  <2>6. Results(output') \subseteq Results(output)
    BY <2>4, <2>a, <2>b
  <2>7. Requested(output') \subseteq Requested(output) \cup {calls + 1}
    BY <2>5, <2>a, <2>b
  <2>8. calls + 1 \notin Results(output) \cup Results(prior)
    BY <1>c DEF Known
  <2>9. Ordered(output')
    <3> SUFFICES ASSUME NEW i \in 1..Len(output'), NEW j \in 1..Len(output'),
                        output'[i].type = "call", output'[j].type = "result",
                        output'[i].id = output'[j].id
                 PROVE  i < j
      BY DEF Ordered
    <3>1. j \in 1..Len(output) /\ output'[j] = output[j]
      BY <2>4
    <3>2. output[j].id \in Results(output)
      BY <1>a, <3>1, IdsOf DEF Results
    <3>3. i \in 1..Len(output) /\ output'[i] = output[i]
      BY <2>5, <2>8, <3>1, <3>2
    <3> QED  BY <3>1, <3>3 DEF OrderInv, Ordered
  <2>10. Results(items') = {} /\ Requested(items') \subseteq Requested(items) \cup {calls + 1}
    <3>1. items' = Append(items, item)
      BY <1>3, ItemAdded
    <3>2. \A t : Stream!Ids(t, Append(items, item)) =
                     Stream!Ids(t, items) \cup IF item.type = t THEN {item.id} ELSE {}
      BY <1>a, <2>2, IdsAppended
    <3> QED  BY <2>1, <2>2, <3>1, <3>2 DEF OrderInv, Requested, Results
  <2>11. streamPc' # "loop"
    BY <1>0, <2>1
  <2> QED  BY <2>1, <2>6, <2>7, <2>8, <2>9, <2>10, <2>11 DEF OrderInv
<1>4. CASE Stream!EndStream \/ Stream!EndStreamWithCode
  <2>1. PICK out \in Seq(Items) : Final(out) /\ Ends(out)
    BY <1>4, StreamEnding
  <2>2. streamPc \in {"first", "again", "coding"}
    BY <1>0, <1>4, StreamEnding
  <2> DEFINE last == Stream!Cleaned(out)
             e == EndCalls(out)
  <2>3. /\ last \in Seq(Items) /\ Ordered(last) /\ Requested(last) \cap Results(prior) = {}
        /\ Results(last) \subseteq Results(output)
    BY <1>0, <2>1, <2>2, CleanedIs, FinalOrder
  <2>4. /\ output' = IF streamPc = "again" THEN prior \o last ELSE last
        /\ prior' = IF streamPc = "again" THEN <<>> ELSE prior
        /\ streamPc' = IF streamPc = "coding" THEN "code" ELSE "loop"
        /\ UNCHANGED <<items, row, streamed, base, sent>>
    BY <2>1 DEF Ends
  <2>5. e = streamed \/ Stream!Range(e) \subseteq Requested(last)
    BY <2>1, EndLists DEF Requested
  <2>6. streamPc' = "loop" => \A i \in 1..Len(queue') : queue'[i] = e
    BY <1>0, <2>1, <2>2, EndQueue
  <2> HIDE DEF last, e
  <2>7. /\ prior \o last \in Seq(Items) /\ Ordered(prior \o last)
        /\ Results(prior \o last) = Results(prior) \cup Results(last)
        /\ Requested(prior \o last) = Requested(prior) \cup Requested(last)
    BY <1>a, <2>3, OrderedJoined, IdsJoined DEF OrderInv, Requested, Results
  <2>8. Ordered(output') /\ Ordered(prior')
    BY <2>3, <2>4, <2>7, NoMessages DEF OrderInv
  <2>9. Requested(output') \cap Results(prior') = {}
    BY <1>b, <2>3, <2>4
  <2>10. streamPc' = "loop" =>
           /\ prior' = <<>>
           /\ \A i \in 1..Len(queue') :
                  (Stream!Range(queue'[i]) \ Requested(output')) \cap Results(output') = {}
    <3> SUFFICES ASSUME streamPc' = "loop"
                 PROVE  prior' = <<>> /\ (Stream!Range(e) \ Requested(output')) \cap Results(output') = {}
      BY <2>6
    <3>1. streamPc # "coding"
      BY <2>4
    <3>2. prior' = <<>>
      BY <2>2, <2>4, <3>1 DEF OrderInv
    <3>3. /\ Requested(last) \subseteq Requested(output')
          /\ Results(output') \subseteq Results(output) \cup Results(prior)
      BY <2>3, <2>4, <2>7
    <3>4. Stream!Range(streamed) \cap (Results(output) \cup Results(prior)) = {}
      BY <1>0, <2>2 DEF OrderInv
    <3> QED  BY <2>5, <3>2, <3>3, <3>4
  <2>11. streamPc' \in {"loop", "code"}
    BY <2>4
  <2> QED  BY <1>0, <2>4, <2>8, <2>9, <2>10, <2>11 DEF OrderInv
<1>5. CASE Stream!StreamRaises \/ Stream!AskFails \/ Stream!LeaveLoop
  <2>1. /\ UNCHANGED <<output, prior, items, streamed, base, sent>>
        /\ row'.output = row.output
    BY <1>5 DEF Stream!StreamRaises, Stream!AskFails, Stream!LeaveLoop, StreamType
  <2>2. streamPc' \in {"ended", "code", "finish"}
    BY <1>0, <1>5 DEF Stream!StreamRaises, Stream!AskFails, Stream!LeaveLoop
  <2> QED  BY <1>0, <2>1, <2>2 DEF OrderInv
<1>6. CASE Stream!RunTool
  <2>1. UNCHANGED <<output, prior, items, streamed, queue, row, base, sent, streamPc>>
    BY <1>6 DEF Stream!RunTool
  <2> QED  BY <2>1 DEF OrderInv
<1>7. CASE Stream!BeginTurn
  <2> DEFINE added == Stream!Sublist(turn', Stream!Calls \ Stream!Ids("call", output))
             m == [i \in DOMAIN added |-> Stream!Call(added[i])]
  <2>1. /\ output' = output \o m /\ streamPc = "loop" /\ streamPc' = "tools"
        /\ UNCHANGED <<prior, items, streamed, row, base, sent>>
    BY <1>7 DEF Stream!BeginTurn
  <2>2. turn' \in Seq(Stream!Calls) /\ 1 \in 1..Len(queue) /\ turn' = queue[1]
    BY <1>7, Taken
  <2>3. /\ added \in Seq(Stream!Calls)
        /\ Stream!Range(added) \subseteq Stream!Range(turn') \ Requested(output)
    BY <2>2, SublistIs DEF Requested
  <2> HIDE DEF added
  <2>4. m \in Seq(Items) /\ Requested(m) = Stream!Range(added) /\ Results(m) = {}
    BY <2>3, CallItems DEF Requested, Results
  <2> HIDE DEF m
  <2>5. Requested(m) \cap Results(output) = {}
    BY <2>1, <2>2, <2>3, <2>4 DEF OrderInv
  <2>6. Ordered(m)
    BY <2>4, OrderedAnyway
  <2>7. Ordered(output \o m)
    BY <1>a, <2>4, <2>5, <2>6, OrderedJoined DEF OrderInv
  <2>8. prior = <<>>
    BY <2>1 DEF OrderInv
  <2> QED  BY <1>0, <1>b, <2>1, <2>7, <2>8 DEF OrderInv
<1>8. CASE Stream!Record
  <2> DEFINE m == [i \in DOMAIN turn |-> Stream!Result(turn[i])]
             long == output \o m
  <2>1. /\ output' = long \o <<Stream!Blank>> /\ streamPc = "tools" /\ streamPc' = "ask"
        /\ UNCHANGED <<prior, items, streamed, row, base, sent>>
    BY <1>8 DEF Stream!Record
  <2>2. m \in Seq(Items) /\ Requested(m) = {}
    BY <1>a, ResultItems DEF Requested
  <2> HIDE DEF m
  <2>3. Ordered(m)
    BY <2>2, OrderedAnyway
  <2>4. long \in Seq(Items) /\ Ordered(long)
    BY <1>a, <2>2, <2>3, OrderedJoined DEF OrderInv
  <2> HIDE DEF long
  <2>5. output' = Append(long, Stream!Blank)
    BY <2>1, <2>4, ItemShape
  <2>6. Ordered(output')
    BY <2>4, <2>5, OrderedBlank
  <2>7. prior = <<>>
    BY <2>1 DEF OrderInv
  <2> QED  BY <1>0, <1>b, <2>1, <2>6, <2>7 DEF OrderInv
<1>d. base \o Stream!Messages(output) \in Seq(Sent) /\ Paired(base \o Stream!Messages(output))
  <2>1. Stream!Messages(output) \in Seq(Sent) /\ Paired(Stream!Messages(output))
    BY <1>a, MessagesPaired DEF OrderInv
  <2> QED  BY <2>1, PairedJoined DEF OrderInv
<1>9. CASE Stream!AskAgain
  <2>1. /\ prior' = IF Stream!Last(output).type = "blank" THEN Stream!Front(output) ELSE output
        /\ output' = <<>> /\ items' = <<>> /\ streamed' = <<>> /\ streamPc' = "again"
        /\ sent' = base \o Stream!Messages(output) /\ UNCHANGED <<base, row>>
    BY <1>9 DEF Stream!AskAgain, Stream!Ask
  <2>2. Ordered(prior')
    <3>1. CASE output = <<>>
      <4>1. Stream!Front(output) = <<>>
        BY <3>1 DEF Stream!Front
      <4> QED  BY <2>1, <3>1, <4>1, NoMessages
    <3>2. CASE output # <<>> /\ Stream!Last(output).type = "blank"
      <4> DEFINE f == Stream!Front(output)
      <4>1. /\ f \in Seq(Items) /\ Len(f) = Len(output) - 1
            /\ \A i \in 1..Len(output) - 1 : f[i] = output[i]
        BY <1>a, <3>2, FrontIs
      <4> HIDE DEF f
      <4>2. Len(f) <= Len(output) /\ \A i \in 1..Len(f) : f[i] = output[i]
        BY <1>a, <4>1
      <4>3. Ordered(f)
        BY <1>a, <4>1, <4>2, OrderedPrefix DEF OrderInv
      <4> QED  BY <2>1, <3>2, <4>3 DEF f
    <3>3. CASE Stream!Last(output).type # "blank"
      BY <2>1, <3>3 DEF OrderInv
    <3> QED  BY <3>1, <3>2, <3>3
  <2> QED  BY <1>b, <1>d, <2>1, <2>2, NoMessages DEF OrderInv
<1>10. CASE Stream!AskCode
  <2>1. /\ items' = <<>> /\ streamed' = <<>> /\ streamPc' = "coding"
        /\ sent' = base \o Stream!Messages(output) /\ UNCHANGED <<base, row, output, prior>>
    BY <1>10 DEF Stream!AskCode, Stream!Ask
  <2> QED  BY <1>b, <1>d, <2>1 DEF OrderInv
<1>11. CASE Stream!RunCode
  <2>1. /\ output' = Append(output, Stream!Blank) /\ streamPc' = "askCode"
        /\ UNCHANGED <<prior, items, streamed, row, base, sent>>
    BY <1>11 DEF Stream!RunCode
  <2>2. Ordered(output') /\ Requested(output') = Requested(output)
    BY <1>a, <2>1, OrderedBlank, BlankAdded DEF OrderInv, Requested, Marks
  <2> QED  BY <1>0, <2>1, <2>2 DEF OrderInv
<1>12. CASE Stream!Finish \/ Stream!Cancel
  <2>1. /\ UNCHANGED <<output, prior, base, sent>> /\ streamPc' = "ended"
        /\ row' = Stream!Stored
    BY <1>12 DEF Stream!Finish, Stream!Cancel
  <2>2. row'.output = row.output \/ row'.output = output
    BY <2>1 DEF Stream!Stored, StreamType
  <2> QED  BY <1>0, <2>1, <2>2 DEF OrderInv
<1>13. CASE Stream!Continue
  <2>1. /\ output' = row.output /\ prior' = <<>> /\ items' = <<>> /\ streamed' = <<>>
        /\ row'.output = row.output /\ streamPc' = "first"
        /\ base' = Stream!Messages(row.output) /\ sent' = base'
    BY <1>13 DEF Stream!Continue, StreamType
  <2>2. base' \in Seq(Sent) /\ Paired(base')
    BY <1>a, <2>1, MessagesPaired DEF OrderInv
  <2> QED  BY <1>b, <2>1, <2>2, NoMessages DEF OrderInv
<1>14. CASE UNCHANGED Stream!vars
  BY <1>14 DEF Stream!vars, OrderInv
<1> QED  BY <1>1, <1>2, <1>3, <1>4, <1>5, <1>6, <1>7, <1>8, <1>9, <1>10, <1>11, <1>12, <1>13, <1>14
         DEF Stream!Next
-----------------------------------------------------------------------------
LEMMA StreamInvariants == Spec => [](StreamType /\ RunInv /\ KeptInv /\ OrderInv)
<1> DEFINE Inv == StreamType /\ Queued /\ Known /\ RunInv /\ KeptInv /\ OrderInv
<1>1. Init => Inv
  BY ServicesInit, InitStreamType, InitQueued, InitKnown, InitRunInv, InitKeptInv, InitOrder
<1>2. Inv /\ [Next]_vars => Inv'
  BY ServicesStep, NextStreamType, NextQueued, NextKnown, NextRunInv, NextKeptInv, NextOrder
<1> QED  BY <1>1, <1>2, PTL DEF Spec

\* "so we don't re-process tool calls from a previous turn": whatever is cut off,
\* fails or is continued, a tool is run twice for one call only if the handler was
\* cancelled while the tools of its turn ran.
THEOREM CallsRunOnce == Spec => []RunsOnce
<1>1. StreamType /\ RunInv => RunsOnce
  <2> SUFFICES ASSUME StreamType, RunInv, "tools" \notin cuts
               PROVE  \A c \in Stream!Calls : ~(ran[c] > 1)
    BY DEF RunsOnce, Stream!RunsOnce
  <2> QED  BY DEF RunInv, StreamType
<1> QED  BY <1>1, StreamInvariants, PTL

\* When the handler has ended, however it ended, the stored message has the result
\* of every call that was run and recorded, but where the model was cut off while
\* it answered to them, where saving in real time left the storing of the rest to
\* others, or where the Responses API replaced a continued response.
THEOREM ResultsAreKept == Spec => []KeptUnlessCut
<1>1. KeptInv => KeptUnlessCut
  BY DEF KeptUnlessCut, Stream!KeptUnlessCut, Stream!Kept, KeptInv, Calm, Held, Results
<1> QED  BY <1>1, StreamInvariants, PTL

\* "Strict providers reject either direction of mismatch": in every request that a
\* provider gets, each call has its result further down and each result its call
\* further up, however many calls there are and whatever was cut off, failed, was
\* repeated or continued before: what is stored may lack results, but never has one
\* before its call, and reconcile_tool_pairs drops no more than what has no partner.
THEOREM PairsAreSent == Spec => []RequestsArePaired
<1>1. OrderInv => RequestsArePaired
  <2> SUFFICES ASSUME OrderInv PROVE Stream!RequestsArePaired
    BY DEF RequestsArePaired
  <2>1. DOMAIN sent = 1..Len(sent) /\ Paired(sent)
    BY DEF OrderInv
  <2> QED  BY <2>1 DEF Stream!RequestsArePaired, Paired
<1> QED  BY <1>1, StreamInvariants, PTL
=============================================================================
