------------------------ MODULE KnowledgeIndexProof -------------------------
(***************************************************************************)
(* What the files of a knowledge base (KnowledgeIndex) promise, for any    *)
(* number of files, contents and requests.                                 *)
(***************************************************************************)
EXTENDS Documents, YdocDocumentProof

Requests == Base!Requests
Texts == Contents \cup {Blank}
\* What is cut into chunks: texts, or no text at all.
Chunks == (SUBSET Contents) \cup {{Blank}}
Entries == [of : Files, by : 0..MaxRequests, text : Contents, hash : Texts]

Resting == [kind : Base!AllKinds \cup {"none"}, pc : {"idle"}]
Steps == {"read", "dropOwn", "own", "write", "check", "insert", "status", "hash", "link",
          "batchInsert", "batchRow", "list", "olds", "sweep", "clear", "unlink", "dropFile",
          "dropHash", "discardOwn", "deleteRow", "dropRest", "dropIndex", "unlinkAll", "pick"}
Serving == [kind : Base!AllKinds, pc : Steps, file : Files, in : {"own", "kb"}, text : Texts,
            docs : Chunks, hash : Texts, ok : BOOLEAN, olds : SUBSET Entries,
            left : SUBSET Files]

Rows == {Base!Unborn, Base!Gone} \cup
    {Base!Row(c, h, s) : c \in Texts, h \in Texts, s \in {"pending", "completed", "failed"}}

KnowledgeType ==
    /\ row \in [Files -> Rows] /\ linked \subseteq Files /\ own \in [Files -> SUBSET Contents]
    /\ vectors \subseteq Entries
    /\ req \in [Requests -> Resting \cup Serving]
    /\ calm \in BOOLEAN /\ faults \in 0..MaxFaults

\* Which requests come to which steps, and with what.
Path(t) ==
    /\ t.pc \in {"dropOwn", "own", "write", "check", "insert"} => t.docs # {}
    /\ t.pc = "insert" => Blank \notin t.docs
    /\ t.pc \in {"batchInsert", "batchRow"} => t.kind = "batch"
    /\ t.pc \in {"list", "olds", "sweep"} => t.kind \in Base!Edits
    /\ t.pc \in {"list", "olds"} => t.in = "own"
    /\ t.pc = "sweep" => t.in = "kb" /\ t.ok
    /\ t.pc \in {"clear", "dropFile", "dropHash", "dropIndex", "pick"} => t.kind \in Base!Removing
    /\ t.pc \in {"unlink", "dropFile", "dropHash"} => t.kind \in {"remove", "discard", "delete"}
    /\ t.pc # "idle" => t.kind # "none"
    /\ t.pc # "idle" /\ t.kind \in Base!Edits => \A e \in t.olds : e.of = t.file

\* An update of the content has added its entries, or has not done so yet.
Added(t) ==
    /\ t.kind \in Base!Edits /\ t.pc \in {"status", "hash", "sweep"}
    /\ t.in = "kb" /\ t.ok
NotYet(t) ==
    \/ t.kind = "none"
    \/ /\ t.kind \in Base!Edits /\ t.pc # "idle"
       /\ t.in = "own" \/ t.pc \in {"read", "dropOwn", "own", "write", "check", "insert"}

Paths == \A r \in Requests : Path(req[r])

\* Nobody has seen the entries of an update that has not added them.
Fresh ==
    \A r \in Requests : NotYet(req[r]) =>
        /\ \A e \in vectors : e.by # r
        /\ \A q \in Requests : req[q].pc # "idle" => \A e \in req[q].olds : e.by # r

\* A file has an entry that no update sweeps: the one that was added last.
Lasting ==
    (\A r \in Requests : req[r].kind \notin Base!Removing) =>
        \A f \in Listed : \E e \in vectors :
            e.of = f /\ \A q \in Requests : Added(req[q]) => e \notin req[q].olds

KnowledgeInv == KnowledgeType /\ Paths /\ Fresh /\ Lasting
-----------------------------------------------------------------------------
LEMMA Basics ==
  /\ Requests = 1..MaxRequests /\ Listed \subseteq Files /\ Blank \notin Contents
  /\ Blank \in Texts /\ Contents \subseteq Texts
  /\ {} \in Chunks /\ \A t \in Texts : {t} \in Chunks
  /\ \A d \in Chunks : d # {Blank} => d \in SUBSET Contents /\ Blank \notin d
  /\ SUBSET Contents \subseteq Chunks
  /\ \A r \in Requests : r \in 0..MaxRequests /\ r # 0
<1> USE KnowledgeAssumption
<1>1. /\ Requests = 1..MaxRequests /\ Listed \subseteq Files /\ Blank \notin Contents
      /\ Blank \in Texts /\ Contents \subseteq Texts
  BY DEF Requests, Base!Requests, Texts
<1>2. {} \in Chunks /\ SUBSET Contents \subseteq Chunks /\ \A t \in Texts : {t} \in Chunks
  <2>1. \A t \in Texts : t # Blank => {t} \in SUBSET Contents
    BY DEF Texts
  <2> QED  BY <2>1 DEF Chunks
<1>3. \A d \in Chunks : d # {Blank} => d \in SUBSET Contents /\ Blank \notin d
  <2>1. \A d \in SUBSET Contents : Blank \notin d
    BY <1>1
  <2> QED  BY <2>1 DEF Chunks
<1>4. \A r \in Requests : r \in 0..MaxRequests /\ r # 0
  BY <1>1
<1> QED  BY <1>1, <1>2, <1>3, <1>4

LEMMA RequestShape ==
  ASSUME KnowledgeType, NEW r \in Requests
  PROVE  /\ req[r].pc # "idle" =>
             /\ req[r] \in Serving /\ req[r].kind \in Base!AllKinds /\ req[r].pc \in Steps
             /\ req[r].file \in Files /\ req[r].in \in {"own", "kb"} /\ req[r].text \in Texts
             /\ req[r].docs \in Chunks /\ req[r].hash \in Texts /\ req[r].ok \in BOOLEAN
             /\ req[r].olds \in SUBSET Entries /\ req[r].left \in SUBSET Files
         /\ req[r] \in Resting \cup Serving /\ req[r].kind \in Base!AllKinds \cup {"none"}
  BY DEF KnowledgeType, Resting, Serving

\* What a request is after a step that goes on at `at`.
Then(t, at) == IF at = "idle" THEN [kind |-> t.kind, pc |-> "idle"] ELSE [t EXCEPT !.pc = at]

LEMMA ThenShape ==
  ASSUME NEW t \in Serving, NEW at \in Steps \cup {"idle"}
  PROVE  /\ Then(t, at) \in Resting \cup Serving
         /\ Then(t, at).kind = t.kind /\ Then(t, at).pc = at
         /\ at # "idle" =>
             /\ Then(t, at) \in Serving
             /\ Then(t, at).file = t.file /\ Then(t, at).in = t.in /\ Then(t, at).text = t.text
             /\ Then(t, at).docs = t.docs /\ Then(t, at).hash = t.hash /\ Then(t, at).ok = t.ok
             /\ Then(t, at).olds = t.olds /\ Then(t, at).left = t.left
<1>1. CASE at = "idle"
  BY <1>1 DEF Then, Resting, Serving
<1>2. CASE at # "idle"
  BY <1>2 DEF Then, Serving, Steps
<1> QED  BY <1>1, <1>2

LEMMA GotoIs ==
  ASSUME KnowledgeType, NEW r \in Requests, NEW at, Base!Goto(r, at)
  PROVE  req' = [req EXCEPT ![r] = Then(req[r], at)]
  BY DEF KnowledgeType, Base!Goto, Then

\* Most steps: entries are only taken away, by a request that may, and a request
\* neither becomes one that has added its entries nor one that has not.
LEMMA StepKeeps ==
  ASSUME KnowledgeInv, NEW r \in Requests, NEW w \in Resting \cup Serving,
         req' = [req EXCEPT ![r] = w], Path(w),
         req[r].kind \in {"none", w.kind},
         NotYet(w) => NotYet(req[r]), Added(w) => Added(req[r]),
         w.pc # "idle" => w.olds = {} \/ (req[r].pc # "idle" /\ w.olds = req[r].olds),
         \/ vectors' = vectors
         \/ vectors' \subseteq vectors /\ w.kind \in Base!Removing
         \/ vectors' = vectors \ req[r].olds /\ Added(req[r])
  PROVE  Paths' /\ Fresh' /\ Lasting'
<1> USE DEF KnowledgeInv
<1>1. req'[r] = w /\ \A q \in Requests \ {r} : req'[q] = req[q]
  BY DEF KnowledgeType
<1>2. Paths'
  BY <1>1 DEF Paths
<1>3. Fresh'
  <2>1. \A q \in Requests : NotYet(req'[q]) => NotYet(req[q])
    BY <1>1
  <2>2. \A q \in Requests : req'[q].pc # "idle" =>
           req'[q].olds = {} \/ (req[q].pc # "idle" /\ req'[q].olds = req[q].olds)
    BY <1>1
  <2>3. vectors' \subseteq vectors
    OBVIOUS
  <2>4. \A q \in Requests : NotYet(req'[q]) => \A e \in vectors' : e.by # q
    BY <2>1, <2>3 DEF Fresh
  <2>5. \A q, o \in Requests : NotYet(req'[q]) /\ req'[o].pc # "idle" =>
            \A e \in req'[o].olds : e.by # q
    BY <2>1, <2>2 DEF Fresh
  <2> QED  BY <2>4, <2>5 DEF Fresh
<1>4. Lasting'
  <2> SUFFICES ASSUME \A q \in Requests : req'[q].kind \notin Base!Removing, NEW f \in Listed
               PROVE  \E e \in vectors' :
                        e.of = f /\ \A q \in Requests : Added(req'[q]) => e \notin req'[q].olds
    BY DEF Lasting
  <2>1. \A q \in Requests : req[q].kind \notin Base!Removing
    BY <1>1 DEF Base!Removing
  <2>2. PICK e \in vectors :
          e.of = f /\ \A q \in Requests : Added(req[q]) => e \notin req[q].olds
    BY <2>1 DEF Lasting
  <2>3. e \in vectors'
    BY <1>1, <2>2
  <2>4. \A q \in Requests : Added(req'[q]) => e \notin req'[q].olds
    <3>1. Added(w) => w.pc # "idle"
      BY DEF Added
    <3> QED  BY <1>1, <2>2, <3>1
  <2> QED  BY <2>2, <2>3, <2>4
<1> QED  BY <1>2, <1>3, <1>4

\* New entries, of a request that has now added them.
LEMMA AddKeeps ==
  ASSUME KnowledgeInv, NEW r \in Requests, NEW w \in Serving, NEW N,
         req' = [req EXCEPT ![r] = w], Path(w), w.kind = req[r].kind,
         req[r].pc # "idle", w.olds = req[r].olds, ~NotYet(w),
         vectors' = vectors \cup N, \A e \in N : e.by = r,
         Added(w) => /\ NotYet(req[r]) /\ N # {} /\ \A e \in N : e.of = w.file
                     /\ \A e \in w.olds : e.of = w.file
  PROVE  Paths' /\ Fresh' /\ Lasting'
<1> USE DEF KnowledgeInv
<1>1. req'[r] = w /\ \A q \in Requests \ {r} : req'[q] = req[q]
  BY DEF KnowledgeType
<1>2. Paths'
  BY <1>1 DEF Paths
<1>3. Fresh'
  <2>1. \A q \in Requests : NotYet(req'[q]) => NotYet(req[q]) /\ q # r
    BY <1>1
  <2>2. \A q \in Requests : req'[q].pc # "idle" =>
           req[q].pc # "idle" /\ req'[q].olds = req[q].olds
    BY <1>1
  <2>3. \A q \in Requests : NotYet(req'[q]) => \A e \in vectors' : e.by # q
    BY <2>1 DEF Fresh
  <2>4. \A q, o \in Requests : NotYet(req'[q]) /\ req'[o].pc # "idle" =>
            \A e \in req'[o].olds : e.by # q
    BY <2>1, <2>2 DEF Fresh
  <2> QED  BY <2>3, <2>4 DEF Fresh
<1>4. Lasting'
  <2> SUFFICES ASSUME \A q \in Requests : req'[q].kind \notin Base!Removing, NEW f \in Listed
               PROVE  \E e \in vectors' :
                        e.of = f /\ \A q \in Requests : Added(req'[q]) => e \notin req'[q].olds
    BY DEF Lasting
  <2>1. \A q \in Requests : req[q].kind \notin Base!Removing
    BY <1>1
  <2>2. PICK e \in vectors :
          e.of = f /\ \A q \in Requests : Added(req[q]) => e \notin req[q].olds
    BY <2>1 DEF Lasting
  <2>3. CASE ~Added(w) \/ f # w.file
    <3>1. Added(w) => e \notin w.olds
      BY <2>2, <2>3
    <3> QED  BY <1>1, <2>2, <3>1
  <2>4. CASE Added(w) /\ f = w.file
    <3>1. PICK n \in N : n.of = f /\ n.by = r
      BY <2>4
    <3>2. \A q \in Requests : req[q].pc # "idle" => n \notin req[q].olds
      BY <2>4, <3>1 DEF Fresh
    <3>3. \A q \in Requests : Added(req'[q]) => n \notin req'[q].olds
      BY <1>1, <3>2 DEF Added
    <3> QED  BY <3>1, <3>3
  <2> QED  BY <2>3, <2>4
<1> QED  BY <1>2, <1>3, <1>4

\* Rows stay rows.
LEMMA RowShape ==
  ASSUME KnowledgeType, NEW f \in Files
  PROVE  /\ Base!There(f) =>
             /\ row[f].content \in Texts /\ row[f].hash \in Texts
             /\ row[f].status \in {"pending", "completed", "failed"}
             /\ row[f] = Base!Row(row[f].content, row[f].hash, row[f].status)
         /\ \A c \in Texts, h \in Texts, s \in {"pending", "completed", "failed"} :
                Base!Row(c, h, s) \in Rows
         /\ Base!Gone \in Rows
<1>1. \A c \in Texts, h \in Texts, s \in {"pending", "completed", "failed"} :
        /\ Base!Row(c, h, s).content = c /\ Base!Row(c, h, s).hash = h
        /\ Base!Row(c, h, s).status = s
  BY DEF Base!Row
<1>2. Base!There(f) => \E c \in Texts, h \in Texts, s \in {"pending", "completed", "failed"} :
                          row[f] = Base!Row(c, h, s)
  BY DEF KnowledgeType, Rows, Base!There, Base!Unborn, Base!Gone
<1> QED  BY <1>1, <1>2 DEF Rows

LEMMA RowUpdates ==
  ASSUME KnowledgeType, NEW f \in Files, Base!There(f)
  PROVE  /\ \A c \in Texts : [row EXCEPT ![f].content = c] \in [Files -> Rows]
         /\ \A h \in Texts : [row EXCEPT ![f].hash = h] \in [Files -> Rows]
         /\ \A c \in Texts, h \in Texts :
                [row EXCEPT ![f] = Base!Row(c, h, row[f].status)] \in [Files -> Rows]
         /\ \A s \in {"pending", "completed", "failed"} :
                [row EXCEPT ![f].status = s] \in [Files -> Rows]
<1> DEFINE c0 == row[f].content
           h0 == row[f].hash
           s0 == row[f].status
<1>1. /\ c0 \in Texts /\ h0 \in Texts /\ s0 \in {"pending", "completed", "failed"}
      /\ row[f] = Base!Row(c0, h0, s0)
  BY RowShape
<1>2. \A c \in Texts : [row[f] EXCEPT !.content = c] = Base!Row(c, h0, s0)
  BY <1>1 DEF Base!Row
<1>3. \A h \in Texts : [row[f] EXCEPT !.hash = h] = Base!Row(c0, h, s0)
  BY <1>1 DEF Base!Row
<1>4. \A s \in {"pending", "completed", "failed"} :
        [row[f] EXCEPT !.status = s] = Base!Row(c0, h0, s)
  BY <1>1 DEF Base!Row
<1>5. \A x \in Rows : [row EXCEPT ![f] = x] \in [Files -> Rows]
  BY DEF KnowledgeType
<1> HIDE DEF c0, h0, s0
<1>6. \A c \in Texts, h \in Texts, s \in {"pending", "completed", "failed"} :
        Base!Row(c, h, s) \in Rows
  BY RowShape
<1>7. \A c \in Texts : [row EXCEPT ![f].content = c] \in [Files -> Rows]
  <2> TAKE c \in Texts
  <2>1. [row EXCEPT ![f].content = c] = [row EXCEPT ![f] = [row[f] EXCEPT !.content = c]]
    BY DEF KnowledgeType
  <2> QED  BY <1>1, <1>2, <1>5, <1>6, <2>1
<1>8. \A h \in Texts : [row EXCEPT ![f].hash = h] \in [Files -> Rows]
  <2> TAKE h \in Texts
  <2>1. [row EXCEPT ![f].hash = h] = [row EXCEPT ![f] = [row[f] EXCEPT !.hash = h]]
    BY DEF KnowledgeType
  <2> QED  BY <1>1, <1>3, <1>5, <1>6, <2>1
<1>9. \A c \in Texts, h \in Texts :
         [row EXCEPT ![f] = Base!Row(c, h, row[f].status)] \in [Files -> Rows]
  <2> TAKE c \in Texts, h \in Texts
  <2> QED  BY <1>1, <1>5, <1>6 DEF s0
<1>10. \A s \in {"pending", "completed", "failed"} :
         [row EXCEPT ![f].status = s] \in [Files -> Rows]
  <2> TAKE s \in {"pending", "completed", "failed"}
  <2>1. [row EXCEPT ![f].status = s] = [row EXCEPT ![f] = [row[f] EXCEPT !.status = s]]
    BY DEF KnowledgeType
  <2> QED  BY <1>1, <1>4, <1>5, <1>6, <2>1
<1> QED  BY <1>7, <1>8, <1>9, <1>10
-----------------------------------------------------------------------------
LEMMA InitKnowledge == Base!Init => KnowledgeInv
<1> SUFFICES ASSUME Base!Init PROVE KnowledgeInv
  OBVIOUS
<1> USE DEF Base!Init
<1>1. \A r \in Requests : req[r] = Base!Idle /\ req[r].kind = "none" /\ req[r].pc = "idle"
  BY DEF Requests, Base!Idle
<1>2. KnowledgeType
  <2>1. row \in [Files -> Rows]
    <3>1. \A c \in Contents : Base!Processed(c) \in Rows
      BY Basics DEF Base!Processed, Rows
    <3> QED  BY <3>1 DEF Rows
  <2>2. own \in [Files -> SUBSET Contents]
    <3>1. ASSUME NEW f \in Files, Base!There(f) PROVE row[f].content \in Contents
      <4>1. PICK c \in Contents : row[f] = Base!Processed(c)
        BY <3>1 DEF Base!There, Base!Unborn
      <4> QED  BY <4>1 DEF Base!Processed, Base!Row
    <3> QED  BY <3>1
  <2>3. vectors \subseteq Entries
    BY Basics, KnowledgeAssumption DEF Base!Entry, Entries
  <2>4. req \in [Requests -> Resting \cup Serving]
    BY <1>1 DEF Requests, Base!Idle, Resting
  <2>5. linked \subseteq Files /\ calm \in BOOLEAN /\ faults \in 0..MaxFaults
    BY KnowledgeAssumption
  <2> QED  BY <2>1, <2>2, <2>3, <2>4, <2>5 DEF KnowledgeType
<1>3. Paths
  BY <1>1 DEF Paths, Path
<1>4. Fresh
  <2>1. \A e \in vectors : e.by = 0
    BY DEF Base!Entry
  <2> QED  BY <1>1, <2>1, Basics DEF Fresh
<1>5. Lasting
  BY <1>1 DEF Lasting, Added, Base!Entry
<1> QED  BY <1>2, <1>3, <1>4, <1>5 DEF KnowledgeInv

\* A new request is about the first of its steps.
LEMMA BeginStep ==
  ASSUME KnowledgeInv, NEW r \in Requests, NEW kind, NEW f \in Files, NEW first \in Steps,
         NEW in \in {"own", "kb"}, NEW text \in Texts, Base!Begin(r, kind, f, first, in, text),
         first \notin {"dropOwn", "own", "write", "check", "insert", "batchRow", "list", "olds",
                       "status", "hash", "sweep", "dropFile", "dropHash", "pick"},
         first = "batchInsert" => kind = "batch",
         first \in {"clear", "dropIndex"} => kind \in Base!Removing,
         first = "unlink" => kind \in {"remove", "discard", "delete"},
         UNCHANGED vectors
  PROVE  /\ req' \in [Requests -> Resting \cup Serving] /\ calm' \in BOOLEAN
         /\ faults' \in 0..MaxFaults /\ Paths' /\ Fresh' /\ Lasting'
<1> USE DEF KnowledgeInv
<1> DEFINE w == [kind |-> kind, pc |-> first, file |-> f, in |-> in, text |-> text, docs |-> {},
                 hash |-> IF Base!There(f) THEN row[f].hash ELSE Blank,
                 ok |-> FALSE, olds |-> {},
                 left |-> IF kind = "reindex" THEN {g \in linked : Base!There(g)} ELSE {}]
<1>1. /\ req' = [req EXCEPT ![r] = w] /\ calm' = (calm /\ Base!Quiet) /\ faults' = faults
      /\ kind \in Kinds /\ req[r].kind = "none"
  BY DEF Base!Begin, Base!MayStart, Base!Upcoming, Base!Started
<1>2. kind \in Base!AllKinds
  BY <1>1, KnowledgeAssumption
<1>3. w \in Serving
  <2>1. (IF Base!There(f) THEN row[f].hash ELSE Blank) \in Texts
    BY Basics, RowShape
  <2>2. (IF kind = "reindex" THEN {g \in linked : Base!There(g)} ELSE {}) \in SUBSET Files
    BY DEF KnowledgeType
  <2> QED  BY <1>2, <2>1, <2>2, Basics DEF Serving
<1>4. w.kind = kind /\ w.pc = first /\ w.olds = {} /\ kind # "none"
  BY <1>2 DEF Base!AllKinds
<1> HIDE DEF w
<1>5. Path(w)
  BY <1>4 DEF Path, Base!Removing
<1>6. ~Added(w) /\ NotYet(req[r])
  BY <1>1, <1>4 DEF Added, NotYet
<1>7. req' \in [Requests -> Resting \cup Serving]
  BY <1>1, <1>3 DEF KnowledgeType
<1>8. Paths' /\ Fresh' /\ Lasting'
  BY <1>1, <1>3, <1>4, <1>5, <1>6, StepKeeps
<1> QED  BY <1>1, <1>7, <1>8 DEF KnowledgeType
-----------------------------------------------------------------------------
(* The steps of a request *)

Stored == row \in [Files -> Rows] /\ linked \subseteq Files /\ own \in [Files -> SUBSET Contents]

LEMMA Effects ==
  ASSUME KnowledgeType, Base!Works \/ Base!Fails
  PROVE  calm' \in BOOLEAN /\ faults' \in 0..MaxFaults
<1>1. calm \in BOOLEAN /\ faults \in 0..MaxFaults /\ MaxFaults \in Nat
  BY KnowledgeAssumption DEF KnowledgeType
<1>2. CASE Base!Works
  BY <1>1, <1>2 DEF Base!Works
<1>3. CASE Base!Fails
  <2>1. calm' = FALSE /\ faults < MaxFaults /\ faults' = faults + 1
    BY <1>3 DEF Base!Fails
  <2>2. faults' \in 0..MaxFaults
    BY <1>1, <2>1
  <2> QED  BY <2>1, <2>2
<1> QED  BY <1>2, <1>3

\* StepKeeps, with the types.
LEMMA StepIs ==
  ASSUME KnowledgeInv, NEW r \in Requests, NEW w \in Resting \cup Serving,
         req' = [req EXCEPT ![r] = w], Path(w), w.kind = req[r].kind,
         NotYet(w) => NotYet(req[r]), Added(w) => Added(req[r]),
         w.pc # "idle" => req[r].pc # "idle" /\ w.olds = req[r].olds,
         \/ vectors' = vectors
         \/ vectors' \subseteq vectors /\ w.kind \in Base!Removing
         \/ vectors' = vectors \ req[r].olds /\ Added(req[r]),
         Stored', Base!Works \/ Base!Fails
  PROVE  KnowledgeInv'
<1>1. Paths' /\ Fresh' /\ Lasting'
  BY StepKeeps
<1>2. vectors' \subseteq vectors
  OBVIOUS
<1>3. req' \in [Requests -> Resting \cup Serving]
  BY DEF KnowledgeInv, KnowledgeType
<1>4. KnowledgeType'
  BY <1>2, <1>3, Effects DEF KnowledgeInv, KnowledgeType, Stored
<1> QED  BY <1>1, <1>4 DEF KnowledgeInv

\* A request that goes on at `goal` stays on its path and adds nothing.
Following(r, goal) ==
    \A w \in Serving :
        /\ w.pc = goal /\ w.kind = req[r].kind /\ w.file = req[r].file /\ w.in = req[r].in
        /\ w.text = req[r].text /\ w.docs = req[r].docs /\ w.ok = req[r].ok
        /\ w.olds = req[r].olds /\ goal # "idle"
        => Path(w) /\ (NotYet(w) => NotYet(req[r])) /\ (Added(w) => Added(req[r]))

\* The same for a step that only goes on.
LEMMA GotoStep ==
  ASSUME KnowledgeInv, NEW r \in Requests, req[r].pc # "idle", NEW goal \in Steps \cup {"idle"},
         Base!Goto(r, goal),
         Following(r, goal),
         \/ vectors' = vectors
         \/ vectors' \subseteq vectors /\ req[r].kind \in Base!Removing
         \/ vectors' = vectors \ req[r].olds /\ Added(req[r]),
         Stored', Base!Works \/ Base!Fails
  PROVE  KnowledgeInv'
<1>1. req[r] \in Serving
  BY RequestShape DEF KnowledgeInv
<1> DEFINE w == Then(req[r], goal)
<1>2. /\ w \in Resting \cup Serving /\ w.kind = req[r].kind /\ w.pc = goal
      /\ goal # "idle" =>
            /\ w \in Serving /\ w.file = req[r].file /\ w.in = req[r].in
            /\ w.text = req[r].text /\ w.docs = req[r].docs /\ w.ok = req[r].ok
            /\ w.olds = req[r].olds
  BY <1>1, ThenShape
<1>3. req' = [req EXCEPT ![r] = w]
  BY GotoIs DEF KnowledgeInv
<1> HIDE DEF w
<1>4. Path(w) /\ (NotYet(w) => NotYet(req[r])) /\ (Added(w) => Added(req[r]))
  <2>1. CASE goal = "idle"
    <3>1. req[r].kind # "none"
      BY <1>1 DEF Serving, Base!AllKinds
    <3> QED  BY <1>2, <2>1, <3>1 DEF Path, NotYet, Added
  <2>2. CASE goal # "idle"
    BY <1>2, <2>2 DEF Following
  <2> QED  BY <2>1, <2>2
<1> QED  BY <1>2, <1>3, <1>4, StepIs

\* Where the caller goes on.
LEMMA CallerIs ==
  ASSUME KnowledgeType, NEW r \in Requests, req[r].pc # "idle", NEW ok \in BOOLEAN
  PROVE  /\ Base!Caller(r, ok) \in {"link", "list", "sweep", "pick", "idle"}
         /\ Base!Caller(r, ok) = "list" => req[r].kind \in Base!Edits /\ req[r].in = "own"
         /\ Base!Caller(r, ok) = "sweep" => req[r].kind \in Base!Edits /\ req[r].in = "kb" /\ ok
         /\ Base!Caller(r, ok) = "pick" => req[r].kind = "reindex"
<1>1. req[r].in \in {"own", "kb"}
  BY RequestShape
<1>2. Base!Caller(r, ok) \in {"link", "list", "sweep", "pick", "idle"}
  BY DEF Base!Caller
<1>3. Base!Caller(r, ok) = "list" => req[r].kind \in Base!Edits /\ req[r].in = "own"
  BY DEF Base!Caller
<1>4. Base!Caller(r, ok) = "sweep" => req[r].kind \in Base!Edits /\ req[r].in = "kb" /\ ok
  BY <1>1 DEF Base!Caller
<1>5. Base!Caller(r, ok) = "pick" => req[r].kind = "reindex"
  BY DEF Base!Caller
<1> QED  BY <1>2, <1>3, <1>4, <1>5

\* The stores are as they were.
LEMMA StoresStay ==
  ASSUME KnowledgeInv, UNCHANGED Base!stores
  PROVE  Stored' /\ vectors' = vectors
  BY DEF KnowledgeInv, KnowledgeType, Stored, Base!stores

LEMMA BeginKeeps ==
  ASSUME KnowledgeInv, NEW r \in Requests, NEW f \in Files, NEW c \in Contents,
         \/ Base!Add(r, f) \/ Base!Batch(r, f) \/ Base!Readd(r, f) \/ Base!Remove(r, f)
         \/ Base!Delete(r, f) \/ Base!Upload(r, f, c) \/ Base!UpdateContent(r, f, c)
         \/ Base!Reset(r) \/ Base!Reindex(r)
  PROVE  KnowledgeInv'
<1> DEFINE Begun == /\ req' \in [Requests -> Resting \cup Serving] /\ calm' \in BOOLEAN
                    /\ faults' \in 0..MaxFaults /\ Paths' /\ Fresh' /\ Lasting'
<1>0. "read" \in Steps /\ "batchInsert" \in Steps /\ "clear" \in Steps /\ "unlink" \in Steps
      /\ "deleteRow" \in Steps /\ "dropIndex" \in Steps
  BY DEF Steps
<1>1. Stored' /\ vectors' = vectors
  <2>1. CASE UNCHANGED Base!stores
    BY <2>1, StoresStay
  <2>2. CASE Base!Upload(r, f, c)
    <3>1. row' = [row EXCEPT ![f] = Base!Row(Blank, Blank, "pending")]
          /\ UNCHANGED <<linked, own, vectors>>
      BY <2>2 DEF Base!Upload
    <3>2. Base!Row(Blank, Blank, "pending") \in Rows
      BY Basics DEF Rows
    <3> QED  BY <3>1, <3>2 DEF KnowledgeInv, KnowledgeType, Stored
  <2> QED
    BY <2>1, <2>2 DEF Base!Add, Base!Batch, Base!Readd, Base!Remove, Base!Delete,
                      Base!UpdateContent, Base!Reset, Base!Reindex
<1>2. Begun
  <2>1. CASE Base!Add(r, f)
    BY <1>0, <1>1, <2>1, Basics, BeginStep DEF Base!Add
  <2>2. CASE Base!Batch(r, f)
    <3>1. row[f].content \in Texts
      BY <2>2, RowShape DEF Base!Batch, KnowledgeInv
    <3>2. Base!Begin(r, "batch", f, "batchInsert", "kb", row[f].content)
      BY <2>2 DEF Base!Batch
    <3> QED  BY <1>0, <1>1, <3>1, <3>2, BeginStep
  <2>3. CASE Base!Readd(r, f)
    BY <1>0, <1>1, <2>3, Basics, BeginStep DEF Base!Readd, Base!Removing
  <2>4. CASE Base!Remove(r, f)
    <3>1. PICK kind \in {"remove", "discard"} : Base!Begin(r, kind, f, "unlink", "kb", Blank)
      BY <2>4 DEF Base!Remove
    <3> QED  BY <1>0, <1>1, <3>1, Basics, BeginStep
  <2>5. CASE Base!Delete(r, f)
    <3>1. CASE f \in linked
      <4>1. Base!Begin(r, "delete", f, "unlink", "kb", Blank)
        BY <2>5, <3>1 DEF Base!Delete
      <4> QED  BY <1>0, <1>1, <4>1, Basics, BeginStep
    <3>2. CASE f \notin linked
      <4>1. Base!Begin(r, "delete", f, "deleteRow", "kb", Blank)
        BY <2>5, <3>2 DEF Base!Delete
      <4> QED  BY <1>0, <1>1, <4>1, Basics, BeginStep
    <3> QED  BY <3>1, <3>2
  <2>6. CASE Base!Upload(r, f, c)
    <3>1. PICK kind \in {"attach", "upload"} : Base!Begin(r, kind, f, "read", "own", c)
      BY <2>6 DEF Base!Upload
    <3> QED  BY <1>0, <1>1, <3>1, Basics, BeginStep
  <2>7. CASE Base!UpdateContent(r, f, c)
    BY <1>0, <1>1, <2>7, Basics, BeginStep DEF Base!UpdateContent
  <2>8. CASE Base!Reset(r)
    <3>1. Base!Any \in Files /\ Base!Begin(r, "reset", Base!Any, "dropIndex", "kb", Blank)
      BY <2>8, KnowledgeAssumption DEF Base!Reset, Base!Any
    <3> QED  BY <1>0, <1>1, <3>1, Basics, BeginStep DEF Base!Removing
  <2>9. CASE Base!Reindex(r)
    <3>1. Base!Any \in Files /\ Base!Begin(r, "reindex", Base!Any, "dropIndex", "kb", Blank)
      BY <2>9, KnowledgeAssumption DEF Base!Reindex, Base!Any
    <3> QED  BY <1>0, <1>1, <3>1, Basics, BeginStep DEF Base!Removing
  <2> QED  BY <2>1, <2>2, <2>3, <2>4, <2>5, <2>6, <2>7, <2>8, <2>9
<1> QED  BY <1>1, <1>2 DEF KnowledgeInv, KnowledgeType, Stored

\* Steps that only go on: the rows, the links and what no update waits for.
LEMMA RouteKeeps ==
  ASSUME KnowledgeInv, NEW r \in Requests,
         \/ Base!DropOwn(r) \/ Base!Write(r) \/ Base!WriteStatus(r) \/ Base!WriteHash(r)
         \/ Base!BatchRow(r) \/ Base!ListBases(r) \/ Base!Sweep(r) \/ Base!Clear(r)
         \/ Base!Unlink(r) \/ Base!DropFile(r) \/ Base!DropHash(r) \/ Base!DiscardOwn(r)
         \/ Base!DeleteRow(r) \/ Base!DropRest(r) \/ Base!DropIndex(r) \/ Base!UnlinkAll(r)
         \/ Base!Die(r)
  PROVE  KnowledgeInv'
<1> USE DEF Base!At, Base!File
<1>1. req[r].pc # "idle" => Path(req[r]) /\ req[r].file \in Files /\ req[r].text \in Texts
  BY RequestShape DEF KnowledgeInv, Paths
<1>2. Base!Works \/ Base!Fails => calm' \in BOOLEAN
  BY Effects DEF KnowledgeInv
<1>3. Stored /\ KnowledgeType
  BY DEF KnowledgeInv, KnowledgeType, Stored
<1>4. CASE Base!DropOwn(r)
  <2> USE <1>4 DEF Base!DropOwn
  <2>1. Stored'
    BY <1>1, <1>3 DEF Stored
  <2>goes. Following(r, "write")
    BY <1>1, <2>1 DEF Following, Path, NotYet, Added
  <2> QED  BY <1>1, <2>1, <2>goes, GotoStep DEF Steps
<1>5. CASE Base!Write(r)
  <2> USE <1>5 DEF Base!Write
  <2>1. Stored'
    BY <1>1, <1>3, RowUpdates DEF Stored
  <2>goes. Following(r, "check")
    BY <1>1, <2>1 DEF Following, Path, NotYet, Added
  <2> QED  BY <1>1, <2>1, <2>goes, GotoStep DEF Steps
<1>6. CASE Base!WriteStatus(r)
  <2> USE <1>6 DEF Base!WriteStatus
  <2>1. Stored'
    BY <1>1, <1>3, RowUpdates DEF Stored
  <2>goes. Following(r, "hash")
    BY <1>1, <2>1 DEF Following, Path, NotYet, Added
  <2> QED  BY <1>1, <2>1, <2>goes, GotoStep DEF Steps
<1>7. CASE Base!WriteHash(r)
  <2> USE <1>7 DEF Base!WriteHash
  <2>1. Stored'
    BY <1>1, <1>3, Basics, RowUpdates DEF Stored
  <2> DEFINE goal == Base!Caller(r, req[r].ok)
  <2>2. req[r].ok \in BOOLEAN
    BY <1>3, RequestShape
  <2>3. /\ goal \in {"link", "list", "sweep", "pick", "idle"}
        /\ goal = "list" => req[r].kind \in Base!Edits /\ req[r].in = "own"
        /\ goal = "sweep" => req[r].kind \in Base!Edits /\ req[r].in = "kb" /\ req[r].ok
        /\ goal = "pick" => req[r].kind = "reindex"
    BY <1>3, <2>2, CallerIs
  <2>4. Base!Goto(r, goal)
    OBVIOUS
  <2> HIDE DEF goal
  <2>goes. Following(r, goal)
    BY <1>1, <2>1, <2>3, <2>4 DEF Following, Path, NotYet, Added, Base!Removing
  <2> QED  BY <1>1, <2>1, <2>3, <2>4, <2>goes, GotoStep DEF Steps
<1>8. CASE Base!BatchRow(r)
  <2> USE <1>8 DEF Base!BatchRow
  <2>1. Stored'
    BY <1>1, <1>3, RowUpdates DEF Stored
  <2>goes. Following(r, "link")
    BY <1>1, <2>1 DEF Following, Path, NotYet, Added
  <2> QED  BY <1>1, <2>1, <2>goes, GotoStep DEF Steps
<1>9. CASE Base!ListBases(r)
  <2>0. req[r].pc = "list" /\ Base!Works /\ UNCHANGED Base!stores
    BY <1>9 DEF Base!ListBases
  <2> DEFINE goal == IF Base!File(r) \in linked THEN "olds" ELSE "idle"
  <2>1. goal \in {"olds", "idle"} /\ Base!Goto(r, goal)
    BY <1>9 DEF Base!ListBases
  <2> HIDE DEF goal
  <2>5. CASE Base!Goto(r, "olds")
    <3>goes. Following(r, "olds")
      BY <1>1, <2>0, StoresStay, <2>5 DEF Following, Path, NotYet, Added, Base!Removing
    <3> QED  BY <1>1, <2>0, StoresStay, <2>5, <3>goes, GotoStep DEF Steps
  <2>6. CASE Base!Goto(r, "idle")
    <3>goes. Following(r, "idle")
      BY DEF Following
    <3> QED  BY <1>1, <2>0, StoresStay, <2>6, <3>goes, GotoStep DEF Steps
  <2> QED  BY <2>1, <2>5, <2>6
<1>10. CASE Base!Sweep(r)
  <2> USE <1>10 DEF Base!Sweep
  <2>1. Stored'
    BY <1>3 DEF Stored
  <2>2. Added(req[r])
    BY <1>1 DEF Path, Added
  <2>goes. Following(r, "idle")
    BY DEF Following
  <2> QED  BY <1>1, <2>1, <2>2, <2>goes, GotoStep DEF Steps
<1>11. CASE Base!Clear(r)
  <2> USE <1>11 DEF Base!Clear
  <2>1. Stored' /\ vectors' \subseteq vectors
    BY <1>3 DEF Stored
  <2>2. req[r].kind \in Base!Removing
    BY <1>1 DEF Path
  <2>3. PICK goal \in {"read", "idle"} : Base!Goto(r, goal)
    OBVIOUS
  <2>5. CASE Base!Goto(r, "read")
    <3>goes. Following(r, "read")
      BY <1>1, <2>1, <2>2, <2>5 DEF Following, Path, NotYet, Added, Base!Removing, Base!Edits
    <3> QED  BY <1>1, <2>1, <2>2, <2>5, <3>goes, GotoStep DEF Steps
  <2>6. CASE Base!Goto(r, "idle")
    <3>goes. Following(r, "idle")
      BY DEF Following
    <3> QED  BY <1>1, <2>1, <2>2, <2>6, <3>goes, GotoStep DEF Steps
  <2> QED  BY <2>3, <2>5, <2>6
<1>12. CASE Base!Unlink(r)
  <2> USE <1>12 DEF Base!Unlink
  <2>1. Stored'
    BY <1>3 DEF Stored
  <2>goes. Following(r, "dropFile")
    BY <1>1, <2>1 DEF Following, Path, NotYet, Added, Base!Removing
  <2> QED  BY <1>1, <2>1, <2>goes, GotoStep DEF Steps
<1>13. CASE Base!DropFile(r)
  <2>0. req[r].pc = "dropFile" /\ (Base!Works \/ Base!Fails)
    BY <1>13 DEF Base!DropFile
  <2>1. Stored' /\ vectors' \subseteq vectors
    BY <1>3, <1>13 DEF Stored, Base!DropFile, Base!Of
  <2>2. req[r].kind \in {"remove", "discard", "delete"} /\ req[r].kind \in Base!Removing
    BY <1>1, <2>0 DEF Path, Base!Removing
  <2>3. Base!Unlisted(r) \in {"idle", "discardOwn", "deleteRow"}
    BY DEF Base!Unlisted
  <2>4. PICK goal \in {"dropHash", "idle", "discardOwn", "deleteRow"} : Base!Goto(r, goal)
    BY <1>13, <2>3 DEF Base!DropFile
  <2>5. CASE Base!Goto(r, "dropHash")
    <3>goes. Following(r, "dropHash")
      BY <1>1, <2>0, <2>1, <2>2, <2>5 DEF Following, Path, NotYet, Added, Base!Removing
    <3> QED  BY <1>1, <2>0, <2>1, <2>2, <2>5, <3>goes, GotoStep DEF Steps
  <2>6. CASE Base!Goto(r, "idle")
    <3>goes. Following(r, "idle")
      BY DEF Following
    <3> QED  BY <1>1, <2>0, <2>1, <2>2, <2>6, <3>goes, GotoStep DEF Steps
  <2>7. CASE Base!Goto(r, "discardOwn")
    <3>goes. Following(r, "discardOwn")
      BY <1>1, <2>0, <2>1, <2>2, <2>7 DEF Following, Path, NotYet, Added, Base!Removing
    <3> QED  BY <1>1, <2>0, <2>1, <2>2, <2>7, <3>goes, GotoStep DEF Steps
  <2>8. CASE Base!Goto(r, "deleteRow")
    <3>goes. Following(r, "deleteRow")
      BY <1>1, <2>0, <2>1, <2>2, <2>8 DEF Following, Path, NotYet, Added, Base!Removing
    <3> QED  BY <1>1, <2>0, <2>1, <2>2, <2>8, <3>goes, GotoStep DEF Steps
  <2> QED  BY <2>4, <2>5, <2>6, <2>7, <2>8
<1>14. CASE Base!DropHash(r)
  <2>0. req[r].pc = "dropHash" /\ (Base!Works \/ Base!Fails)
    BY <1>14 DEF Base!DropHash
  <2>1. Stored' /\ vectors' \subseteq vectors
    BY <1>3, <1>14 DEF Stored, Base!DropHash, Base!Of
  <2>2. req[r].kind \in {"remove", "discard", "delete"} /\ req[r].kind \in Base!Removing
    BY <1>1, <2>0 DEF Path, Base!Removing
  <2>3. Base!Unlisted(r) \in {"idle", "discardOwn", "deleteRow"}
    BY DEF Base!Unlisted
  <2>4. PICK goal \in {"idle", "discardOwn", "deleteRow"} : Base!Goto(r, goal)
    BY <1>14, <2>3 DEF Base!DropHash
  <2>5. CASE Base!Goto(r, "idle")
    <3>goes. Following(r, "idle")
      BY DEF Following
    <3> QED  BY <1>1, <2>0, <2>1, <2>2, <2>5, <3>goes, GotoStep DEF Steps
  <2>6. CASE Base!Goto(r, "discardOwn")
    <3>goes. Following(r, "discardOwn")
      BY <1>1, <2>0, <2>1, <2>2, <2>6 DEF Following, Path, NotYet, Added, Base!Removing
    <3> QED  BY <1>1, <2>0, <2>1, <2>2, <2>6, <3>goes, GotoStep DEF Steps
  <2>7. CASE Base!Goto(r, "deleteRow")
    <3>goes. Following(r, "deleteRow")
      BY <1>1, <2>0, <2>1, <2>2, <2>7 DEF Following, Path, NotYet, Added, Base!Removing
    <3> QED  BY <1>1, <2>0, <2>1, <2>2, <2>7, <3>goes, GotoStep DEF Steps
  <2> QED  BY <2>4, <2>5, <2>6, <2>7
<1>15. CASE Base!DiscardOwn(r)
  <2> USE <1>15 DEF Base!DiscardOwn
  <2>1. Stored'
    BY <1>1, <1>3 DEF Stored
  <2>goes. Following(r, "deleteRow")
    BY <1>1, <2>1 DEF Following, Path, NotYet, Added
  <2> QED  BY <1>1, <2>1, <2>goes, GotoStep DEF Steps
<1>16. CASE Base!DeleteRow(r)
  <2> USE <1>16 DEF Base!DeleteRow
  <2>1. Stored'
    BY <1>1, <1>3, RowShape DEF Stored
  <2>2. PICK goal \in {"dropRest", "idle"} : Base!Goto(r, goal)
    OBVIOUS
  <2>goes. Following(r, goal)
    BY <1>1, <2>1, <2>2 DEF Following, Path, NotYet, Added
  <2> QED  BY <1>1, <2>1, <2>2, <2>goes, GotoStep DEF Steps
<1>17. CASE Base!DropRest(r)
  <2> USE <1>17 DEF Base!DropRest
  <2>1. Stored'
    BY <1>1, <1>3 DEF Stored
  <2>goes. Following(r, "idle")
    BY DEF Following
  <2> QED  BY <1>1, <2>1, <2>goes, GotoStep DEF Steps
<1>18. CASE Base!DropIndex(r)
  <2> USE <1>18 DEF Base!DropIndex
  <2>1. Stored' /\ vectors' \subseteq vectors
    BY <1>3 DEF Stored
  <2>2. req[r].kind \in Base!Removing
    BY <1>1 DEF Path
  <2>3. PICK goal \in {"unlinkAll", "pick", "idle"} : Base!Goto(r, goal)
    OBVIOUS
  <2>goes. Following(r, goal)
    BY <1>1, <2>1, <2>2, <2>3 DEF Following, Path, NotYet, Added, Base!Removing
  <2> QED  BY <1>1, <2>1, <2>2, <2>3, <2>goes, GotoStep DEF Steps
<1>19. CASE Base!UnlinkAll(r)
  <2> USE <1>19 DEF Base!UnlinkAll
  <2>1. Stored'
    BY <1>3 DEF Stored
  <2>goes. Following(r, "idle")
    BY DEF Following
  <2> QED  BY <1>1, <2>1, <2>goes, GotoStep DEF Steps
<1>20. CASE Base!Die(r)
  <2> USE <1>20 DEF Base!Die, Base!Over
  <2> QED  BY <1>1, StoresStay, GotoStep DEF Following
<1> QED  BY <1>4, <1>5, <1>6, <1>7, <1>8, <1>9, <1>10, <1>11, <1>12, <1>13, <1>14, <1>15,
            <1>16, <1>17, <1>18, <1>19, <1>20

\* Steps that change what a request holds.
LEMMA HoldKeeps ==
  ASSUME KnowledgeInv, NEW r \in Requests,
         \/ Base!Read(r) \/ Base!ReadFails(r) \/ Base!ReadOwn(r) \/ Base!Check(r)
         \/ Base!Link(r) \/ Base!Pick(r)
  PROVE  KnowledgeInv'
<1> USE DEF Base!At, Base!File
<1> DEFINE t == req[r]
<1>1. t.pc # "idle" =>
        /\ Path(t) /\ t \in Serving /\ t.file \in Files /\ t.text \in Texts
        /\ t.in \in {"own", "kb"}
        /\ t.docs \in Chunks /\ t.olds \in SUBSET Entries /\ t.left \in SUBSET Files
        /\ t.kind \in Base!AllKinds
  BY RequestShape DEF KnowledgeInv, Paths
<1>2. req \in [Requests -> Resting \cup Serving] /\ KnowledgeType
  BY DEF KnowledgeInv, KnowledgeType
<1>3. CASE Base!Read(r)
  <2>0. t.pc = "read" /\ Base!Works /\ UNCHANGED Base!stores
    BY <1>3 DEF Base!Read
  <2>1. Stored' /\ vectors' = vectors
    BY <2>0, StoresStay
  <2>2. CASE ~Base!There(t.file)
    <3>1. Base!Goto(r, Base!Caller(r, FALSE))
      BY <1>3, <2>2 DEF Base!Read
    <3> DEFINE goal == Base!Caller(r, FALSE)
    <3>2. /\ goal \in {"link", "list", "pick", "idle"}
          /\ goal = "list" => t.kind \in Base!Edits /\ t.in = "own"
          /\ goal = "pick" => t.kind = "reindex"
      BY <1>2, <2>0, CallerIs
    <3>7. Base!Goto(r, goal)
      BY <3>1
    <3> HIDE DEF goal
    <3>3. CASE goal = "link"
      <4>goes. Following(r, goal)
        BY <1>1, <2>0, <2>1, <3>2, <3>3, <3>7 DEF Following, Path, NotYet, Added, Base!Removing
      <4> QED  BY <1>1, <2>0, <2>1, <3>2, <3>3, <3>7, <4>goes, GotoStep DEF Steps
    <3>4. CASE goal = "list"
      <4>goes. Following(r, goal)
        BY <1>1, <2>0, <2>1, <3>2, <3>4, <3>7 DEF Following, Path, NotYet, Added, Base!Removing
      <4> QED  BY <1>1, <2>0, <2>1, <3>2, <3>4, <3>7, <4>goes, GotoStep DEF Steps
    <3>5. CASE goal = "pick"
      <4>goes. Following(r, goal)
        BY <1>1, <2>0, <2>1, <3>2, <3>5, <3>7 DEF Following, Path, NotYet, Added, Base!Removing
      <4> QED  BY <1>1, <2>0, <2>1, <3>2, <3>5, <3>7, <4>goes, GotoStep DEF Steps
    <3>6. CASE goal = "idle"
      <4>goes. Following(r, goal)
        BY <1>1, <2>0, <2>1, <3>2, <3>6, <3>7 DEF Following, Path, NotYet, Added, Base!Removing
      <4> QED  BY <1>1, <2>0, <2>1, <3>2, <3>6, <3>7, <4>goes, GotoStep DEF Steps
    <3> QED  BY <3>2, <3>3, <3>4, <3>5, <3>6
  <2>3. CASE Base!There(t.file)
    <3> DEFINE a == IF t.in = "kb" THEN "own"
                    ELSE IF t.kind = "content" THEN "dropOwn" ELSE "write"
               b == IF t.in = "kb" THEN row[t.file].content ELSE t.text
               d == {t.text}
               w == [t EXCEPT !.pc = a, !.text = b, !.docs = d]
    <3>0. t.text \in Texts /\ a \in Steps
      BY <1>1, <2>0 DEF Steps
    <3>1. a \in Steps /\ b \in Texts /\ d \in Chunks
      BY <1>1, <1>2, <2>0, <2>3, <3>0, Basics, RowShape
    <3>2. req' = [req EXCEPT ![r].pc = a, ![r].text = b, ![r].docs = d]
      BY <1>3, <2>3 DEF Base!Read
    <3>4. d # {} /\ a \in {"own", "dropOwn", "write"}
      OBVIOUS
    <3>5. t.pc = "read" /\ t \in Serving
      BY <1>1, <2>0
    <3> HIDE DEF a, b, d
    <3>3. req' = [req EXCEPT ![r] = w]
      BY <1>2, <3>2
    <3>6. w \in Serving /\ w.pc = a /\ w.kind = t.kind /\ w.docs = d /\ w.olds = t.olds
          /\ w.in = t.in /\ w.ok = t.ok /\ w.file = t.file
      BY <3>1, <3>5 DEF Serving
    <3> HIDE DEF w, t
    <3>7. Path(w) /\ (NotYet(w) => NotYet(t)) /\ ~Added(w)
      BY <1>1, <3>4, <3>5, <3>6 DEF Path, NotYet, Added
    <3> QED  BY <2>0, <2>1, <3>3, <3>5, <3>6, <3>7, StepIs DEF t
  <2> QED  BY <2>2, <2>3
<1>4. CASE Base!ReadFails(r)
  <2> USE <1>4 DEF Base!ReadFails
  <2> DEFINE w == [t EXCEPT !.pc = "status", !.ok = FALSE]
  <2>1. Stored' /\ vectors' = vectors
    BY StoresStay
  <2>2. t.pc = "read" /\ t \in Serving /\ t.in = "own"
    BY <1>1
  <2>3. req' = [req EXCEPT ![r] = w]
    BY <1>2
  <2>4. "status" \in Steps
    BY DEF Steps
  <2>5. w \in Serving /\ w.pc = "status" /\ w.kind = t.kind /\ w.olds = t.olds /\ w.in = t.in
        /\ w.ok = FALSE /\ w.file = t.file
    BY <2>2, <2>4 DEF Serving
  <2> HIDE DEF w, t
  <2>6. Path(w) /\ (NotYet(w) => NotYet(t)) /\ ~Added(w)
    BY <1>1, <2>2, <2>5 DEF Path, NotYet, Added
  <2> QED  BY <2>1, <2>2, <2>3, <2>5, <2>6, StepIs DEF t
<1>5. CASE Base!ReadOwn(r)
  <2> USE <1>5 DEF Base!ReadOwn
  <2> DEFINE d == IF own[t.file] # {} THEN own[t.file] ELSE {t.text}
             w == [t EXCEPT !.pc = "write", !.docs = d]
  <2>1. Stored' /\ vectors' = vectors
    BY StoresStay
  <2>2. t.pc = "own" /\ t \in Serving
    BY <1>1
  <2>3. d \in Chunks /\ d # {}
    <3>1. own[t.file] \in SUBSET Contents /\ {t.text} \in Chunks
      BY <1>1, <1>2, Basics DEF KnowledgeType
    <3> QED  BY <3>1, Basics
  <2>4. req' = [req EXCEPT ![r].pc = "write", ![r].docs = d] /\ "write" \in Steps
    BY DEF Steps
  <2> HIDE DEF d
  <2>5. req' = [req EXCEPT ![r] = w]
    BY <1>2, <2>4
  <2>6. w \in Serving /\ w.pc = "write" /\ w.kind = t.kind /\ w.docs = d /\ w.olds = t.olds
        /\ w.in = t.in /\ w.file = t.file
    BY <2>2, <2>3, <2>4 DEF Serving
  <2> HIDE DEF w, t
  <2>7. Path(w) /\ (NotYet(w) => NotYet(t)) /\ ~Added(w)
    BY <1>1, <2>2, <2>3, <2>6 DEF Path, NotYet, Added
  <2> QED  BY <2>1, <2>2, <2>5, <2>6, <2>7, StepIs DEF t
<1>6. CASE Base!Check(r)
  <2> USE <1>6 DEF Base!Check
  <2>1. Stored' /\ vectors' = vectors
    BY StoresStay
  <2>2. t.pc = "check" /\ t \in Serving
    BY <1>1
  <2>3. PICK a \in {"status", "insert"}, b \in BOOLEAN :
          /\ req' = [req EXCEPT ![r].pc = a, ![r].ok = b]
          /\ a = "insert" => t.docs # {Blank}
          /\ a = "status" => ~b \/ t.in = "own"
    <3>1. CASE req' = [req EXCEPT ![r].pc = "status", ![r].ok = FALSE]
      BY <3>1
    <3>2. CASE /\ t.docs # {Blank}
               /\ req' = [req EXCEPT ![r].ok = TRUE,
                     ![r].pc = IF t.in = "own" /\ own[t.file] # {} THEN "status" ELSE "insert"]
      <4> DEFINE a == IF t.in = "own" /\ own[t.file] # {} THEN "status" ELSE "insert"
      <4>1. [req EXCEPT ![r].ok = TRUE, ![r].pc = a] = [req EXCEPT ![r].pc = a, ![r].ok = TRUE]
        BY <1>2, <2>2, ZenonT(60) DEF Serving
      <4> QED  BY <3>2, <4>1
    <3> QED  BY <3>1, <3>2
  <2> DEFINE w == [t EXCEPT !.pc = a, !.ok = b]
  <2>4. req' = [req EXCEPT ![r] = w]
    BY <1>2, <2>3
  <2>5. a \in Steps
    BY DEF Steps
  <2>6. w \in Serving /\ w.pc = a /\ w.kind = t.kind /\ w.docs = t.docs /\ w.olds = t.olds
        /\ w.in = t.in /\ w.file = t.file /\ w.ok = b
    BY <2>2, <2>5 DEF Serving
  <2>7. a = "insert" => t.docs # {} /\ Blank \notin t.docs
    BY <1>1, <2>2, <2>3, Basics DEF Path
  <2> HIDE DEF w, t
  <2>8. Path(w) /\ (NotYet(w) => NotYet(t)) /\ ~Added(w)
    BY <1>1, <2>2, <2>3, <2>6, <2>7 DEF Path, NotYet, Added
  <2> QED  BY <2>1, <2>2, <2>4, <2>6, <2>8, StepIs DEF t
<1>7. CASE Base!Link(r)
  <2> USE <1>7 DEF Base!Link
  <2>1. Stored' /\ vectors' = vectors
    BY <1>1 DEF KnowledgeInv, KnowledgeType, Stored
  <2>2. CASE t.kind # "upload"
    BY <1>1, <2>1, <2>2, GotoStep DEF Following
  <2>3. CASE t.kind = "upload"
    <3> DEFINE w == [t EXCEPT !.pc = "read", !.in = "kb"]
    <3>1. t.pc = "link" /\ t \in Serving
      BY <1>1
    <3>2. req' = [req EXCEPT ![r] = w]
      BY <1>2, <2>3
    <3>3. "read" \in Steps
      BY DEF Steps
    <3>4. w \in Serving /\ w.pc = "read" /\ w.kind = t.kind /\ w.olds = t.olds /\ w.file = t.file
      BY <3>1, <3>3 DEF Serving
    <3> HIDE DEF w, t
    <3>5. Path(w) /\ ~NotYet(w) /\ ~Added(w)
      BY <1>1, <2>3, <3>1, <3>4 DEF Path, NotYet, Added, Base!Edits
    <3> QED  BY <2>1, <3>1, <3>2, <3>4, <3>5, StepIs DEF t
  <2> QED  BY <2>2, <2>3
<1>8. CASE Base!Pick(r)
  <2> USE <1>8 DEF Base!Pick
  <2>1. Stored' /\ vectors' = vectors
    BY StoresStay
  <2>2. CASE Base!Goto(r, "idle")
    BY <1>1, <2>1, <2>2, GotoStep DEF Following
  <2>3. ASSUME NEW f \in t.left,
               req' = [req EXCEPT ![r].pc = "read", ![r].file = f, ![r].left = @ \ {f}]
        PROVE  KnowledgeInv'
    <3> DEFINE rest == t.left \ {f}
               w == [t EXCEPT !.pc = "read", !.file = f, !.left = rest]
    <3>1. t.pc = "pick" /\ t \in Serving /\ t.kind \in Base!Removing
      BY <1>1 DEF Path
    <3>2. "read" \in Steps /\ f \in Files /\ rest \in SUBSET Files
      BY <1>1, <2>3 DEF Steps
    <3>3. req' = [req EXCEPT ![r].pc = "read", ![r].file = f, ![r].left = rest]
      BY <1>2, <2>3
    <3> HIDE DEF rest
    <3>4. req' = [req EXCEPT ![r] = w]
      BY <1>2, <3>3
    <3>5. w \in Serving /\ w.pc = "read" /\ w.kind = t.kind /\ w.olds = t.olds
      BY <3>1, <3>2 DEF Serving
    <3> HIDE DEF w, t
    <3>6. Path(w) /\ ~NotYet(w) /\ ~Added(w)
      BY <1>1, <3>1, <3>5 DEF Path, NotYet, Added, Base!Removing, Base!Edits
    <3> QED  BY <2>1, <3>1, <3>4, <3>5, <3>6, StepIs DEF t
  <2> QED  BY <2>2, <2>3
<1> QED  BY <1>3, <1>4, <1>5, <1>6, <1>7, <1>8

\* New entries: of a file that is processed for the knowledge base, or in a batch.
LEMMA InsertKeeps ==
  ASSUME KnowledgeInv, NEW r \in Requests, Base!Insert(r) \/ Base!BatchInsert(r)
  PROVE  KnowledgeInv'
<1> USE DEF Base!At, Base!File
<1> DEFINE t == req[r]
<1>1. /\ t.pc # "idle" /\ Path(t) /\ t \in Serving /\ t.file \in Files /\ t.text \in Texts
      /\ t.docs \in Chunks /\ t.olds \in SUBSET Entries /\ t.kind \in Base!AllKinds
      /\ t.in \in {"own", "kb"}
  BY RequestShape DEF KnowledgeInv, Paths, Base!Insert, Base!BatchInsert
<1>2. req \in [Requests -> Resting \cup Serving] /\ KnowledgeType /\ Stored
  BY DEF KnowledgeInv, KnowledgeType, Stored
\* What a step that adds entries leaves.
<1>3. ASSUME NEW goal \in {"status", "batchRow"}, Base!Goto(r, goal), NEW N \in SUBSET Entries,
             vectors' = vectors \cup N, \A e \in N : e.by = r, UNCHANGED <<row, linked, own>>,
             Base!Works, goal = "batchRow" => t.kind = "batch",
             goal = "status" =>
               t.pc = "insert" /\ t.in = "kb" /\ N # {} /\ \A e \in N : e.of = t.file
      PROVE  KnowledgeInv'
  <2> DEFINE w == Then(t, goal)
  <2>1. req' = [req EXCEPT ![r] = w]
    BY <1>2, <1>3, GotoIs
  <2>2. goal \in Steps /\ goal # "idle"
    BY DEF Steps
  <2>3. /\ w \in Serving /\ w.kind = t.kind /\ w.pc = goal /\ w.file = t.file /\ w.in = t.in
        /\ w.docs = t.docs /\ w.ok = t.ok /\ w.olds = t.olds
    BY <1>1, <2>2, ThenShape
  <2> HIDE DEF w, t
  <2>4. Path(w)
    BY <1>1, <1>3, <2>3 DEF Path
  <2>5. ~NotYet(w)
    BY <1>1, <1>3, <2>3 DEF NotYet, Base!AllKinds, Base!Edits
  <2>6. Added(w) => /\ NotYet(t) /\ N # {} /\ \A e \in N : e.of = w.file
                    /\ \A e \in w.olds : e.of = w.file
    BY <1>1, <1>3, <2>3 DEF Added, NotYet, Path
  <2>7. Paths' /\ Fresh' /\ Lasting'
    BY <1>1, <1>3, <2>1, <2>3, <2>4, <2>5, <2>6, AddKeeps DEF t
  <2>8. calm' \in BOOLEAN /\ faults' \in 0..MaxFaults
    BY <1>2, <1>3, Effects
  <2>9. req' \in [Requests -> Resting \cup Serving]
    BY <1>2, <2>1, <2>3
  <2>10. vectors' \subseteq Entries
    BY <1>2, <1>3 DEF KnowledgeType
  <2> QED  BY <1>2, <1>3, <2>7, <2>8, <2>9, <2>10 DEF KnowledgeInv, KnowledgeType
<1>4. CASE Base!Insert(r)
  <2> USE <1>4 DEF Base!Insert
  <2>0. ~(Base!Works /\ Base!Fails)
    <3>1. faults \in Nat
      BY <1>2, KnowledgeAssumption DEF KnowledgeType
    <3> QED  BY <3>1 DEF Base!Works, Base!Fails
  <2>1. t.pc = "insert" /\ t.docs \in SUBSET Contents /\ t.docs # {}
    BY <1>1, Basics DEF Path
  <2>2. CASE Base!Works /\ t.in = "own"
    <3>1. Base!Goto(r, "status") /\ vectors' = vectors
      BY <2>0, <2>2
    <3>2. Stored'
      BY <1>1, <1>2, <2>0, <2>1, <2>2 DEF Stored
    <3>3. "status" \in Steps
      BY DEF Steps
    <3>goes. Following(r, "status")
      BY <1>1, <2>1, <2>2, <3>1, <3>2, <3>3 DEF Following, Path, NotYet, Added
    <3> QED  BY <1>1, <2>1, <2>2, <3>1, <3>2, <3>3, <3>goes, GotoStep DEF Steps
  <2>3. CASE Base!Works /\ t.in = "kb"
    <3> DEFINE N == {Base!Entry(t.file, r, x, t.text) : x \in t.docs}
    <3>1. Base!Goto(r, "status") /\ vectors' = vectors \cup N /\ UNCHANGED <<row, linked, own>>
      BY <2>0, <2>3
    <3>2. \A e \in N : e.by = r /\ e.of = t.file
      BY DEF Base!Entry
    <3>3. N \in SUBSET Entries /\ N # {}
      <4>1. \A x \in t.docs : Base!Entry(t.file, r, x, t.text) \in Entries
        BY <1>1, <2>1, Basics DEF Base!Entry, Entries
      <4> QED  BY <2>1, <4>1
    <3> HIDE DEF N
    <3> QED  BY <1>3, <2>1, <2>3, <3>1, <3>2, <3>3
  <2>4. CASE /\ Base!Fails /\ req' = [req EXCEPT ![r].pc = "status", ![r].ok = FALSE]
             /\ UNCHANGED <<row, linked, own, vectors>>
    <3> DEFINE w == [t EXCEPT !.pc = "status", !.ok = FALSE]
    <3>1. req' = [req EXCEPT ![r] = w] /\ "status" \in Steps
      BY <1>2, <2>4 DEF Steps
    <3>2. w \in Serving /\ w.pc = "status" /\ w.kind = t.kind /\ w.olds = t.olds /\ w.in = t.in
          /\ w.ok = FALSE /\ w.file = t.file
      BY <1>1, <3>1 DEF Serving
    <3>3. Stored'
      BY <1>2, <2>4 DEF Stored
    <3> HIDE DEF w, t
    <3>4. Path(w) /\ (NotYet(w) => NotYet(t)) /\ ~Added(w)
      BY <1>1, <2>1, <3>2 DEF Path, NotYet, Added
    <3> QED  BY <1>1, <2>4, <3>1, <3>2, <3>3, <3>4, StepIs DEF t
  <2> QED  BY <1>1, <2>2, <2>3, <2>4
<1>5. CASE Base!BatchInsert(r)
  <2> USE <1>5 DEF Base!BatchInsert
  <2>1. t.kind = "batch"
    BY <1>1 DEF Path
  <2>2. CASE Base!Goto(r, "batchRow") /\ Base!Works /\ t.text # Blank
             /\ vectors' = vectors \cup {Base!Entry(t.file, r, t.text, Blank)}
    <3> DEFINE N == {Base!Entry(t.file, r, t.text, Blank)}
    <3>1. \A e \in N : e.by = r
      BY DEF Base!Entry
    <3>2. N \in SUBSET Entries
      BY <1>1, <2>2, Basics DEF Base!Entry, Entries, Texts
    <3> HIDE DEF N
    <3>3. vectors' = vectors \cup N
      BY <2>2 DEF N
    <3> QED  BY <1>3, <2>1, <2>2, <3>1, <3>2, <3>3
  <2>3. CASE Base!Goto(r, "idle") /\ UNCHANGED vectors
    <3>1. Stored' /\ (Base!Works \/ Base!Fails)
      BY <1>2 DEF Stored
    <3> QED  BY <1>1, <2>3, <3>1, GotoStep DEF Following
  <2> QED  BY <2>2, <2>3
<1> QED  BY <1>4, <1>5

\* An update lists the entries that it will sweep before it adds its own.
LEMMA ReadOldsKeeps ==
  ASSUME KnowledgeInv, NEW r \in Requests, Base!ReadOlds(r)
  PROVE  KnowledgeInv'
<1> USE DEF Base!At, Base!File, Base!ReadOlds
<1> DEFINE t == req[r]
           o == Base!Of(t.file)
           w == [t EXCEPT !.pc = "read", !.in = "kb", !.olds = o]
<1>1. t.pc = "olds" /\ Path(t) /\ t \in Serving /\ t.file \in Files
  BY RequestShape DEF KnowledgeInv, Paths
<1>2. req \in [Requests -> Resting \cup Serving] /\ vectors \subseteq Entries
  BY DEF KnowledgeInv, KnowledgeType
<1>3. o \in SUBSET Entries /\ o \subseteq vectors /\ \A e \in o : e.of = t.file
  BY <1>2 DEF Base!Of
<1>4. req' = [req EXCEPT ![r].pc = "read", ![r].in = "kb", ![r].olds = o] /\ "read" \in Steps
  BY DEF Steps
<1> HIDE DEF o
<1>5. req' = [req EXCEPT ![r] = w]
  BY <1>2, <1>4
<1>6. w \in Serving /\ w.pc = "read" /\ w.in = "kb" /\ w.kind = t.kind /\ w.olds = o
      /\ w.file = t.file
  BY <1>1, <1>3, <1>4 DEF Serving
<1>7. Stored' /\ vectors' = vectors /\ calm' \in BOOLEAN /\ faults' \in 0..MaxFaults
  BY StoresStay, Effects DEF KnowledgeInv
<1> HIDE DEF w
<1>8. req'[r] = w /\ \A q \in Requests \ {r} : req'[q] = req[q]
  BY <1>2, <1>5
<1>9. Path(w) /\ NotYet(t) /\ ~Added(w)
  BY <1>1, <1>3, <1>6 DEF Path, NotYet, Added
<1>10. Paths'
  BY <1>8, <1>9 DEF Paths, KnowledgeInv
<1>11. Fresh'
  <2>1. \A q \in Requests : NotYet(req'[q]) => NotYet(req[q])
    BY <1>8, <1>9
  <2>2. \A q \in Requests : req'[q].pc # "idle" =>
           \/ req'[q].olds \subseteq vectors
           \/ req[q].pc # "idle" /\ req'[q].olds = req[q].olds
    BY <1>3, <1>6, <1>8
  <2>3. \A q \in Requests : NotYet(req'[q]) => \A e \in vectors' : e.by # q
    BY <1>7, <2>1 DEF Fresh, KnowledgeInv
  <2>4. \A q, p \in Requests : NotYet(req'[q]) /\ req'[p].pc # "idle" =>
            \A e \in req'[p].olds : e.by # q
    BY <2>1, <2>2 DEF Fresh, KnowledgeInv
  <2> QED  BY <2>3, <2>4 DEF Fresh
<1>12. Lasting'
  <2>1. \A q \in Requests : req'[q].kind = req[q].kind
    BY <1>6, <1>8
  <2>2. \A q \in Requests : Added(req'[q]) => Added(req[q]) /\ req'[q].olds = req[q].olds
    BY <1>8, <1>9
  <2> SUFFICES ASSUME \A q \in Requests : req'[q].kind \notin Base!Removing, NEW f \in Listed
               PROVE  \E e \in vectors' :
                        e.of = f /\ \A q \in Requests : Added(req'[q]) => e \notin req'[q].olds
    BY DEF Lasting
  <2>3. PICK e \in vectors : e.of = f /\ \A q \in Requests : Added(req[q]) => e \notin req[q].olds
    BY <2>1 DEF Lasting, KnowledgeInv
  <2> QED  BY <1>7, <2>2, <2>3
<1>13. req' \in [Requests -> Resting \cup Serving]
  BY <1>2, <1>5, <1>6
<1> QED  BY <1>2, <1>7, <1>10, <1>11, <1>12, <1>13 DEF KnowledgeInv, KnowledgeType, Stored
-----------------------------------------------------------------------------
LEMMA NextKnowledge ==
  ASSUME KnowledgeInv, Base!Next
  PROVE  KnowledgeInv'
<1>1. \A r \in Requests, f \in Files, c \in Contents :
        \/ Base!Add(r, f) \/ Base!Batch(r, f) \/ Base!Readd(r, f) \/ Base!Remove(r, f)
        \/ Base!Delete(r, f) \/ Base!Upload(r, f, c) \/ Base!UpdateContent(r, f, c)
        => KnowledgeInv'
  BY BeginKeeps
<1>2. \A r \in Requests : Base!Reset(r) \/ Base!Reindex(r) => KnowledgeInv'
  BY KnowledgeAssumption, BeginKeeps
<1>3. \A r \in Requests :
        \/ Base!DropOwn(r) \/ Base!Write(r) \/ Base!WriteStatus(r) \/ Base!WriteHash(r)
        \/ Base!BatchRow(r) \/ Base!ListBases(r) \/ Base!Sweep(r) \/ Base!Clear(r)
        \/ Base!Unlink(r) \/ Base!DropFile(r) \/ Base!DropHash(r) \/ Base!DiscardOwn(r)
        \/ Base!DeleteRow(r) \/ Base!DropRest(r) \/ Base!DropIndex(r) \/ Base!UnlinkAll(r)
        \/ Base!Die(r)
        => KnowledgeInv'
  BY RouteKeeps
<1>4. \A r \in Requests :
        \/ Base!Read(r) \/ Base!ReadFails(r) \/ Base!ReadOwn(r) \/ Base!Check(r)
        \/ Base!Link(r) \/ Base!Pick(r)
        => KnowledgeInv'
  BY HoldKeeps
<1>5. \A r \in Requests : Base!Insert(r) \/ Base!BatchInsert(r) \/ Base!ReadOlds(r)
        => KnowledgeInv'
  BY InsertKeeps, ReadOldsKeeps
<1>6. Contents # {}
  BY KnowledgeAssumption
<1> QED  BY <1>1, <1>2, <1>3, <1>4, <1>5, <1>6 DEF Base!Next, Requests

\* What does not move keeps the invariant.
LEMMA KnowledgeStays ==
  ASSUME KnowledgeInv, UNCHANGED knowledge
  PROVE  KnowledgeInv'
<1> USE DEF knowledge
<1>1. KnowledgeType'
  BY DEF KnowledgeInv, KnowledgeType
<1>2. Paths'
  BY DEF KnowledgeInv, Paths
<1>3. Fresh'
  BY DEF KnowledgeInv, Fresh
<1>4. Lasting'
  BY DEF KnowledgeInv, Lasting
<1> QED  BY <1>1, <1>2, <1>3, <1>4 DEF KnowledgeInv

LEMMA KnowledgeHolds == DocumentsSpec => []KnowledgeInv
<1>1. DocumentsInit => KnowledgeInv
  BY InitKnowledge DEF DocumentsInit
<1>2. KnowledgeInv /\ [DocumentsNext]_<<part, vars, knowledge>> => KnowledgeInv'
  <2>1. ASSUME KnowledgeInv, DocumentsNext PROVE KnowledgeInv'
    BY <2>1, NextKnowledge, KnowledgeStays DEF DocumentsNext
  <2>2. ASSUME KnowledgeInv, UNCHANGED <<part, vars, knowledge>> PROVE KnowledgeInv'
    BY <2>2, KnowledgeStays
  <2> QED  BY <2>1, <2>2
<1> QED  BY <1>1, <1>2, PTL DEF DocumentsSpec

LEMMA KnowledgeTyped == KnowledgeInv => Base!TypeOK
<1> SUFFICES ASSUME KnowledgeInv PROVE Base!TypeOK
  OBVIOUS
<1>1. row \in [Files -> {Base!Unborn, Base!Gone} \cup
          {Base!Row(c, h, s) : c \in Contents \cup {Blank}, h \in Contents \cup {Blank},
                               s \in {"pending", "completed", "failed"}}]
  BY DEF KnowledgeInv, KnowledgeType, Rows, Texts
<1>2. \A e \in vectors : /\ e.of \in Files /\ e.by \in 0..MaxRequests
                         /\ e.text \in Contents /\ e.hash \in Contents \cup {Blank}
  BY DEF KnowledgeInv, KnowledgeType, Entries, Texts
<1>3. \A r \in Base!Requests : req[r].kind \in Base!AllKinds \cup {"none"}
  BY RequestShape DEF KnowledgeInv, Requests
<1>4. /\ linked \subseteq Files /\ own \in [Files -> SUBSET Contents]
      /\ calm \in BOOLEAN /\ faults \in 0..MaxFaults
  BY DEF KnowledgeInv, KnowledgeType
<1> QED  BY <1>1, <1>2, <1>3, <1>4 DEF Base!TypeOK
-----------------------------------------------------------------------------
(* While no request removes anything, a file of the knowledge base always  *)
(* has an entry: an update of the content sweeps only what was there       *)
(* before it had added its own (update_file_data_content_by_id), so of two *)
(* updates at the same time, and with faults and deaths in any step,       *)
(* neither takes the entries of the one that added last.                   *)
THEOREM FilesStaySearchable == DocumentsSpec => []UsableWhileUpdated
<1>1. KnowledgeInv => UsableWhileUpdated
  BY DEF KnowledgeInv, Lasting, UsableWhileUpdated, Base!UsableWhileUpdated, Base!Of, Requests
<1> QED  BY <1>1, KnowledgeHolds, PTL

(* The note and the knowledge base keep their types.                       *)
THEOREM DocumentsAreTyped == DocumentsSpec => []DocumentsTypeOK
<1>1. DocumentsSpec => []TypeOK
  <2>1. DocumentsInit => TypeOK
    BY InitRoomInv DEF RoomInv, DocumentsInit
  <2>2. TypeOK /\ [DocumentsNext]_<<part, vars, knowledge>> => TypeOK'
    <3>1. [DocumentsNext]_<<part, vars, knowledge>> => [Next]_vars
      BY DEF DocumentsNext
    <3> QED  BY <3>1, TypeStep
  <2> QED  BY <2>1, <2>2, PTL DEF DocumentsSpec
<1>2. KnowledgeInv /\ TypeOK => DocumentsTypeOK
  BY KnowledgeTyped DEF DocumentsTypeOK
<1> QED  BY <1>1, <1>2, KnowledgeHolds, PTL
-----------------------------------------------------------------------------
(* Requests one after the other.  What follows holds while no two requests *)
(* overlapped and none failed or was of a spoiling kind: at rest every     *)
(* file is Shown, and the one request that runs is at a Stage of its path  *)
(* from such a state to the next.  R, L, O and V are the rows, the linked  *)
(* files, their own collections and the collection of the knowledge base.  *)

Lives(R, f) == R[f].is = "there"
EntriesOf(V, f) == {e \in V : e.of = f}
TextsOf(V, f) == {e.text : e \in EntriesOf(V, f)}

\* A file's row, its link and its own collection fit together.
Fitting(f, R, L, O) ==
    /\ f \in L => Lives(R, f)
    /\ Lives(R, f) => O[f] \subseteq {R[f].content}
    /\ R[f] = Base!Unborn => O[f] = {}

\* No text is there of two files.
Distinct(V) ==
    /\ \A e \in V : e.hash = e.text
    /\ \A e, d \in V : e.text = d.text => e.of = d.of

Tidy(R, L, O, V) == Distinct(V) /\ \A f \in Files : Fitting(f, R, L, O)

\* What the collection is to hold of a file.
Shown(f, R, L, V) ==
    /\ f \notin L => EntriesOf(V, f) = {}
    /\ f \in L /\ (R[f].status = "completed" \/ R[f].hash # Blank) =>
           R[f].hash = R[f].content /\ TextsOf(V, f) = {R[f].content}
AllShown(R, L, V) == \A f \in Files : Shown(f, R, L, V)

\* No other file has an entry with this hash.
Sole(f, h, V) == h # Blank => \A e \in V : e.hash = h => e.of = f

\* process_file for the file itself, and on to its knowledge bases.
InOwn(t) == t.in = "own" /\ t.pc \in {"read", "dropOwn", "write", "check", "insert", "status",
                                      "hash", "link", "list", "olds"}
OwnStage(t, R, L, O, V) ==
    /\ t.kind \in {"attach", "upload", "content"} /\ Lives(R, t.file) /\ t.text \in Contents
    /\ t.kind # "content" => t.file \notin L
    /\ t.file \notin L => EntriesOf(V, t.file) = {}
    /\ t.pc = "read" /\ t.kind # "content" => O[t.file] = {}
    /\ t.pc \in {"dropOwn", "write", "check", "insert"} => t.docs = {t.text}
    /\ t.pc \in {"write", "check", "insert"} => O[t.file] = {}
    /\ t.pc \in {"check", "insert", "status", "hash"} => R[t.file].content = t.text
    /\ t.pc \in {"insert", "status", "hash", "link"} => t.ok
    /\ t.pc \in {"dropOwn", "list", "olds"} => t.kind = "content"
    /\ t.pc = "olds" => t.file \in L
    /\ t.pc = "link" => t.kind = "upload"

\* process_file for the knowledge base, up to the new entries ...
InBase(t) == t.in = "kb" /\ t.pc \in {"read", "own", "write", "check", "insert"}
Serves == {"add", "upload", "readd", "reindex", "content"}
BaseStage(t, R, L, O, V) ==
    /\ t.kind \in Serves /\ Lives(R, t.file)
    /\ t.file \notin L => t.kind = "add" /\ EntriesOf(V, t.file) = {}
    /\ \A e \in EntriesOf(V, t.file) : e \in t.olds \/ e.text = R[t.file].content
    /\ t.pc # "read" => t.text = R[t.file].content
    /\ t.pc \in {"write", "check", "insert"} => t.docs = {t.text}
    /\ t.pc = "insert" => t.ok /\ t.text # Blank /\ Sole(t.file, t.text, V)

\* ... and from there.
InDone(t) == t.in = "kb" /\ t.pc \in {"status", "hash", "sweep", "link"}
DoneStage(t, R, L, O, V) ==
    /\ t.kind \in Serves /\ Lives(R, t.file) /\ R[t.file].content = t.text
    /\ t.file \notin L => t.kind = "add" /\ (~t.ok => EntriesOf(V, t.file) = {})
    /\ t.ok => {e.text : e \in EntriesOf(V, t.file) \ t.olds} = {t.text}
    /\ t.pc = "hash" => R[t.file].status = IF t.ok THEN "completed" ELSE "failed"
    /\ t.pc \in {"sweep", "link"} =>
           t.ok /\ R[t.file].status = "completed" /\ R[t.file].hash = t.text
    /\ t.pc = "link" => t.kind = "add"

\* A file on its way out.
InLeave(t) == t.pc \in {"unlink", "dropFile", "dropHash", "discardOwn", "deleteRow", "dropRest"}
LeaveStage(t, L, V) ==
    /\ t.kind \in {"remove", "discard", "delete"}
    /\ t.pc \in {"unlink", "dropFile", "dropHash"} => Sole(t.file, t.hash, V)
    /\ t.pc # "unlink" => t.file \notin L
    /\ t.pc \notin {"unlink", "dropFile"} => EntriesOf(V, t.file) = {}

\* The whole knowledge base.
InWhole(t) == t.pc \in {"dropIndex", "unlinkAll", "pick"}
WholeStage(t, L, V) ==
    /\ t.kind \in {"reset", "reindex"} /\ t.in = "kb"
    /\ t.pc = "dropIndex" /\ t.kind = "reindex" => t.left = L
    /\ t.pc = "unlinkAll" => V = {}
    /\ t.pc = "pick" => t.kind = "reindex"

\* The files that need not be shown, and what is true of the others.
Away(t) == IF t.pc = "dropIndex" THEN {} ELSE IF t.pc = "unlinkAll" THEN Files
           ELSE IF t.pc = "pick" THEN t.left ELSE t.left \cup {t.file}
Others(t, R, L, V) ==
    /\ \A g \in Files \ Away(t) : Shown(g, R, L, V)
    /\ t.kind # "reindex" => t.left = {}
    /\ t.kind # "content" => t.olds = {}
    /\ t.pc # "dropIndex" => t.left \subseteq L /\ \A g \in t.left : EntriesOf(V, g) = {}
    /\ ~InWhole(t) => t.file \notin t.left

Stage(t, R, L, O, V) ==
    /\ Others(t, R, L, V)
    /\ InOwn(t) => OwnStage(t, R, L, O, V)
    /\ InBase(t) => BaseStage(t, R, L, O, V)
    /\ InDone(t) => DoneStage(t, R, L, O, V)
    /\ InLeave(t) => LeaveStage(t, L, V)
    /\ InWhole(t) => WholeStage(t, L, V)
    /\ t.pc = "clear" => t.kind = "readd" /\ t.file \in L
    /\ t.pc \in {"dropOwn", "list", "olds"} => t.in = "own"
    /\ t.pc \in {"own", "clear", "sweep"} => t.in = "kb"

Plain == \A r \in Requests : req[r].kind \notin Base!Spoiling
CalmInv ==
    calm /\ Plain =>
        /\ \A r, q \in Requests : req[r].pc # "idle" /\ req[q].pc # "idle" => r = q
        /\ Tidy(row, linked, own, vectors)
        /\ Base!Quiet => AllShown(row, linked, vectors)
        /\ \A r \in Requests : req[r].pc # "idle" => Stage(req[r], row, linked, own, vectors)
-----------------------------------------------------------------------------
\* What a step of the running request has to show.
Arrives(w, R, L, O, V) ==
    Tidy(R, L, O, V) /\ IF w.pc = "idle" THEN AllShown(R, L, V) ELSE Stage(w, R, L, O, V)

LEMMA CalmStep ==
  ASSUME KnowledgeType, CalmInv, NEW r \in Requests, req[r].pc # "idle",
         NEW w \in Resting \cup Serving, req' = [req EXCEPT ![r] = w], w.kind = req[r].kind,
         calm' => calm,
         /\ calm /\ Tidy(row, linked, own, vectors) /\ Stage(req[r], row, linked, own, vectors)
         /\ req[r].kind \notin Base!Spoiling
         => Arrives(w, row', linked', own', vectors')
  PROVE  CalmInv'
<1> SUFFICES ASSUME calm', Plain' PROVE CalmInv'
  BY DEF CalmInv
<1>1. req'[r] = w /\ \A q \in Requests \ {r} : req'[q] = req[q]
  BY DEF KnowledgeType
<1>2. \A q \in Requests : req[q].kind = req'[q].kind
  BY <1>1
<1>3. Plain
  BY <1>2 DEF Plain
<1>4. /\ \A q \in Requests \ {r} : req[q].pc = "idle"
      /\ Tidy(row, linked, own, vectors) /\ Stage(req[r], row, linked, own, vectors)
  BY <1>3 DEF CalmInv
<1>5. Arrives(w, row', linked', own', vectors')
  BY <1>3, <1>4 DEF Plain
<1>6. Tidy(row', linked', own', vectors')
  BY <1>5 DEF Arrives
<1>7. Base!Quiet' => AllShown(row', linked', vectors')
  <2>1. Base!Quiet' => w.pc = "idle"
    BY <1>1 DEF Base!Quiet, Base!Over, Requests
  <2> QED  BY <1>5, <2>1 DEF Arrives
<1>8. \A q \in Requests : req'[q].pc # "idle" =>
         q = r /\ Stage(req'[q], row', linked', own', vectors')
  BY <1>1, <1>4, <1>5 DEF Arrives
<1> QED  BY <1>6, <1>7, <1>8 DEF CalmInv

LEMMA CalmBegin ==
  ASSUME KnowledgeType, CalmInv, NEW r \in Requests, NEW kind, NEW f \in Files, NEW first \in Steps,
         NEW in, NEW text, Base!Begin(r, kind, f, first, in, text),
         \A w : /\ w.kind = kind /\ w.pc = first /\ w.file = f /\ w.in = in /\ w.text = text
                /\ w.hash = (IF Lives(row, f) THEN row[f].hash ELSE Blank)
                /\ w.olds = {}
                /\ w.left = (IF kind = "reindex" THEN {g \in linked : Base!There(g)} ELSE {})
                /\ Tidy(row, linked, own, vectors) /\ AllShown(row, linked, vectors)
                /\ kind \notin Base!Spoiling
                => Tidy(row', linked', own', vectors')
                   /\ Stage(w, row', linked', own', vectors')
  PROVE  CalmInv'
<1> SUFFICES ASSUME calm', Plain' PROVE CalmInv'
  BY DEF CalmInv
<1> DEFINE w == [kind |-> kind, pc |-> first, file |-> f, in |-> in, text |-> text, docs |-> {},
                 hash |-> IF Base!There(f) THEN row[f].hash ELSE Blank,
                 ok |-> FALSE, olds |-> {},
                 left |-> IF kind = "reindex" THEN {g \in linked : Base!There(g)} ELSE {}]
<1>1. /\ req' = [req EXCEPT ![r] = w] /\ calm /\ Base!Quiet /\ req[r].kind = "none"
  BY DEF Base!Begin, Base!MayStart, Base!Upcoming, Base!Started
<1>2. /\ w.kind = kind /\ w.pc = first /\ w.file = f /\ w.in = in /\ w.text = text
      /\ w.hash = (IF Lives(row, f) THEN row[f].hash ELSE Blank) /\ w.olds = {}
      /\ w.left = (IF kind = "reindex" THEN {g \in linked : Base!There(g)} ELSE {})
      /\ first # "idle"
  BY DEF Lives, Base!There, Steps
<1> HIDE DEF w
<1>3. req'[r] = w /\ \A q \in Requests \ {r} : req'[q] = req[q]
  BY <1>1 DEF KnowledgeType
<1>4. kind \notin Base!Spoiling
  BY <1>2, <1>3 DEF Plain
<1>5. Plain
  <2>1. "none" \notin Base!Spoiling
    BY DEF Base!Spoiling
  <2> QED  BY <1>1, <1>3, <2>1 DEF Plain
<1>6. Tidy(row, linked, own, vectors) /\ AllShown(row, linked, vectors)
  BY <1>1, <1>5 DEF CalmInv
<1>7. Tidy(row', linked', own', vectors') /\ Stage(w, row', linked', own', vectors')
  BY <1>2, <1>4, <1>6
<1>8. \A q \in Requests \ {r} : req'[q].pc = "idle"
  BY <1>1, <1>3 DEF Base!Quiet, Base!Over, Requests
<1>9. ~Base!Quiet'
  BY <1>2, <1>3 DEF Base!Quiet, Base!Over, Requests
<1> QED  BY <1>3, <1>7, <1>8, <1>9 DEF CalmInv
-----------------------------------------------------------------------------
(* What one file needs does not depend on the others. *)
LEMMA FittingStays ==
  ASSUME NEW g, NEW R, NEW L, NEW O, NEW R2, NEW L2, NEW O2, Fitting(g, R, L, O),
         R2[g] = R[g], g \in L2 => g \in L, O2[g] \subseteq O[g]
  PROVE  Fitting(g, R2, L2, O2)
  BY DEF Fitting, Lives

LEMMA ShownStays ==
  ASSUME NEW g, NEW R, NEW L, NEW V, NEW R2, NEW L2, NEW V2, Shown(g, R, L, V),
         R2[g] = R[g], g \in L2 <=> g \in L, EntriesOf(V2, g) = EntriesOf(V, g)
  PROVE  Shown(g, R2, L2, V2)
  BY DEF Shown, TextsOf

\* A step of a request about one file, that is still about it.
LEMMA OthersStay ==
  ASSUME NEW t, NEW w, NEW R, NEW L, NEW V, NEW R2, NEW L2, NEW V2, Others(t, R, L, V),
         w.kind = t.kind, w.file = t.file, w.left = t.left, w.olds = t.olds \/ w.kind = "content",
         ~InWhole(t), ~InWhole(w), t.left \subseteq Files,
         \A g \in Files \ {t.file} :
            R2[g] = R[g] /\ (g \in L2 <=> g \in L) /\ EntriesOf(V2, g) = EntriesOf(V, g)
  PROVE  Others(w, R2, L2, V2)
<1>1. Away(t) = t.left \cup {t.file} /\ Away(w) = t.left \cup {t.file}
      /\ w.pc # "dropIndex" /\ t.pc # "dropIndex"
  BY DEF Away, InWhole
<1>2. \A g \in Files \ Away(w) : Shown(g, R2, L2, V2)
  BY <1>1, ShownStays DEF Others
<1>3. t.file \notin t.left
  BY DEF Others
<1> QED  BY <1>1, <1>2, <1>3 DEF Others

\* A request about one file, when it has just begun ...
LEMMA OthersAtFirst ==
  ASSUME NEW w, NEW R, NEW L, NEW V, \A g \in Files \ {w.file} : Shown(g, R, L, V), ~InWhole(w),
         w.kind # "reindex", w.left = {}, w.olds = {}
  PROVE  Others(w, R, L, V)
  BY DEF Others, Away, InWhole

\* ... and when it is over.
LEMMA OthersAtLast ==
  ASSUME NEW t, NEW R, NEW L, NEW V, NEW R2, NEW L2, NEW V2, Others(t, R, L, V), ~InWhole(t),
         t.kind # "reindex", Shown(t.file, R2, L2, V2),
         \A g \in Files \ {t.file} :
            R2[g] = R[g] /\ (g \in L2 <=> g \in L) /\ EntriesOf(V2, g) = EntriesOf(V, g)
  PROVE  AllShown(R2, L2, V2)
<1>1. Away(t) = {t.file}
  BY DEF Away, InWhole, Others
<1>2. \A g \in Files \ {t.file} : Shown(g, R2, L2, V2)
  BY <1>1, ShownStays DEF Others
<1> QED  BY <1>2 DEF AllShown

LEMMA CalmBegins ==
  ASSUME KnowledgeInv, CalmInv, NEW r \in Requests, NEW f \in Files, NEW c \in Contents,
         \/ Base!Add(r, f) \/ Base!Batch(r, f) \/ Base!Readd(r, f) \/ Base!Remove(r, f)
         \/ Base!Delete(r, f) \/ Base!Upload(r, f, c) \/ Base!UpdateContent(r, f, c)
         \/ Base!Reset(r) \/ Base!Reindex(r)
  PROVE  CalmInv'
<1>0. "read" \in Steps /\ "batchInsert" \in Steps /\ "clear" \in Steps /\ "unlink" \in Steps
      /\ "deleteRow" \in Steps /\ "dropIndex" \in Steps
  BY DEF Steps
<1>1. KnowledgeType /\ (Base!There(f) <=> Lives(row, f))
  BY DEF KnowledgeInv, Base!There, Lives
<1>2. \A k \in {"reset", "reindex", "add", "readd", "remove", "discard", "delete", "upload",
                "attach", "content"} : k \notin Base!Spoiling
  BY DEF Base!Spoiling
<1> DEFINE Fits(w, kind, first, g, in, text) ==
        /\ w.kind = kind /\ w.pc = first /\ w.file = g /\ w.in = in /\ w.text = text
        /\ w.hash = (IF Lives(row, g) THEN row[g].hash ELSE Blank) /\ w.olds = {}
        /\ w.left = (IF kind = "reindex" THEN {h \in linked : Base!There(h)} ELSE {})
        /\ Tidy(row, linked, own, vectors) /\ AllShown(row, linked, vectors)
        /\ kind \notin Base!Spoiling
<1> DEFINE Goes(w) == Tidy(row', linked', own', vectors') /\ Stage(w, row', linked', own', vectors')
<1>3. CASE Base!Add(r, f)
  <2> DEFINE kind == IF f \in linked /\ row[f].status # "completed" THEN "retry" ELSE "add"
  <2>1. Base!Begin(r, kind, f, "read", "kb", Blank) /\ UNCHANGED Base!stores /\ Lives(row, f)
    BY <1>1, <1>3 DEF Base!Add
  <2>2. ASSUME NEW w, Fits(w, kind, "read", f, "kb", Blank) PROVE Goes(w)
    <3>1. kind = "add" /\ (f \in linked => row[f].status = "completed")
      BY <2>2 DEF Base!Spoiling
    <3>2. Shown(f, row, linked, vectors)
      BY <2>2 DEF AllShown
    <3>3. BaseStage(w, row, linked, own, vectors)
      BY <2>1, <2>2, <3>1, <3>2 DEF BaseStage, Serves, Shown, TextsOf
    <3>4. Others(w, row, linked, vectors)
      BY <2>2, <3>1, OthersAtFirst DEF AllShown, InWhole
    <3> QED  BY <2>1, <2>2, <3>1, <3>3, <3>4 DEF Stage, Base!stores, InOwn, InDone, InLeave, InWhole
  <2> HIDE DEF kind
  <2> QED  BY <1>0, <1>1, <2>1, <2>2, CalmBegin
<1>4. CASE Base!Batch(r, f)
  <2>1. Base!Begin(r, "batch", f, "batchInsert", "kb", row[f].content)
    BY <1>4 DEF Base!Batch
  <2> QED  BY <1>0, <1>1, <2>1, CalmBegin DEF Base!Spoiling
<1>5. CASE Base!Readd(r, f)
  <2>1. Base!Begin(r, "readd", f, "clear", "kb", Blank) /\ UNCHANGED Base!stores /\ Lives(row, f)
        /\ f \in linked
    BY <1>1, <1>5 DEF Base!Readd
  <2>2. ASSUME NEW w, Fits(w, "readd", "clear", f, "kb", Blank) PROVE Goes(w)
    <3>1. Others(w, row, linked, vectors)
      BY <2>2, OthersAtFirst DEF AllShown, InWhole
    <3> QED  BY <2>1, <2>2, <3>1
             DEF Stage, Base!stores, InOwn, InBase, InDone, InLeave, InWhole
  <2> QED  BY <1>0, <1>1, <2>1, <2>2, CalmBegin
<1>6. ASSUME NEW kind \in {"remove", "discard", "delete"}, f \in linked, Lives(row, f),
             Base!Begin(r, kind, f, "unlink", "kb", Blank), UNCHANGED Base!stores
      PROVE  CalmInv'
  <2>1. ASSUME NEW w, Fits(w, kind, "unlink", f, "kb", Blank) PROVE Goes(w)
    <3>1. Shown(f, row, linked, vectors) /\ w.hash = row[f].hash /\ Distinct(vectors)
      BY <1>6, <2>1 DEF AllShown, Tidy
    <3>2. Sole(f, w.hash, vectors)
      <4> SUFFICES ASSUME row[f].hash # Blank, NEW e \in vectors, e.hash = row[f].hash
                   PROVE  e.of = f
        BY <3>1 DEF Sole
      <4>1. row[f].hash \in TextsOf(vectors, f)
        BY <1>6, <3>1 DEF Shown
      <4>2. PICK d \in vectors : d.of = f /\ d.text = row[f].hash
        BY <4>1 DEF TextsOf, EntriesOf
      <4> QED  BY <3>1, <4>2 DEF Distinct
    <3>3. Others(w, row, linked, vectors)
      BY <2>1, OthersAtFirst DEF AllShown, InWhole
    <3> QED  BY <1>6, <2>1, <3>2, <3>3
             DEF Stage, Base!stores, InOwn, InBase, InDone, InWhole, LeaveStage
  <2> QED  BY <1>0, <1>1, <1>6, <2>1, CalmBegin
<1>7. CASE Base!Remove(r, f)
  BY <1>1, <1>6, <1>7 DEF Base!Remove
<1>8. CASE Base!Delete(r, f)
  <2>1. CASE f \in linked
    <3>1. Base!Begin(r, "delete", f, "unlink", "kb", Blank) /\ UNCHANGED Base!stores /\ Lives(row, f)
      BY <1>1, <1>8, <2>1 DEF Base!Delete
    <3> QED  BY <1>6, <2>1, <3>1
  <2>2. CASE f \notin linked
    <3>1. Base!Begin(r, "delete", f, "deleteRow", "kb", Blank) /\ UNCHANGED Base!stores
      BY <1>8, <2>2 DEF Base!Delete
    <3>2. ASSUME NEW w, Fits(w, "delete", "deleteRow", f, "kb", Blank) PROVE Goes(w)
      <4>1. Others(w, row, linked, vectors)
        BY <3>2, OthersAtFirst DEF AllShown, InWhole
      <4>2. EntriesOf(vectors, f) = {}
        BY <2>2, <3>2 DEF AllShown, Shown
      <4> QED  BY <2>2, <3>1, <3>2, <4>1, <4>2
               DEF Stage, Base!stores, InOwn, InBase, InDone, InWhole, LeaveStage
    <3> QED  BY <1>0, <1>1, <3>1, <3>2, CalmBegin
  <2> QED  BY <2>1, <2>2
<1>9. CASE Base!Upload(r, f, c)
  <2>1. PICK kind \in {"attach", "upload"} : Base!Begin(r, kind, f, "read", "own", c)
    BY <1>9 DEF Base!Upload
  <2>2. /\ row[f] = Base!Unborn /\ row' = [row EXCEPT ![f] = Base!Row(Blank, Blank, "pending")]
        /\ linked' = linked /\ own' = own /\ vectors' = vectors
    BY <1>9 DEF Base!Upload
  <2>3. /\ row'[f] = Base!Row(Blank, Blank, "pending") /\ Lives(row', f)
        /\ \A g \in Files \ {f} : row'[g] = row[g]
    BY <1>1, <2>2 DEF KnowledgeType, Lives, Base!Row
  <2>4. ~Lives(row, f)
    BY <2>2 DEF Lives, Base!Unborn
  <2>5. ASSUME NEW w, Fits(w, kind, "read", f, "own", c) PROVE Goes(w)
    <3>1. f \notin linked /\ own[f] = {}
      BY <2>2, <2>4, <2>5 DEF Tidy, Fitting
    <3>2. EntriesOf(vectors, f) = {}
      BY <2>5, <3>1 DEF AllShown, Shown
    <3>3. \A g \in Files \ {f} : Shown(g, row', linked', vectors')
      <4> TAKE g \in Files \ {f}
      <4>1. Shown(g, row, linked, vectors) /\ row'[g] = row[g]
        BY <2>3, <2>5 DEF AllShown
      <4>2. Shown(g, row', linked, vectors)
        BY <4>1, ShownStays
      <4> QED  BY <2>2, <4>2
    <3>4. Others(w, row', linked', vectors')
      BY <2>5, <3>3, OthersAtFirst DEF InWhole
    <3>5. \A g \in Files : Fitting(g, row', linked', own')
      <4>1. Fitting(f, row', linked', own')
        BY <2>2, <2>3, <3>1 DEF Fitting
      <4>2. \A g \in Files \ {f} : Fitting(g, row', linked', own')
        <5> TAKE g \in Files \ {f}
        <5>1. Fitting(g, row, linked, own) /\ row'[g] = row[g]
          BY <2>3, <2>5 DEF Tidy
        <5>2. Fitting(g, row', linked, own)
          BY <5>1, FittingStays
        <5> QED  BY <2>2, <5>2
      <4> QED  BY <4>1, <4>2
    <3>6. Tidy(row', linked', own', vectors')
      BY <2>2, <2>5, <3>5 DEF Tidy
    <3>7. OwnStage(w, row', linked', own', vectors')
      BY <2>2, <2>3, <2>5, <3>1, <3>2 DEF OwnStage
    <3> QED  BY <2>5, <3>4, <3>6, <3>7 DEF Stage, InBase, InDone, InLeave, InWhole
  <2> QED  BY <1>0, <1>1, <2>1, <2>5, CalmBegin
<1>10. CASE Base!UpdateContent(r, f, c)
  <2>0. PICK kind \in Base!Edits : Base!Begin(r, kind, f, "read", "own", c)
    BY <1>10 DEF Base!UpdateContent
  <2>1. UNCHANGED Base!stores /\ Lives(row, f)
    BY <1>1, <1>10 DEF Base!UpdateContent
  <2>2. ASSUME NEW w, Fits(w, kind, "read", f, "own", c) PROVE Goes(w)
    <3>0. kind = "content"
      BY <2>2 DEF Base!Edits, Base!Spoiling
    <3>1. Others(w, row, linked, vectors)
      BY <2>2, <3>0, OthersAtFirst DEF AllShown, InWhole
    <3>2. Shown(f, row, linked, vectors)
      BY <2>2 DEF AllShown
    <3>3. OwnStage(w, row, linked, own, vectors)
      BY <2>1, <2>2, <3>0, <3>2 DEF OwnStage, Shown
    <3> QED  BY <2>1, <2>2, <3>1, <3>3 DEF Stage, Base!stores, InBase, InDone, InLeave, InWhole
  <2> QED  BY <1>0, <1>1, <2>0, <2>1, <2>2, CalmBegin
<1>11. ASSUME NEW kind \in {"reset", "reindex"}, UNCHANGED Base!stores,
              Base!Begin(r, kind, Base!Any, "dropIndex", "kb", Blank)
       PROVE  CalmInv'
  <2>1. Base!Any \in Files
    BY KnowledgeAssumption DEF Base!Any
  <2>2. ASSUME NEW w, Fits(w, kind, "dropIndex", Base!Any, "kb", Blank) PROVE Goes(w)
    <3>1. \A g \in linked : Base!There(g)
      BY <1>1, <2>2 DEF Tidy, Fitting, KnowledgeType, Lives, Base!There
    <3>2. kind = "reindex" => w.left = linked
      BY <2>2, <3>1
    <3>3. Others(w, row, linked, vectors)
      BY <2>2 DEF Others, Away, AllShown, InWhole
    <3>4. WholeStage(w, linked, vectors)
      BY <2>2, <3>2 DEF WholeStage
    <3> QED  BY <1>11, <2>2, <3>3, <3>4 DEF Stage, Base!stores, InOwn, InBase, InDone, InLeave
  <2> QED  BY <1>0, <1>1, <1>11, <2>1, <2>2, CalmBegin
<1>12. CASE Base!Reset(r) \/ Base!Reindex(r)
  BY <1>11, <1>12 DEF Base!Reset, Base!Reindex
<1> QED  BY <1>3, <1>4, <1>5, <1>7, <1>8, <1>9, <1>10, <1>12
-----------------------------------------------------------------------------
\* A step that goes on at `goal`.
Same(w, t) == /\ w.file = t.file /\ w.in = t.in /\ w.text = t.text /\ w.docs = t.docs
              /\ w.hash = t.hash /\ w.ok = t.ok /\ w.olds = t.olds /\ w.left = t.left

LEMMA CalmGoto ==
  ASSUME KnowledgeInv, CalmInv, NEW r \in Requests, req[r].pc # "idle",
         NEW goal \in Steps \cup {"idle"}, Base!Goto(r, goal), calm' => calm,
         \A w : /\ w.kind = req[r].kind /\ w.pc = goal /\ (goal # "idle" => Same(w, req[r]))
                /\ calm /\ Tidy(row, linked, own, vectors)
                /\ Stage(req[r], row, linked, own, vectors)
                /\ req[r].kind \notin Base!Spoiling
                => Arrives(w, row', linked', own', vectors')
  PROVE  CalmInv'
<1>1. KnowledgeType /\ req[r] \in Serving
  BY RequestShape DEF KnowledgeInv
<1> DEFINE w == Then(req[r], goal)
<1>2. w \in Resting \cup Serving /\ w.kind = req[r].kind /\ w.pc = goal
      /\ (goal # "idle" => Same(w, req[r]))
  BY <1>1, ThenShape DEF Same
<1>3. req' = [req EXCEPT ![r] = w]
  BY <1>1, GotoIs
<1> HIDE DEF w
<1>4. /\ calm /\ Tidy(row, linked, own, vectors) /\ Stage(req[r], row, linked, own, vectors)
      /\ req[r].kind \notin Base!Spoiling
      => Arrives(w, row', linked', own', vectors')
  BY <1>2
<1> QED  BY <1>1, <1>2, <1>3, <1>4, CalmStep

\* A step that touches one file only.
Apart(f, R, L, O, V, R2, L2, O2, V2) ==
    \A g \in Files \ {f} :
        /\ R2[g] = R[g] /\ (g \in L2 <=> g \in L) /\ O2[g] = O[g]
        /\ EntriesOf(V2, g) = EntriesOf(V, g)

LEMMA FileStep ==
  ASSUME NEW t, NEW R, NEW L, NEW O, NEW V, NEW R2, NEW L2, NEW O2, NEW V2,
         Tidy(R, L, O, V), Others(t, R, L, V), ~InWhole(t), t.file \in Files, t.left \subseteq Files,
         Apart(t.file, R, L, O, V, R2, L2, O2, V2), Fitting(t.file, R2, L2, O2), Distinct(V2)
  PROVE  /\ Tidy(R2, L2, O2, V2)
         /\ t.kind # "reindex" /\ Shown(t.file, R2, L2, V2) => AllShown(R2, L2, V2)
<1>1. Tidy(R2, L2, O2, V2)
  <2>1. \A g \in Files \ {t.file} : Fitting(g, R2, L2, O2)
    BY FittingStays DEF Apart, Tidy
  <2> QED  BY <2>1 DEF Tidy
<1>2. t.kind # "reindex" /\ Shown(t.file, R2, L2, V2) => AllShown(R2, L2, V2)
  BY OthersAtLast DEF Apart
<1> QED  BY <1>1, <1>2

\* It goes on with its file, or it goes to pick the next one.
LEMMA FileOthers ==
  ASSUME NEW t, NEW R, NEW L, NEW O, NEW V, NEW R2, NEW L2, NEW O2, NEW V2, NEW w,
         Others(t, R, L, V), ~InWhole(t), t.left \subseteq Files,
         Apart(t.file, R, L, O, V, R2, L2, O2, V2),
         w.kind = t.kind, w.file = t.file, w.left = t.left, ~InWhole(w),
         w.olds = t.olds \/ w.kind = "content"
  PROVE  Others(w, R2, L2, V2)
  BY OthersStay DEF Apart

LEMMA FilePick ==
  ASSUME NEW t, NEW R, NEW L, NEW O, NEW V, NEW R2, NEW L2, NEW O2, NEW V2, NEW w,
         Others(t, R, L, V), ~InWhole(t), t.left \subseteq Files,
         Apart(t.file, R, L, O, V, R2, L2, O2, V2), Shown(t.file, R2, L2, V2),
         w.kind = t.kind, w.left = t.left, w.pc = "pick", w.olds = t.olds
  PROVE  Others(w, R2, L2, V2)
<1>1. Away(t) = t.left \cup {t.file} /\ Away(w) = t.left /\ InWhole(w)
      /\ t.pc # "dropIndex"
  BY DEF Away, InWhole
<1>2. \A g \in Files \ t.left : Shown(g, R2, L2, V2)
  BY <1>1, ShownStays DEF Others, Apart
<1>3. t.left \subseteq L2 /\ \A g \in t.left : EntriesOf(V2, g) = {}
  <2>1. t.file \notin t.left /\ t.left \subseteq L /\ \A g \in t.left : EntriesOf(V, g) = {}
    BY <1>1 DEF Others
  <2> QED  BY <2>1 DEF Apart
<1> QED  BY <1>1, <1>2, <1>3 DEF Others

\* Where process_file returns to, by the kind of the request.
LEMMA CallerGoes ==
  ASSUME KnowledgeType, NEW r \in Requests, req[r].pc # "idle", NEW ok \in BOOLEAN,
         req[r].kind \in Serves \cup {"attach"}
  PROVE  /\ req[r].kind = "add" => Base!Caller(r, ok) = IF ok THEN "link" ELSE "idle"
         /\ req[r].kind = "upload" =>
               Base!Caller(r, ok) = IF req[r].in = "own" /\ ok THEN "link" ELSE "idle"
         /\ req[r].kind = "content" =>
               Base!Caller(r, ok) = IF req[r].in = "own" THEN "list"
                                    ELSE IF ok THEN "sweep" ELSE "idle"
         /\ req[r].kind = "reindex" => Base!Caller(r, ok) = "pick"
         /\ req[r].kind \in {"attach", "readd"} => Base!Caller(r, ok) = "idle"
<1>1. req[r].in \in {"own", "kb"}
  BY RequestShape
<1>2. CASE req[r].kind = "add"
  BY <1>2 DEF Base!Caller, Base!Edits
<1>3. CASE req[r].kind = "upload"
  BY <1>3 DEF Base!Caller, Base!Edits
<1>4. CASE req[r].kind = "content"
  BY <1>1, <1>4 DEF Base!Caller, Base!Edits
<1>5. CASE req[r].kind = "reindex"
  BY <1>5 DEF Base!Caller, Base!Edits
<1>6. CASE req[r].kind \in {"attach", "readd"}
  BY <1>6 DEF Base!Caller, Base!Edits
<1> QED  BY <1>2, <1>3, <1>4, <1>5, <1>6 DEF Serves

\* One field of one row.
LEMMA RowWrites ==
  ASSUME KnowledgeType, NEW f \in Files, Lives(row, f), NEW x
  PROVE  /\ row' = [row EXCEPT ![f].content = x] =>
              /\ Lives(row', f) /\ row'[f].content = x /\ row'[f].status = row[f].status
              /\ row'[f].hash = row[f].hash /\ \A g \in Files \ {f} : row'[g] = row[g]
         /\ row' = [row EXCEPT ![f].status = x] =>
              /\ Lives(row', f) /\ row'[f].content = row[f].content /\ row'[f].status = x
              /\ row'[f].hash = row[f].hash /\ \A g \in Files \ {f} : row'[g] = row[g]
         /\ row' = [row EXCEPT ![f].hash = x] =>
              /\ Lives(row', f) /\ row'[f].content = row[f].content /\ row'[f].status = row[f].status
              /\ row'[f].hash = x /\ \A g \in Files \ {f} : row'[g] = row[g]
<1> DEFINE c == row[f].content
           h == row[f].hash
           s == row[f].status
<1>1. row[f] = Base!Row(c, h, s) /\ row \in [Files -> Rows]
  BY RowShape DEF Lives, Base!There, KnowledgeType
<1> HIDE DEF c, h, s
<1>2. /\ [row[f] EXCEPT !.content = x] = Base!Row(x, h, s)
      /\ [row[f] EXCEPT !.status = x] = Base!Row(c, h, x)
      /\ [row[f] EXCEPT !.hash = x] = Base!Row(c, x, s)
  BY <1>1 DEF Base!Row
<1>3. ASSUME NEW a, NEW b, NEW d
      PROVE  /\ Base!Row(a, b, d).is = "there" /\ Base!Row(a, b, d).content = a
             /\ Base!Row(a, b, d).hash = b /\ Base!Row(a, b, d).status = d
  BY DEF Base!Row
<1>4. ASSUME row' = [row EXCEPT ![f].content = x]
      PROVE  row'[f] = Base!Row(x, h, s) /\ \A g \in Files \ {f} : row'[g] = row[g]
  BY <1>1, <1>2, <1>4
<1>5. ASSUME row' = [row EXCEPT ![f].status = x]
      PROVE  row'[f] = Base!Row(c, h, x) /\ \A g \in Files \ {f} : row'[g] = row[g]
  BY <1>1, <1>2, <1>5
<1>6. ASSUME row' = [row EXCEPT ![f].hash = x]
      PROVE  row'[f] = Base!Row(c, x, s) /\ \A g \in Files \ {f} : row'[g] = row[g]
  BY <1>1, <1>2, <1>6
<1> QED  BY <1>3, <1>4, <1>5, <1>6 DEF Lives, c, h, s
-----------------------------------------------------------------------------
(* The steps of process_file *)

LEMMA OthersHold ==
  ASSUME NEW t, NEW w, NEW R, NEW L, NEW V, Others(t, R, L, V), ~InWhole(t), ~InWhole(w),
         w.kind = t.kind, w.file = t.file, w.left = t.left, w.olds = t.olds
  PROVE  Others(w, R, L, V)
  BY DEF Others, Away, InWhole

LEMMA CalmReads ==
  ASSUME KnowledgeInv, CalmInv, NEW r \in Requests,
         Base!Read(r) \/ Base!ReadOwn(r) \/ Base!Check(r)
  PROVE  CalmInv'
<1> USE DEF Base!At, Base!File
<1> DEFINE t == req[r]
<1>1. /\ t.pc # "idle" /\ t \in Serving /\ t.file \in Files /\ t.in \in {"own", "kb"}
      /\ t.text \in Texts
  BY RequestShape DEF KnowledgeInv, Base!Read, Base!ReadOwn, Base!Check
<1>2. req \in [Requests -> Resting \cup Serving] /\ KnowledgeType
      /\ own \in [Files -> SUBSET Contents] /\ (Base!There(t.file) <=> Lives(row, t.file))
  BY DEF KnowledgeInv, KnowledgeType, Base!There, Lives
<1>3. calm' = calm /\ row' = row /\ linked' = linked /\ own' = own /\ vectors' = vectors
  BY DEF Base!Read, Base!ReadOwn, Base!Check, Base!Works, Base!stores
<1>4. CASE Base!Read(r)
  <2>1. t.pc = "read"
    BY <1>4 DEF Base!Read
  <2>2. CASE ~Lives(row, t.file)
    <3>1. Base!Goto(r, Base!Caller(r, FALSE))
      BY <1>2, <1>4, <2>2 DEF Base!Read
    <3>2. Base!Caller(r, FALSE) \in Steps \cup {"idle"}
      BY <1>1, <1>2, CallerIs DEF Steps
    <3>3. ~Stage(t, row, linked, own, vectors)
      BY <1>1, <2>1, <2>2 DEF Stage, InOwn, InBase, OwnStage, BaseStage
    <3> QED  BY <1>1, <1>3, <3>1, <3>2, <3>3, CalmGoto
  <2>3. CASE Lives(row, t.file)
    <3> DEFINE a == IF t.in = "kb" THEN "own"
                    ELSE IF t.kind = "content" THEN "dropOwn" ELSE "write"
               b == IF t.in = "kb" THEN row[t.file].content ELSE t.text
               d == {t.text}
               w == [t EXCEPT !.pc = a, !.text = b, !.docs = d]
    <3>1. a \in Steps /\ b \in Texts /\ d \in Chunks
      BY <1>1, <1>2, <2>3, Basics, RowShape DEF Steps
    <3>2. req' = [req EXCEPT ![r].pc = a, ![r].text = b, ![r].docs = d]
      BY <1>2, <1>4, <2>3 DEF Base!Read
    <3>3. /\ t.in = "kb" => a = "own" /\ b = row[t.file].content
          /\ t.in = "own" => b = t.text /\ d = {t.text}
          /\ t.in = "own" /\ t.kind = "content" => a = "dropOwn"
          /\ t.in = "own" /\ t.kind # "content" => a = "write"
      OBVIOUS
    <3> HIDE DEF a, b, d
    <3>4. req' = [req EXCEPT ![r] = w]
      BY <1>2, <3>2
    <3>5. w \in Serving /\ w.pc = a /\ w.kind = t.kind /\ w.docs = d /\ w.olds = t.olds
          /\ w.in = t.in /\ w.file = t.file /\ w.text = b /\ w.left = t.left
      BY <1>1, <3>1 DEF Serving
    <3> HIDE DEF w, t
    <3>6. ASSUME Tidy(row, linked, own, vectors), Stage(t, row, linked, own, vectors)
          PROVE  Arrives(w, row, linked, own, vectors)
      <4>1. a \in {"own", "dropOwn", "write"}
        BY <1>1, <3>3
      <4>2. Others(w, row, linked, vectors)
        BY <2>1, <3>5, <3>6, <4>1, OthersHold DEF Stage, InWhole
      <4>3. InOwn(w) => OwnStage(w, row, linked, own, vectors)
        BY <1>1, <2>1, <3>3, <3>5, <3>6, <4>1 DEF Stage, InOwn, OwnStage
      <4>4. InBase(w) => BaseStage(w, row, linked, own, vectors)
        BY <1>1, <2>1, <3>3, <3>5, <3>6, <4>1 DEF Stage, InBase, BaseStage
      <4>5. /\ a = "dropOwn" => w.in = "own"
            /\ a = "own" => w.in = "kb"
        BY <1>1, <3>3, <3>5
      <4> QED  BY <3>5, <3>6, <4>1, <4>2, <4>3, <4>4, <4>5
               DEF Arrives, Stage, InDone, InLeave, InWhole
    <3> QED  BY <1>1, <1>2, <1>3, <3>4, <3>5, <3>6, CalmStep DEF t
  <2> QED  BY <2>2, <2>3
<1>5. CASE Base!ReadOwn(r)
  <2> DEFINE d == IF own[t.file] # {} THEN own[t.file] ELSE {t.text}
             w == [t EXCEPT !.pc = "write", !.docs = d]
  <2>1. t.pc = "own"
    BY <1>5 DEF Base!ReadOwn
  <2>2. d \in Chunks
    BY <1>1, <1>2, Basics
  <2>3. req' = [req EXCEPT ![r].pc = "write", ![r].docs = d] /\ "write" \in Steps
    BY <1>5 DEF Base!ReadOwn, Steps
  <2>4. own[t.file] \subseteq {t.text} => d = {t.text}
    OBVIOUS
  <2> HIDE DEF d
  <2>5. req' = [req EXCEPT ![r] = w]
    BY <1>2, <2>3
  <2>6. w \in Serving /\ w.pc = "write" /\ w.kind = t.kind /\ w.docs = d /\ w.olds = t.olds
        /\ w.in = t.in /\ w.file = t.file /\ w.text = t.text /\ w.left = t.left
    BY <1>1, <2>2, <2>3 DEF Serving
  <2> HIDE DEF w, t
  <2>7. ASSUME Tidy(row, linked, own, vectors), Stage(t, row, linked, own, vectors)
        PROVE  Arrives(w, row, linked, own, vectors)
    <3>1. t.in = "kb" /\ BaseStage(t, row, linked, own, vectors)
      BY <2>1, <2>7 DEF Stage, InBase
    <3>2. d = {t.text}
      BY <1>1, <2>1, <2>4, <2>7, <3>1 DEF Tidy, Fitting, BaseStage
    <3>3. Others(w, row, linked, vectors)
      BY <2>1, <2>6, <2>7, OthersHold DEF Stage, InWhole
    <3>4. BaseStage(w, row, linked, own, vectors)
      BY <2>1, <2>6, <3>1, <3>2 DEF BaseStage
    <3> QED  BY <2>6, <2>7, <3>1, <3>3, <3>4
             DEF Arrives, Stage, InOwn, InDone, InLeave, InWhole
  <2> QED  BY <1>1, <1>2, <1>3, <2>5, <2>6, <2>7, CalmStep DEF t
<1>6. CASE Base!Check(r)
  <2>1. t.pc = "check"
    BY <1>6 DEF Base!Check
  <2>2. PICK a \in {"status", "insert"}, b \in BOOLEAN :
          /\ req' = [req EXCEPT ![r].pc = a, ![r].ok = b]
          /\ ~b => a = "status" /\ (t.docs = {Blank} \/ t.in = "kb")
          /\ b => t.docs # {Blank} /\ (t.in = "kb" => a = "insert" /\ Base!Unique(r))
          /\ b /\ t.in = "own" /\ own[t.file] = {} => a = "insert"
    <3>1. CASE /\ t.docs = {Blank} \/ t.in = "kb"
               /\ req' = [req EXCEPT ![r].pc = "status", ![r].ok = FALSE]
      BY <3>1
    <3>2. CASE /\ t.docs # {Blank} /\ (t.in = "kb" => Base!Unique(r))
               /\ req' = [req EXCEPT ![r].ok = TRUE,
                     ![r].pc = IF t.in = "own" /\ own[t.file] # {} THEN "status" ELSE "insert"]
      <4> DEFINE a == IF t.in = "own" /\ own[t.file] # {} THEN "status" ELSE "insert"
      <4>1. [req EXCEPT ![r].ok = TRUE, ![r].pc = a] = [req EXCEPT ![r].pc = a, ![r].ok = TRUE]
        BY <1>1, <1>2, ZenonT(60) DEF Serving
      <4>2. req' = [req EXCEPT ![r].pc = a, ![r].ok = TRUE]
        BY <3>2, <4>1
      <4>3. /\ a \in {"status", "insert"} /\ (t.in = "kb" => a = "insert")
            /\ t.in = "own" /\ own[t.file] = {} => a = "insert"
        OBVIOUS
      <4> HIDE DEF a
      <4> QED  BY <3>2, <4>2, <4>3
    <3> QED  BY <1>6, <3>1, <3>2 DEF Base!Check
  <2> DEFINE w == [t EXCEPT !.pc = a, !.ok = b]
  <2>3. req' = [req EXCEPT ![r] = w]
    BY <1>2, <2>2
  <2>4. w \in Serving /\ w.pc = a /\ w.kind = t.kind /\ w.docs = t.docs /\ w.olds = t.olds
        /\ w.in = t.in /\ w.file = t.file /\ w.text = t.text /\ w.left = t.left /\ w.ok = b
    <3>1. a \in Steps
      BY DEF Steps
    <3> QED  BY <1>1, <3>1 DEF Serving
  <2> HIDE DEF w
  <2>5. ASSUME Tidy(row, linked, own, vectors), Stage(t, row, linked, own, vectors)
        PROVE  Arrives(w, row, linked, own, vectors)
    <3>1. Others(w, row, linked, vectors)
      BY <2>1, <2>4, <2>5, OthersHold DEF Stage, InWhole
    <3>2. CASE t.in = "own"
      <4>1. OwnStage(t, row, linked, own, vectors)
        BY <2>1, <2>5, <3>2 DEF Stage, InOwn
      <4>2. t.docs = {t.text} /\ t.text \in Contents /\ own[t.file] = {}
        BY <2>1, <4>1 DEF OwnStage
      <4>3. t.docs # {Blank}
        BY <4>2, Basics
      <4>4. b /\ a = "insert"
        BY <2>2, <3>2, <4>2, <4>3
      <4>5. OwnStage(w, row, linked, own, vectors)
        BY <2>1, <2>4, <4>1, <4>2, <4>4 DEF OwnStage
      <4> QED  BY <2>4, <2>5, <3>1, <3>2, <4>4, <4>5
               DEF Arrives, Stage, InBase, InDone, InLeave, InWhole
    <3>3. CASE t.in = "kb"
      <4>1. BaseStage(t, row, linked, own, vectors)
        BY <2>1, <2>5, <3>3 DEF Stage, InBase
      <4>2. CASE b
        <5>1. a = "insert" /\ t.docs # {Blank} /\ Base!Unique(r)
          BY <2>2, <3>3, <4>2
        <5>2. t.text # Blank
          BY <2>1, <4>1, <5>1 DEF BaseStage
        <5>3. Sole(t.file, t.text, vectors)
          BY <2>5, <5>1 DEF Sole, Base!Unique, Base!Twins, Tidy, Distinct
        <5>4. BaseStage(w, row, linked, own, vectors)
          BY <2>1, <2>4, <4>1, <4>2, <5>1, <5>2, <5>3 DEF BaseStage
        <5> QED  BY <2>4, <2>5, <3>1, <3>3, <5>1, <5>4
                 DEF Arrives, Stage, InOwn, InDone, InLeave, InWhole
      <4>3. CASE ~b
        <5>1. a = "status"
          BY <2>2, <4>3
        <5>2. DoneStage(w, row, linked, own, vectors)
          BY <2>1, <2>4, <4>1, <4>3, <5>1 DEF BaseStage, DoneStage
        <5> QED  BY <2>4, <2>5, <3>1, <3>3, <5>1, <5>2
                 DEF Arrives, Stage, InOwn, InBase, InLeave, InWhole
      <4> QED  BY <4>2, <4>3
    <3> QED  BY <1>1, <3>2, <3>3
  <2> QED  BY <1>1, <1>2, <1>3, <2>3, <2>4, <2>5, CalmStep
<1> QED  BY <1>4, <1>5, <1>6

\* With a fault it is not calm any more.
LEMMA NotCalm ==
  ASSUME Base!Fails
  PROVE  CalmInv'
  BY DEF Base!Fails, CalmInv

LEMMA CalmWrites ==
  ASSUME KnowledgeInv, CalmInv, NEW r \in Requests,
         \/ Base!DropOwn(r) \/ Base!Write(r) \/ Base!Insert(r)
         \/ Base!WriteStatus(r) \/ Base!WriteHash(r)
  PROVE  CalmInv'
<1> USE DEF Base!At, Base!File
<1> DEFINE t == req[r]
           f == t.file
<1>1. /\ t.pc # "idle" /\ t \in Serving /\ f \in Files /\ t.in \in {"own", "kb"}
      /\ t.text \in Texts /\ t.left \subseteq Files /\ t.ok \in BOOLEAN
  BY RequestShape DEF KnowledgeInv, Base!DropOwn, Base!Write, Base!Insert, Base!WriteStatus,
                      Base!WriteHash
<1>2. req \in [Requests -> Resting \cup Serving] /\ KnowledgeType
      /\ own \in [Files -> SUBSET Contents] /\ (Base!There(f) <=> Lives(row, f))
  BY DEF KnowledgeInv, KnowledgeType, Base!There, Lives
<1>3. CASE Base!DropOwn(r)
  <2>1. t.pc = "dropOwn" /\ Base!Goto(r, "write") /\ row' = row /\ linked' = linked
        /\ vectors' = vectors
    BY <1>3 DEF Base!DropOwn
  <2>2. CASE Base!Works /\ own' = [own EXCEPT ![f] = {}]
    <3>1. own'[f] = {} /\ \A g \in Files \ {f} : own'[g] = own[g]
      BY <1>1, <1>2, <2>2
    <3>2. ASSUME NEW w, w.kind = t.kind, w.pc = "write", Same(w, t), Tidy(row, linked, own, vectors),
                 Stage(t, row, linked, own, vectors)
          PROVE  Arrives(w, row, linked, own', vectors)
      <4>1. t.in = "own" /\ OwnStage(t, row, linked, own, vectors)
        BY <2>1, <3>2 DEF Stage, InOwn
      <4>2. Fitting(f, row, linked, own')
        BY <1>1, <3>1, <3>2 DEF Tidy, Fitting
      <4>3. Tidy(row, linked, own', vectors) /\ Others(w, row, linked, vectors)
        <5>1. Others(t, row, linked, vectors) /\ ~InWhole(t) /\ ~InWhole(w) /\ Same(w, t)
          BY <1>1, <2>1, <3>1, <3>2, <4>2 DEF Stage, InWhole, Same
        <5>2. Apart(f, row, linked, own, vectors, row, linked, own', vectors) /\ Distinct(vectors)
          BY <1>1, <2>1, <3>1, <3>2, <4>2 DEF Apart, Tidy
        <5> QED  BY <1>1, <2>1, <3>1, <3>2, <4>2, <5>1, <5>2, FileStep, FileOthers DEF Same
      <4>4. OwnStage(w, row, linked, own', vectors)
        BY <2>1, <3>1, <3>2, <4>1 DEF OwnStage, Same
      <4> QED  BY <3>2, <4>1, <4>3, <4>4
               DEF Arrives, Stage, InBase, InDone, InLeave, InWhole, Same
    <3> HIDE DEF t, f
    <3> QED  BY <1>1, <2>1, <2>2, <3>2, CalmGoto DEF Steps, Base!Works, t
  <2> QED  BY <1>3, <2>2, NotCalm DEF Base!DropOwn
<1>4. CASE Base!Write(r)
  <2>1. t.pc = "write" /\ Base!Goto(r, "check") /\ Base!Works /\ own' = own /\ linked' = linked
        /\ vectors' = vectors
    BY <1>4 DEF Base!Write
  <2>2. Lives(row, f) => /\ Lives(row', f) /\ row'[f].content = t.text
                         /\ \A g \in Files \ {f} : row'[g] = row[g]
    <3>1. Lives(row, f) => row' = [row EXCEPT ![f].content = t.text]
      BY <1>2, <1>4 DEF Base!Write
    <3> HIDE DEF t, f
    <3> QED  BY <1>1, <1>2, <3>1, RowWrites
  <2>3. ASSUME NEW w, w.kind = t.kind, w.pc = "check", Same(w, t), Tidy(row, linked, own, vectors),
               Stage(t, row, linked, own, vectors)
        PROVE  Arrives(w, row', linked, own, vectors)
    <3>1. CASE t.in = "own"
      <4>1. OwnStage(t, row, linked, own, vectors)
        BY <2>1, <2>3, <3>1 DEF Stage, InOwn
      <4>2. Lives(row, f) /\ own[f] = {}
        BY <2>1, <4>1 DEF OwnStage
      <4>3. Fitting(f, row', linked, own)
        BY <2>2, <4>2 DEF Fitting
      <4>4. Tidy(row', linked, own, vectors) /\ Others(w, row', linked, vectors)
        <5>1. Others(t, row, linked, vectors) /\ ~InWhole(t) /\ ~InWhole(w) /\ Same(w, t)
          BY <1>1, <2>1, <2>2, <2>3, <4>2, <4>3 DEF Stage, InWhole, Same
        <5>2. Apart(f, row, linked, own, vectors, row', linked, own, vectors) /\ Distinct(vectors)
          BY <1>1, <2>1, <2>2, <2>3, <4>2, <4>3 DEF Apart, Tidy
        <5> QED  BY <1>1, <2>1, <2>2, <2>3, <4>2, <4>3, <5>1, <5>2, FileStep, FileOthers DEF Same
      <4>5. OwnStage(w, row', linked, own, vectors)
        BY <2>1, <2>2, <2>3, <4>1, <4>2 DEF OwnStage, Same
      <4> QED  BY <2>3, <3>1, <4>4, <4>5
               DEF Arrives, Stage, InBase, InDone, InLeave, InWhole, Same
    <3>2. CASE t.in = "kb"
      <4>1. BaseStage(t, row, linked, own, vectors)
        BY <2>1, <2>3, <3>2 DEF Stage, InBase
      <4>2. Lives(row, f) /\ row[f].content = t.text
        BY <2>1, <4>1 DEF BaseStage
      <4>3. Fitting(f, row', linked, own)
        BY <1>1, <2>2, <2>3, <4>2 DEF Fitting, Tidy, Lives, Base!Unborn
      <4>4. Tidy(row', linked, own, vectors) /\ Others(w, row', linked, vectors)
        <5>1. Others(t, row, linked, vectors) /\ ~InWhole(t) /\ ~InWhole(w) /\ Same(w, t)
          BY <1>1, <2>1, <2>2, <2>3, <4>2, <4>3 DEF Stage, InWhole, Same
        <5>2. Apart(f, row, linked, own, vectors, row', linked, own, vectors) /\ Distinct(vectors)
          BY <1>1, <2>1, <2>2, <2>3, <4>2, <4>3 DEF Apart, Tidy
        <5> QED  BY <1>1, <2>1, <2>2, <2>3, <4>2, <4>3, <5>1, <5>2, FileStep, FileOthers DEF Same
      <4>5. BaseStage(w, row', linked, own, vectors)
        BY <2>1, <2>2, <2>3, <4>1, <4>2 DEF BaseStage, Same
      <4> QED  BY <2>3, <3>2, <4>4, <4>5
               DEF Arrives, Stage, InOwn, InDone, InLeave, InWhole, Same
    <3> QED  BY <1>1, <3>1, <3>2
  <2> HIDE DEF t, f
  <2> QED  BY <1>1, <2>1, <2>3, CalmGoto DEF Steps, Base!Works, t
<1>5. CASE Base!Insert(r)
  <2>1. t.pc = "insert" /\ row' = row /\ linked' = linked
    BY <1>5 DEF Base!Insert
  <2>2. CASE Base!Fails
    BY <2>2, NotCalm
  <2>3. CASE Base!Works /\ Base!Goto(r, "status") /\ t.in = "own" /\ vectors' = vectors
             /\ own' = [own EXCEPT ![f] = @ \cup t.docs]
    <3>1. own'[f] = own[f] \cup t.docs /\ \A g \in Files \ {f} : own'[g] = own[g]
      BY <1>1, <1>2, <2>3
    <3>2. ASSUME NEW w, w.kind = t.kind, w.pc = "status", Same(w, t), Tidy(row, linked, own, vectors),
                 Stage(t, row, linked, own, vectors)
          PROVE  Arrives(w, row, linked, own', vectors)
      <4>1. OwnStage(t, row, linked, own, vectors)
        BY <2>1, <2>3, <3>2 DEF Stage, InOwn
      <4>2. own'[f] = {t.text} /\ row[f].content = t.text /\ Lives(row, f)
        BY <2>1, <3>1, <4>1 DEF OwnStage
      <4>3. Fitting(f, row, linked, own')
        BY <4>2 DEF Fitting, Lives, Base!Unborn
      <4>4. Tidy(row, linked, own', vectors) /\ Others(w, row, linked, vectors)
        <5>1. Others(t, row, linked, vectors) /\ ~InWhole(t) /\ ~InWhole(w) /\ Same(w, t)
          BY <1>1, <2>1, <3>1, <3>2, <4>3 DEF Stage, InWhole, Same
        <5>2. Apart(f, row, linked, own, vectors, row, linked, own', vectors) /\ Distinct(vectors)
          BY <1>1, <2>1, <3>1, <3>2, <4>3 DEF Apart, Tidy
        <5> QED  BY <1>1, <2>1, <3>1, <3>2, <4>3, <5>1, <5>2, FileStep, FileOthers DEF Same
      <4>5. OwnStage(w, row, linked, own', vectors)
        BY <2>1, <3>2, <4>1 DEF OwnStage, Same
      <4> QED  BY <2>3, <3>2, <4>4, <4>5
               DEF Arrives, Stage, InBase, InDone, InLeave, InWhole, Same
    <3> HIDE DEF t, f
    <3> QED  BY <1>1, <2>1, <2>3, <3>2, CalmGoto DEF Steps, Base!Works, t
  <2>4. CASE /\ Base!Works /\ Base!Goto(r, "status") /\ t.in = "kb" /\ own' = own
             /\ vectors' = vectors \cup {Base!Entry(f, r, x, t.text) : x \in t.docs}
    <3>1. t.docs = {t.text} => vectors' = vectors \cup {Base!Entry(f, r, t.text, t.text)}
      BY <2>4
    <3> DEFINE n == Base!Entry(f, r, t.text, t.text)
    <3>2. n.of = f /\ n.text = t.text /\ n.hash = t.text /\ n.by = r
      BY DEF Base!Entry
    <3> HIDE DEF n
    <3>3. t.kind = "content" => n \notin t.olds
      <4>1. t.kind = "content" => NotYet(t)
        BY <2>1, <2>4 DEF NotYet, Base!Edits
      <4>2. t.kind = "content" => \A e \in t.olds : e.by # r
        BY <1>1, <4>1 DEF KnowledgeInv, Fresh
      <4> QED  BY <3>2, <4>2
    <3>4. ASSUME NEW w, w.kind = t.kind, w.pc = "status", Same(w, t), Tidy(row, linked, own, vectors),
                 Stage(t, row, linked, own, vectors)
          PROVE  Arrives(w, row, linked, own, vectors')
      <4>1. BaseStage(t, row, linked, own, vectors) /\ Others(t, row, linked, vectors)
        BY <2>1, <2>4, <3>4 DEF Stage, InBase
      <4>2. /\ t.docs = {t.text} /\ row[f].content = t.text /\ Lives(row, f) /\ t.ok
            /\ t.text # Blank /\ Sole(f, t.text, vectors)
        BY <2>1, <4>1 DEF BaseStage
      <4>3. vectors' = vectors \cup {n}
        BY <3>1, <4>2 DEF n
      <4>4. Distinct(vectors')
        BY <3>2, <3>4, <4>2, <4>3 DEF Distinct, Sole, Tidy
      <4>5. EntriesOf(vectors', f) = EntriesOf(vectors, f) \cup {n}
            /\ \A g \in Files \ {f} : EntriesOf(vectors', g) = EntriesOf(vectors, g)
        BY <3>2, <4>3 DEF EntriesOf
      <4>6. Tidy(row, linked, own, vectors') /\ Others(w, row, linked, vectors')
        <5>1. Others(t, row, linked, vectors) /\ ~InWhole(t) /\ ~InWhole(w) /\ Same(w, t)
          BY <1>1, <2>1, <3>4, <4>1, <4>4, <4>5 DEF Stage, InWhole, Same
        <5>2. Apart(f, row, linked, own, vectors, row, linked, own, vectors') /\ Distinct(vectors')
          BY <1>1, <2>1, <3>4, <4>1, <4>4, <4>5 DEF Apart, Tidy
        <5>3. Fitting(f, row, linked, own)
          BY <1>1, <3>4 DEF Tidy
        <5> QED  BY <1>1, <3>4, <5>1, <5>2, <5>3, FileStep, FileOthers DEF Same
      <4>7. n \notin t.olds
        BY <3>3, <4>1 DEF Others
      <4>8. {e.text : e \in EntriesOf(vectors', f) \ t.olds} = {t.text}
        <5>1. \A e \in EntriesOf(vectors', f) \ t.olds : e.text = t.text
          BY <3>2, <4>1, <4>2, <4>5 DEF BaseStage
        <5>2. n \in EntriesOf(vectors', f) \ t.olds
          BY <4>5, <4>7
        <5> QED  BY <3>2, <5>1, <5>2
      <4>9. DoneStage(w, row, linked, own, vectors')
        BY <3>4, <4>1, <4>2, <4>8 DEF BaseStage, DoneStage, Same
      <4> QED  BY <2>4, <3>4, <4>6, <4>9
               DEF Arrives, Stage, InOwn, InBase, InLeave, InWhole, Same
    <3> HIDE DEF t, f
    <3> QED  BY <1>1, <2>1, <2>4, <3>4, CalmGoto DEF Steps, Base!Works, t
  <2> QED  BY <1>1, <1>5, <2>2, <2>3, <2>4 DEF Base!Insert
<1>6. CASE Base!WriteStatus(r)
  <2>1. t.pc = "status" /\ Base!Goto(r, "hash") /\ Base!Works /\ own' = own /\ linked' = linked
        /\ vectors' = vectors
    BY <1>6 DEF Base!WriteStatus
  <2>2. Lives(row, f) => /\ Lives(row', f) /\ row'[f].content = row[f].content
                         /\ row'[f].status = IF t.ok THEN "completed" ELSE "failed"
                         /\ \A g \in Files \ {f} : row'[g] = row[g]
    <3> DEFINE v == IF t.ok THEN "completed" ELSE "failed"
    <3>1. Lives(row, f) => row' = [row EXCEPT ![f].status = v]
      BY <1>2, <1>6 DEF Base!WriteStatus
    <3>2. Lives(row, f) => /\ Lives(row', f) /\ row'[f].content = row[f].content
                           /\ row'[f].status = v /\ \A g \in Files \ {f} : row'[g] = row[g]
      <4> HIDE DEF t, f, v
      <4> QED  BY <1>1, <1>2, <3>1, RowWrites
    <3> QED  BY <3>2 DEF v
  <2>3. ASSUME NEW w, w.kind = t.kind, w.pc = "hash", Same(w, t), Tidy(row, linked, own, vectors),
               Stage(t, row, linked, own, vectors)
        PROVE  Arrives(w, row', linked, own, vectors)
    <3>0. Lives(row, f)
      BY <1>1, <2>1, <2>3 DEF Stage, InOwn, InDone, OwnStage, DoneStage
    <3>1. Fitting(f, row', linked, own)
      BY <1>1, <2>2, <2>3, <3>0 DEF Fitting, Tidy, Lives, Base!Unborn
    <3>2. Tidy(row', linked, own, vectors) /\ Others(w, row', linked, vectors)
      <4>1. Others(t, row, linked, vectors) /\ ~InWhole(t) /\ ~InWhole(w) /\ Same(w, t)
        BY <1>1, <2>1, <2>2, <2>3, <3>0, <3>1 DEF Stage, InWhole, Same
      <4>2. Apart(f, row, linked, own, vectors, row', linked, own, vectors) /\ Distinct(vectors)
        BY <1>1, <2>1, <2>2, <2>3, <3>0, <3>1 DEF Apart, Tidy
      <4> QED  BY <1>1, <2>1, <2>2, <2>3, <3>0, <3>1, <4>1, <4>2, FileStep, FileOthers DEF Same
    <3>3. t.in = "own" => OwnStage(w, row', linked, own, vectors)
      BY <2>1, <2>2, <2>3, <3>0 DEF Stage, InOwn, OwnStage, Same
    <3>4. t.in = "kb" => DoneStage(w, row', linked, own, vectors)
      BY <2>1, <2>2, <2>3, <3>0 DEF Stage, InDone, DoneStage, Same
    <3> QED  BY <1>1, <2>3, <3>2, <3>3, <3>4
             DEF Arrives, Stage, InOwn, InBase, InDone, InLeave, InWhole, Same
  <2> HIDE DEF t, f
  <2> QED  BY <1>1, <2>1, <2>3, CalmGoto DEF Steps, Base!Works, t
<1>7. CASE Base!WriteHash(r)
  <2> DEFINE goal == Base!Caller(r, t.ok)
  <2>1. t.pc = "hash" /\ Base!Goto(r, goal) /\ Base!Works /\ own' = own /\ linked' = linked
        /\ vectors' = vectors
    BY <1>7 DEF Base!WriteHash
  <2>2. Lives(row, f) => /\ Lives(row', f) /\ row'[f].content = row[f].content
                         /\ row'[f].status = row[f].status
                         /\ row'[f].hash = (IF t.ok THEN t.text ELSE Blank)
                         /\ \A g \in Files \ {f} : row'[g] = row[g]
    <3> DEFINE v == IF t.ok THEN t.text ELSE Blank
    <3>1. Lives(row, f) => row' = [row EXCEPT ![f].hash = v]
      BY <1>2, <1>7 DEF Base!WriteHash
    <3>2. Lives(row, f) => /\ Lives(row', f) /\ row'[f].content = row[f].content
                           /\ row'[f].status = row[f].status
                           /\ row'[f].hash = v /\ \A g \in Files \ {f} : row'[g] = row[g]
      <4> HIDE DEF t, f, v
      <4> QED  BY <1>1, <1>2, <3>1, RowWrites
    <3> QED  BY <3>2 DEF v
  <2>3. goal \in {"link", "list", "sweep", "pick", "idle"}
    BY <1>1, <1>2, CallerIs
  <2>4. t.kind \in Serves \cup {"attach"} =>
         /\ t.kind = "add" => goal = IF t.ok THEN "link" ELSE "idle"
         /\ t.kind = "upload" => goal = IF t.in = "own" /\ t.ok THEN "link" ELSE "idle"
         /\ t.kind = "content" => goal = IF t.in = "own" THEN "list"
                                         ELSE IF t.ok THEN "sweep" ELSE "idle"
         /\ t.kind = "reindex" => goal = "pick"
         /\ t.kind \in {"attach", "readd"} => goal = "idle"
    BY <1>1, <1>2, CallerGoes
  <2> HIDE DEF goal
  <2>5. ASSUME NEW w, w.kind = t.kind, w.pc = goal, goal # "idle" => Same(w, t),
               Tidy(row, linked, own, vectors), Stage(t, row, linked, own, vectors)
        PROVE  Arrives(w, row', linked, own, vectors)
    <3>0. Lives(row, f)
      BY <1>1, <2>1, <2>5 DEF Stage, InOwn, InDone, OwnStage, DoneStage
    <3>1. Fitting(f, row', linked, own)
      BY <1>1, <2>2, <2>5, <3>0 DEF Fitting, Tidy, Lives, Base!Unborn
    <3>2. Others(t, row, linked, vectors) /\ ~InWhole(t) /\ Distinct(vectors)
          /\ Apart(f, row, linked, own, vectors, row', linked, own, vectors)
      BY <2>1, <2>2, <2>5, <3>0 DEF Stage, InWhole, Apart, Tidy
    <3>3. /\ Tidy(row', linked, own, vectors)
          /\ goal # "idle" /\ goal # "pick" => Others(w, row', linked, vectors)
          /\ t.kind # "reindex" /\ Shown(f, row', linked, vectors) => AllShown(row', linked, vectors)
          /\ goal = "pick" /\ Shown(f, row', linked, vectors) => Others(w, row', linked, vectors)
      <4>1. goal # "idle" /\ goal # "pick" => ~InWhole(w)
        BY <2>3, <2>5 DEF InWhole
      <4> QED  BY <1>1, <2>5, <3>1, <3>2, <4>1, FileStep, FileOthers, FilePick DEF Same
    <3>4. CASE t.in = "own"
      <4>1. OwnStage(t, row, linked, own, vectors)
        BY <2>1, <2>5, <3>4 DEF Stage, InOwn
      <4>2. t.kind \in {"attach", "upload", "content"} /\ t.ok
        BY <2>1, <4>1 DEF OwnStage
      <4>3. CASE t.kind = "attach"
        <5>1. goal = "idle" /\ Shown(f, row', linked, vectors)
          BY <2>4, <4>1, <4>3 DEF OwnStage, Shown, Serves
        <5> QED  BY <2>5, <3>3, <4>3, <5>1 DEF Arrives
      <4>4. CASE t.kind \in {"upload", "content"}
        <5>1. goal = IF t.kind = "upload" THEN "link" ELSE "list"
          BY <2>4, <3>4, <4>2, <4>4 DEF Serves
        <5>2. OwnStage(w, row', linked, own, vectors)
          BY <2>1, <2>2, <2>5, <3>0, <4>1, <4>2, <4>4, <5>1 DEF OwnStage, Same
        <5> QED  BY <2>5, <3>3, <3>4, <4>4, <5>1, <5>2
                 DEF Arrives, Stage, InBase, InDone, InLeave, InWhole, Same
      <4> QED  BY <4>2, <4>3, <4>4
    <3>5. CASE t.in = "kb"
      <4>1. DoneStage(t, row, linked, own, vectors)
        BY <2>1, <2>5, <3>5 DEF Stage, InDone
      <4>2. t.kind \in Serves
        BY <4>1 DEF DoneStage
      <4>3. ~t.ok => Shown(f, row', linked, vectors)
        BY <2>1, <2>2, <3>0, <4>1 DEF DoneStage, Shown
      <4>4. t.ok /\ t.kind \notin {"content", "add"} => Shown(f, row', linked, vectors)
        <5>1. t.ok /\ t.kind # "content" => TextsOf(vectors, f) = {t.text}
          BY <3>2, <4>1 DEF DoneStage, Others, TextsOf
        <5> QED  BY <2>1, <2>2, <3>0, <4>1, <5>1 DEF DoneStage, Shown
      <4>5. CASE goal = "idle"
        BY <2>4, <2>5, <3>3, <4>2, <4>3, <4>4, <4>5 DEF Arrives
      <4>6. CASE goal = "pick"
        <5>1. t.kind = "reindex"
          BY <2>4, <4>2, <4>6 DEF Serves
        <5>2. Others(w, row', linked, vectors)
          BY <3>3, <4>3, <4>4, <4>6, <5>1
        <5> QED  BY <2>5, <3>3, <3>5, <4>6, <5>1, <5>2
                 DEF Arrives, Stage, InOwn, InBase, InDone, InLeave, WholeStage, Same
      <4>7. CASE goal \in {"link", "sweep"}
        <5>1. t.ok /\ (goal = "link" => t.kind = "add")
          BY <2>4, <3>5, <4>2, <4>7 DEF Serves
        <5>2. w.file = f /\ w.text = t.text /\ w.ok = t.ok /\ w.olds = t.olds
          BY <2>5, <4>7 DEF Same
        <5>3. /\ Lives(row', f) /\ row'[f].content = t.text /\ row'[f].status = "completed"
              /\ row'[f].hash = t.text /\ {e.text : e \in EntriesOf(vectors, f) \ t.olds} = {t.text}
              /\ (f \notin linked => t.kind = "add")
          BY <2>1, <2>2, <3>0, <4>1, <5>1 DEF DoneStage
        <5>4. DoneStage(w, row', linked, own, vectors)
          BY <2>5, <4>2, <4>7, <5>1, <5>2, <5>3 DEF DoneStage
        <5> QED  BY <2>5, <3>3, <3>5, <4>7, <5>4
                 DEF Arrives, Stage, InOwn, InBase, InLeave, InWhole, Same
      <4> QED  BY <2>3, <2>4, <3>5, <4>2, <4>5, <4>6, <4>7 DEF Serves
    <3> QED  BY <1>1, <3>4, <3>5
  <2> HIDE DEF t, f
  <2> QED  BY <1>1, <2>1, <2>3, <2>5, CalmGoto DEF Steps, Base!Works, t
<1> QED  BY <1>3, <1>4, <1>5, <1>6, <1>7
-----------------------------------------------------------------------------
(* The steps of the routes *)

LEMMA CalmLinks ==
  ASSUME KnowledgeInv, CalmInv, NEW r \in Requests,
         Base!Link(r) \/ Base!ListBases(r) \/ Base!ReadOlds(r) \/ Base!Sweep(r) \/ Base!Clear(r)
  PROVE  CalmInv'
<1> USE DEF Base!At, Base!File
<1> DEFINE t == req[r]
           f == t.file
<1>1. /\ t.pc # "idle" /\ t \in Serving /\ f \in Files /\ t.in \in {"own", "kb"}
      /\ t.left \subseteq Files /\ Path(t)
  BY RequestShape DEF KnowledgeInv, Paths, Base!Link, Base!ListBases, Base!ReadOlds, Base!Sweep,
                      Base!Clear
<1>2. req \in [Requests -> Resting \cup Serving] /\ KnowledgeType
      /\ (Base!There(f) <=> Lives(row, f)) /\ vectors \subseteq Entries
  BY DEF KnowledgeInv, KnowledgeType, Base!There, Lives
<1>3. CASE Base!Link(r)
  <2>1. t.pc = "link" /\ Base!Works /\ row' = row /\ own' = own /\ vectors' = vectors
    BY <1>3 DEF Base!Link
  <2>2. Lives(row, f) => linked' = linked \cup {f}
    BY <1>2, <1>3 DEF Base!Link
  <2>3. ASSUME Tidy(row, linked, own, vectors), Stage(t, row, linked, own, vectors)
        PROVE  /\ Lives(row, f) /\ f \in linked' /\ t.kind \in {"upload", "add"}
               /\ t.kind = "upload" <=> t.in = "own"
               /\ t.kind = "upload" => EntriesOf(vectors, f) = {}
               /\ t.kind = "add" => Shown(f, row, linked', vectors)
               /\ Fitting(f, row, linked', own) /\ Others(t, row, linked, vectors)
               /\ Apart(f, row, linked, own, vectors, row, linked', own, vectors)
    <3>1. Others(t, row, linked, vectors)
      BY <2>3 DEF Stage
    <3>2. CASE t.in = "own"
      <4>1. OwnStage(t, row, linked, own, vectors)
        BY <2>1, <2>3, <3>2 DEF Stage, InOwn
      <4>2. Lives(row, f) /\ linked' = linked \cup {f} /\ t.kind = "upload"
            /\ EntriesOf(vectors, f) = {}
        BY <2>1, <2>2, <4>1 DEF OwnStage
      <4> QED  BY <1>1, <2>3, <3>1, <3>2, <4>2 DEF Apart, Tidy, Fitting
    <3>3. CASE t.in = "kb"
      <4>1. DoneStage(t, row, linked, own, vectors)
        BY <2>1, <2>3, <3>3 DEF Stage, InDone
      <4>2. Lives(row, f) /\ linked' = linked \cup {f} /\ t.kind = "add" /\ t.olds = {} /\ t.ok
        BY <2>1, <2>2, <3>1, <4>1 DEF DoneStage, Others
      <4>3. TextsOf(vectors, f) = {t.text}
        BY <4>1, <4>2 DEF DoneStage, TextsOf
      <4>4. Shown(f, row, linked', vectors)
        BY <2>1, <4>1, <4>2, <4>3 DEF DoneStage, Shown
      <4> QED  BY <1>1, <2>3, <3>1, <3>3, <4>2, <4>4 DEF Apart, Tidy, Fitting
    <3> QED  BY <1>1, <3>2, <3>3
  <2>4. CASE t.kind # "upload"
    <3>1. Base!Goto(r, "idle")
      BY <1>3, <2>4 DEF Base!Link
    <3>2. ASSUME NEW w, w.kind = t.kind, w.pc = "idle", Tidy(row, linked, own, vectors),
                 Stage(t, row, linked, own, vectors)
          PROVE  Arrives(w, row, linked', own, vectors)
      <4>1. t.kind = "add" /\ ~InWhole(t) /\ Distinct(vectors)
        BY <2>1, <2>3, <2>4, <3>2 DEF InWhole, Tidy
      <4>2. Tidy(row, linked', own, vectors) /\ AllShown(row, linked', vectors)
        BY <1>1, <2>3, <3>2, <4>1, FileStep, FileOthers
      <4> QED  BY <3>2, <4>2 DEF Arrives
    <3> HIDE DEF t, f
    <3> QED  BY <1>1, <2>1, <3>1, <3>2, CalmGoto DEF Base!Works, t
  <2>5. CASE t.kind = "upload"
    <3> DEFINE w == [t EXCEPT !.pc = "read", !.in = "kb"]
    <3>1. req' = [req EXCEPT ![r] = w]
      BY <1>2, <1>3, <2>5 DEF Base!Link
    <3>2. w \in Serving /\ w.pc = "read" /\ w.in = "kb" /\ w.kind = t.kind /\ w.olds = t.olds
          /\ w.file = f /\ w.left = t.left
      <4>1. "read" \in Steps
        BY DEF Steps
      <4> QED  BY <1>1, <4>1 DEF Serving
    <3> HIDE DEF w
    <3>3. ASSUME Tidy(row, linked, own, vectors), Stage(t, row, linked, own, vectors)
          PROVE  Arrives(w, row, linked', own, vectors)
      <4>1. ~InWhole(t) /\ Distinct(vectors) /\ ~InWhole(w)
        BY <2>1, <3>2, <3>3 DEF InWhole, Tidy
      <4>2. Tidy(row, linked', own, vectors) /\ Others(w, row, linked', vectors)
        BY <1>1, <2>3, <3>2, <3>3, <4>1, FileStep, FileOthers
      <4>3. BaseStage(w, row, linked', own, vectors)
        BY <2>3, <2>5, <3>2, <3>3 DEF BaseStage, Serves
      <4> QED  BY <3>2, <4>2, <4>3 DEF Arrives, Stage, InOwn, InDone, InLeave, InWhole
    <3> QED  BY <1>1, <1>2, <2>1, <3>1, <3>2, <3>3, CalmStep DEF Base!Works
  <2> QED  BY <2>4, <2>5
<1>4. CASE Base!ListBases(r)
  <2> DEFINE goal == IF f \in linked THEN "olds" ELSE "idle"
  <2>1. t.pc = "list" /\ Base!Works /\ row' = row /\ own' = own /\ vectors' = vectors
        /\ linked' = linked /\ Base!Goto(r, goal)
    BY <1>4 DEF Base!ListBases, Base!stores
  <2>2. goal \in {"olds", "idle"} /\ (goal = "olds" <=> f \in linked)
    OBVIOUS
  <2> HIDE DEF goal
  <2>3. ASSUME NEW w, w.kind = t.kind, w.pc = goal, goal # "idle" => Same(w, t),
               Tidy(row, linked, own, vectors), Stage(t, row, linked, own, vectors)
        PROVE  Arrives(w, row, linked, own, vectors)
    <3>1. t.in = "own" /\ OwnStage(t, row, linked, own, vectors) /\ t.kind = "content"
          /\ Others(t, row, linked, vectors)
      BY <2>1, <2>3 DEF Stage, InOwn, OwnStage
    <3>2. ~InWhole(t) /\ Fitting(f, row, linked, own) /\ Distinct(vectors)
          /\ Apart(f, row, linked, own, vectors, row, linked, own, vectors)
      BY <1>1, <2>1, <2>3 DEF InWhole, Tidy, Apart
    <3>3. CASE goal = "idle"
      <4>1. Shown(f, row, linked, vectors)
        BY <2>2, <3>1, <3>3 DEF OwnStage, Shown
      <4>2. AllShown(row, linked, vectors)
        BY <1>1, <2>3, <3>1, <3>2, <4>1, FileStep, FileOthers
      <4> QED  BY <2>3, <3>3, <4>2 DEF Arrives
    <3>4. CASE goal = "olds"
      <4>1. Others(w, row, linked, vectors)
        BY <2>3, <3>1, <3>2, <3>4, OthersHold DEF InWhole, Same
      <4>2. OwnStage(w, row, linked, own, vectors)
        BY <2>1, <2>2, <2>3, <3>1, <3>4 DEF OwnStage, Same
      <4> QED  BY <2>3, <3>1, <3>4, <4>1, <4>2
               DEF Arrives, Stage, InBase, InDone, InLeave, InWhole, Same
    <3> QED  BY <2>2, <3>3, <3>4
  <2> HIDE DEF t, f
  <2> QED  BY <1>1, <2>1, <2>2, <2>3, CalmGoto DEF Steps, Base!Works, t
<1>5. CASE Base!ReadOlds(r)
  <2> DEFINE o == Base!Of(f)
             w == [t EXCEPT !.pc = "read", !.in = "kb", !.olds = o]
  <2>1. t.pc = "olds" /\ Base!Works /\ row' = row /\ own' = own /\ vectors' = vectors
        /\ linked' = linked
    BY <1>1, <1>5 DEF Base!ReadOlds, Base!stores, Path
  <2>2. o \in SUBSET Entries /\ o = EntriesOf(vectors, f)
    BY <1>2 DEF Base!Of, EntriesOf
  <2>3. req' = [req EXCEPT ![r].pc = "read", ![r].in = "kb", ![r].olds = o] /\ "read" \in Steps
    BY <1>5 DEF Base!ReadOlds, Steps
  <2> HIDE DEF o
  <2>4. req' = [req EXCEPT ![r] = w]
    BY <1>2, <2>3
  <2>5. w \in Serving /\ w.pc = "read" /\ w.in = "kb" /\ w.kind = t.kind /\ w.olds = o
        /\ w.file = f /\ w.left = t.left
    BY <1>1, <2>2, <2>3 DEF Serving
  <2> HIDE DEF w
  <2>6. ASSUME Tidy(row, linked, own, vectors), Stage(t, row, linked, own, vectors)
        PROVE  Arrives(w, row, linked, own, vectors)
    <3>1. OwnStage(t, row, linked, own, vectors) /\ Others(t, row, linked, vectors)
      BY <2>1, <2>6 DEF Stage, InOwn
    <3>2. ~InWhole(t) /\ ~InWhole(w) /\ Fitting(f, row, linked, own) /\ Distinct(vectors)
          /\ Apart(f, row, linked, own, vectors, row, linked, own, vectors)
      BY <1>1, <2>1, <2>5, <2>6 DEF InWhole, Tidy, Apart
    <3>5. t.kind = "content"
      BY <2>1, <3>1 DEF OwnStage
    <3>3. Others(w, row, linked, vectors)
      BY <1>1, <2>1, <2>5, <2>6, <3>1, <3>2, <3>5, FileOthers
    <3>4. BaseStage(w, row, linked, own, vectors)
      BY <2>1, <2>2, <2>5, <3>1, <3>5 DEF OwnStage, BaseStage, Serves
    <3> QED  BY <2>5, <2>6, <3>3, <3>4 DEF Arrives, Stage, InOwn, InDone, InLeave, InWhole
  <2> QED  BY <1>1, <1>2, <2>1, <2>4, <2>5, <2>6, CalmStep DEF Base!Works
<1>6. CASE Base!Sweep(r)
  <2>1. t.pc = "sweep" /\ row' = row /\ own' = own /\ linked' = linked /\ Base!Goto(r, "idle")
        /\ t.kind \in Base!Edits /\ t.in = "kb"
    BY <1>1, <1>6 DEF Base!Sweep, Path
  <2>2. CASE Base!Fails
    BY <2>2, NotCalm
  <2>3. CASE Base!Works /\ vectors' = vectors \ t.olds
    <3>1. ASSUME NEW w, w.kind = t.kind, w.pc = "idle", Tidy(row, linked, own, vectors),
                 Stage(t, row, linked, own, vectors)
          PROVE  Arrives(w, row, linked, own, vectors')
      <4>1. DoneStage(t, row, linked, own, vectors) /\ Others(t, row, linked, vectors)
        BY <2>1, <3>1 DEF Stage, InDone
      <4>8. t.kind = "content"
        BY <2>1, <4>1 DEF DoneStage, Serves, Base!Edits
      <4>2. \A e \in t.olds : e.of = f
        BY <1>1, <2>1 DEF Path
      <4>3. EntriesOf(vectors', f) = EntriesOf(vectors, f) \ t.olds
            /\ \A g \in Files \ {f} : EntriesOf(vectors', g) = EntriesOf(vectors, g)
        BY <2>3, <4>2 DEF EntriesOf
      <4>4. TextsOf(vectors', f) = {t.text}
        BY <2>1, <4>1, <4>3 DEF DoneStage, TextsOf
      <4>5. Shown(f, row, linked, vectors')
        BY <2>1, <4>1, <4>4, <4>8 DEF DoneStage, Shown
      <4>6. Distinct(vectors') /\ Fitting(f, row, linked, own) /\ ~InWhole(t)
            /\ Apart(f, row, linked, own, vectors, row, linked, own, vectors')
        BY <1>1, <2>1, <2>3, <3>1, <4>3 DEF Distinct, Tidy, InWhole, Apart
      <4>7. Tidy(row, linked, own, vectors') /\ AllShown(row, linked, vectors')
        BY <1>1, <2>1, <3>1, <4>1, <4>5, <4>6, <4>8, FileStep, FileOthers
      <4> QED  BY <3>1, <4>7 DEF Arrives
    <3> HIDE DEF t, f
    <3> QED  BY <1>1, <2>1, <2>3, <3>1, CalmGoto DEF Base!Works, t
  <2> QED  BY <1>6, <2>2, <2>3 DEF Base!Sweep
<1>7. CASE Base!Clear(r)
  <2>1. t.pc = "clear" /\ row' = row /\ own' = own /\ linked' = linked
    BY <1>7 DEF Base!Clear
  <2>2. CASE Base!Fails
    BY <2>2, NotCalm
  <2>3. CASE Base!Works /\ vectors' = vectors \ Base!Of(f) /\ Base!Goto(r, "read")
    <3>1. ASSUME NEW w, w.kind = t.kind, w.pc = "read", Same(w, t),
                 Tidy(row, linked, own, vectors), Stage(t, row, linked, own, vectors)
          PROVE  Arrives(w, row, linked, own, vectors')
      <4>1. t.kind = "readd" /\ f \in linked /\ t.in = "kb" /\ Others(t, row, linked, vectors)
        BY <2>1, <3>1 DEF Stage
      <4>2. EntriesOf(vectors', f) = {} /\ vectors' \subseteq vectors
            /\ \A g \in Files \ {f} : EntriesOf(vectors', g) = EntriesOf(vectors, g)
        BY <2>3 DEF EntriesOf, Base!Of
      <4>3. Distinct(vectors') /\ Fitting(f, row, linked, own) /\ ~InWhole(t) /\ ~InWhole(w)
            /\ Apart(f, row, linked, own, vectors, row, linked, own, vectors')
        BY <1>1, <2>1, <3>1, <4>2 DEF Distinct, Tidy, InWhole, Apart
      <4>4. Tidy(row, linked, own, vectors') /\ Others(w, row, linked, vectors')
        BY <1>1, <3>1, <4>1, <4>3, FileStep, FileOthers DEF Same
      <4>5. BaseStage(w, row, linked, own, vectors')
        BY <3>1, <4>1, <4>2, <4>3 DEF BaseStage, Serves, Same, Fitting
      <4> QED  BY <3>1, <4>1, <4>4, <4>5
               DEF Arrives, Stage, InOwn, InDone, InLeave, InWhole, Same
    <3> HIDE DEF t, f
    <3> QED  BY <1>1, <2>1, <2>3, <3>1, CalmGoto DEF Steps, Base!Works, t
  <2> QED  BY <1>7, <2>2, <2>3 DEF Base!Clear
<1> QED  BY <1>3, <1>4, <1>5, <1>6, <1>7

LEMMA CalmLeaves ==
  ASSUME KnowledgeInv, CalmInv, NEW r \in Requests,
         \/ Base!Unlink(r) \/ Base!DropFile(r) \/ Base!DropHash(r) \/ Base!DiscardOwn(r)
         \/ Base!DeleteRow(r) \/ Base!DropRest(r)
  PROVE  CalmInv'
<1> USE DEF Base!At, Base!File
<1> DEFINE t == req[r]
           f == t.file
<1>1. /\ t.pc # "idle" /\ t \in Serving /\ f \in Files /\ t.left \subseteq Files
      /\ t.pc \in {"unlink", "dropFile", "dropHash", "discardOwn", "deleteRow", "dropRest"}
  BY RequestShape DEF KnowledgeInv, Base!Unlink, Base!DropFile, Base!DropHash, Base!DiscardOwn,
                      Base!DeleteRow, Base!DropRest
<1>2. row \in [Files -> Rows] /\ own \in [Files -> SUBSET Contents]
  BY DEF KnowledgeInv, KnowledgeType
<1>3. Base!Fails => CalmInv'
  BY NotCalm
\* What every such step leaves: the file is on its way out, or out.
<1>4. ASSUME NEW goal \in {"dropFile", "dropHash", "discardOwn", "deleteRow", "dropRest", "idle"},
             Base!Goto(r, goal), Base!Works,
             Apart(f, row, linked, own, vectors, row', linked', own', vectors'),
             vectors' \subseteq vectors,
             /\ Tidy(row, linked, own, vectors) /\ LeaveStage(t, linked, vectors)
             => /\ Fitting(f, row', linked', own') /\ f \notin linked'
                /\ goal # "dropFile" => EntriesOf(vectors', f) = {}
                /\ goal \in {"dropFile", "dropHash"} => Sole(f, t.hash, vectors)
      PROVE  CalmInv'
  <2>1. ASSUME NEW w, w.kind = t.kind, w.pc = goal, goal # "idle" => Same(w, t),
               Tidy(row, linked, own, vectors), Stage(t, row, linked, own, vectors)
        PROVE  Arrives(w, row', linked', own', vectors')
    <3>1. LeaveStage(t, linked, vectors) /\ Others(t, row, linked, vectors) /\ ~InWhole(t)
          /\ t.kind # "reindex"
      BY <1>1, <2>1 DEF Stage, InLeave, InWhole, LeaveStage
    <3>2. /\ Fitting(f, row', linked', own') /\ f \notin linked'
          /\ goal # "dropFile" => EntriesOf(vectors', f) = {}
          /\ goal \in {"dropFile", "dropHash"} => Sole(f, t.hash, vectors')
      BY <1>4, <2>1, <3>1 DEF Sole
    <3>3. Distinct(vectors')
      BY <1>4, <2>1 DEF Distinct, Tidy
    <3>4. /\ Tidy(row', linked', own', vectors')
          /\ goal # "idle" => Others(w, row', linked', vectors')
          /\ Shown(f, row', linked', vectors') => AllShown(row', linked', vectors')
      <4>1. goal # "idle" => ~InWhole(w)
        BY <2>1 DEF InWhole
      <4>2. f = t.file
        OBVIOUS
      <4> HIDE DEF t, f
      <4>3. /\ Tidy(row', linked', own', vectors')
            /\ Shown(f, row', linked', vectors') => AllShown(row', linked', vectors')
        BY <1>1, <1>4, <2>1, <3>1, <3>2, <3>3, <4>2, FileStep
      <4>4. CASE goal # "idle"
        <5>1. w.kind = t.kind /\ w.file = t.file /\ w.left = t.left /\ w.olds = t.olds
          BY <2>1, <4>4 DEF Same
        <5>2. Others(w, row', linked', vectors')
          BY <1>1, <1>4, <2>1, <3>1, <3>2, <3>3, <4>1, <4>2, <4>4, <5>1, FileOthers
        <5> QED  BY <4>3, <5>2
      <4> QED  BY <4>3, <4>4
    <3>5. CASE goal = "idle"
      <4>1. Shown(f, row', linked', vectors')
        BY <3>2, <3>5 DEF Shown
      <4> QED  BY <2>1, <3>4, <3>5, <4>1 DEF Arrives
    <3>6. CASE goal # "idle"
      <4>1. LeaveStage(w, linked', vectors')
        BY <2>1, <3>1, <3>2, <3>6 DEF LeaveStage, Same
      <4> QED  BY <2>1, <3>4, <3>6, <4>1 DEF Arrives, Stage, InOwn, InBase, InDone, InWhole
    <3> QED  BY <3>5, <3>6
  <2> HIDE DEF t, f
  <2> QED  BY <1>1, <1>4, <2>1, CalmGoto DEF Steps, Base!Works, t
<1>5. CASE Base!Unlink(r)
  <2>1. t.pc = "unlink" /\ Base!Goto(r, "dropFile") /\ Base!Works /\ linked' = linked \ {f}
        /\ row' = row /\ own' = own /\ vectors' = vectors
    BY <1>5 DEF Base!Unlink
  <2>2. Apart(f, row, linked, own, vectors, row', linked', own', vectors')
    BY <2>1 DEF Apart
  <2>3. Tidy(row, linked, own, vectors) /\ LeaveStage(t, linked, vectors)
        => /\ Fitting(f, row', linked', own') /\ f \notin linked' /\ Sole(f, t.hash, vectors)
    BY <1>1, <2>1 DEF Tidy, Fitting, LeaveStage
  <2> HIDE DEF t, f
  <2> QED  BY <1>4, <2>1, <2>2, <2>3
<1>6. CASE Base!DropFile(r)
  <2>1. t.pc = "dropFile" /\ row' = row /\ own' = own /\ linked' = linked
    BY <1>6 DEF Base!DropFile
  <2>2. CASE Base!Works /\ vectors' = vectors \ Base!Of(f) /\ Base!Goto(r, "dropHash")
    <3>1. EntriesOf(vectors', f) = {} /\ vectors' \subseteq vectors
          /\ \A g \in Files \ {f} : EntriesOf(vectors', g) = EntriesOf(vectors, g)
      BY <2>2 DEF EntriesOf, Base!Of
    <3>2. Apart(f, row, linked, own, vectors, row', linked', own', vectors')
      BY <2>1, <3>1 DEF Apart
    <3>3. Tidy(row, linked, own, vectors) /\ LeaveStage(t, linked, vectors)
          => Fitting(f, row', linked', own') /\ f \notin linked' /\ Sole(f, t.hash, vectors)
      BY <1>1, <2>1 DEF Tidy, Fitting, LeaveStage
    <3> HIDE DEF t, f
    <3> QED  BY <1>4, <2>2, <3>1, <3>2, <3>3
  <2> QED  BY <1>3, <1>6, <2>2 DEF Base!DropFile
<1>7. CASE Base!DropHash(r)
  <2> DEFINE goal == Base!Unlisted(r)
  <2>1. t.pc = "dropHash" /\ row' = row /\ own' = own /\ linked' = linked /\ Base!Goto(r, goal)
    BY <1>7 DEF Base!DropHash
  <2>2. goal \in {"idle", "discardOwn", "deleteRow"}
    BY DEF Base!Unlisted
  <2> HIDE DEF goal
  <2>3. CASE Base!Works /\ vectors' = {e \in vectors : t.hash = Blank \/ e.hash # t.hash}
    <3>1. vectors' \subseteq vectors
      BY <2>3
    <3>2. LeaveStage(t, linked, vectors) => vectors' = vectors /\ EntriesOf(vectors, f) = {}
      BY <2>1, <2>3 DEF LeaveStage, Sole, EntriesOf
    <3>3. CASE LeaveStage(t, linked, vectors)
      <4>1. Apart(f, row, linked, own, vectors, row', linked', own', vectors')
        BY <2>1, <3>2, <3>3 DEF Apart
      <4>2. Tidy(row, linked, own, vectors)
            => Fitting(f, row', linked', own') /\ f \notin linked' /\ EntriesOf(vectors', f) = {}
        BY <1>1, <2>1, <3>2, <3>3 DEF Tidy, Fitting, LeaveStage
      <4> HIDE DEF t, f
      <4> QED  BY <1>4, <2>1, <2>2, <2>3, <3>1, <4>1, <4>2
    <3>4. CASE ~LeaveStage(t, linked, vectors)
      <4>1. ~Stage(t, row, linked, own, vectors)
        BY <2>1, <3>4 DEF Stage, InLeave
      <4> HIDE DEF t, f
      <4> QED  BY <1>1, <2>1, <2>2, <2>3, <4>1, CalmGoto DEF Steps, Base!Works, t
    <3> QED  BY <3>3, <3>4
  <2> QED  BY <1>3, <1>7, <2>3 DEF Base!DropHash
<1>8. CASE Base!DiscardOwn(r)
  <2>1. t.pc = "discardOwn" /\ row' = row /\ vectors' = vectors /\ linked' = linked
        /\ Base!Goto(r, "deleteRow")
    BY <1>8 DEF Base!DiscardOwn
  <2>2. CASE Base!Works /\ own' = [own EXCEPT ![f] = {}]
    <3>1. own'[f] = {} /\ \A g \in Files \ {f} : own'[g] = own[g]
      BY <1>1, <1>2, <2>2
    <3>2. Apart(f, row, linked, own, vectors, row', linked', own', vectors')
      BY <2>1, <3>1 DEF Apart
    <3>3. Tidy(row, linked, own, vectors) /\ LeaveStage(t, linked, vectors)
          => Fitting(f, row', linked', own') /\ f \notin linked' /\ EntriesOf(vectors', f) = {}
      BY <1>1, <2>1, <3>1 DEF Tidy, Fitting, LeaveStage
    <3> HIDE DEF t, f
    <3> QED  BY <1>4, <2>1, <2>2, <3>2, <3>3
  <2> QED  BY <1>3, <1>8, <2>2 DEF Base!DiscardOwn
<1>9. CASE Base!DeleteRow(r)
  <2>1. PICK goal \in {"dropRest", "idle"} : Base!Goto(r, goal)
    BY <1>9 DEF Base!DeleteRow
  <2>2. t.pc = "deleteRow" /\ Base!Works /\ vectors' = vectors /\ own' = own
        /\ row' = [row EXCEPT ![f] = Base!Gone] /\ linked' \in {linked, linked \ {f}}
    BY <1>9 DEF Base!DeleteRow
  <2>3. row'[f] = Base!Gone /\ \A g \in Files \ {f} : row'[g] = row[g]
    BY <1>1, <1>2, <2>2
  <2>4. ~Lives(row', f) /\ row'[f] # Base!Unborn
    BY <2>3 DEF Lives, Base!Gone, Base!Unborn
  <2>5. Apart(f, row, linked, own, vectors, row', linked', own', vectors')
    BY <2>2, <2>3 DEF Apart
  <2>6. Tidy(row, linked, own, vectors) /\ LeaveStage(t, linked, vectors)
        => Fitting(f, row', linked', own') /\ f \notin linked' /\ EntriesOf(vectors', f) = {}
    BY <2>2, <2>4 DEF Fitting, LeaveStage
  <2> HIDE DEF t, f
  <2> QED  BY <1>4, <2>1, <2>2, <2>5, <2>6
<1>10. CASE Base!DropRest(r)
  <2>1. t.pc = "dropRest" /\ Base!Works /\ vectors' = vectors /\ row' = row /\ linked' = linked
        /\ Base!Goto(r, "idle")
    BY <1>10 DEF Base!DropRest
  <2>2. own'[f] \subseteq own[f] /\ \A g \in Files \ {f} : own'[g] = own[g]
    BY <1>1, <1>2, <1>10 DEF Base!DropRest
  <2>3. Apart(f, row, linked, own, vectors, row', linked', own', vectors')
    BY <2>1, <2>2 DEF Apart
  <2>4. Tidy(row, linked, own, vectors) /\ LeaveStage(t, linked, vectors)
        => Fitting(f, row', linked', own') /\ f \notin linked' /\ EntriesOf(vectors', f) = {}
    BY <1>1, <2>1, <2>2 DEF Tidy, Fitting, LeaveStage
  <2> HIDE DEF t, f
  <2> QED  BY <1>4, <2>1, <2>3, <2>4
<1> QED  BY <1>5, <1>6, <1>7, <1>8, <1>9, <1>10

LEMMA CalmWholes ==
  ASSUME KnowledgeInv, CalmInv, NEW r \in Requests,
         Base!DropIndex(r) \/ Base!UnlinkAll(r) \/ Base!Pick(r)
  PROVE  CalmInv'
<1> USE DEF Base!At, Base!File
<1> DEFINE t == req[r]
<1>1. t.pc # "idle" /\ t \in Serving /\ t.left \subseteq Files
      /\ t.pc \in {"dropIndex", "unlinkAll", "pick"}
  BY RequestShape DEF KnowledgeInv, Base!DropIndex, Base!UnlinkAll, Base!Pick
<1>2. req \in [Requests -> Resting \cup Serving] /\ KnowledgeType /\ linked \subseteq Files
  BY DEF KnowledgeInv, KnowledgeType
<1>3. ASSUME Stage(t, row, linked, own, vectors)
      PROVE  WholeStage(t, linked, vectors) /\ Others(t, row, linked, vectors)
  BY <1>1, <1>3 DEF Stage, InWhole
<1>4. CASE Base!DropIndex(r)
  <2>1. t.pc = "dropIndex" /\ row' = row /\ own' = own /\ linked' = linked
    BY <1>4 DEF Base!DropIndex
  <2> DEFINE goal == IF t.kind = "reset" THEN "unlinkAll" ELSE "pick"
  <2>2. CASE Base!Works /\ vectors' = {} /\ Base!Goto(r, goal)
    <3>1. goal \in {"unlinkAll", "pick"} /\ (goal = "unlinkAll" <=> t.kind = "reset")
      OBVIOUS
    <3>2. Base!Goto(r, goal)
      BY <2>2
    <3> HIDE DEF goal
    <3>3. \A g : EntriesOf({}, g) = {}
      BY DEF EntriesOf
    <3>4. ASSUME NEW w, w.kind = t.kind, w.pc = goal, Same(w, t),
                 Tidy(row, linked, own, vectors), Stage(t, row, linked, own, vectors)
          PROVE  Arrives(w, row, linked, own, {})
      <4>1. WholeStage(t, linked, vectors) /\ Others(t, row, linked, vectors)
        BY <1>3, <3>4
      <4>2. Tidy(row, linked, own, {})
        BY <3>4 DEF Tidy, Distinct
      <4>3. t.kind \in {"reset", "reindex"} /\ w.left = t.left /\ w.olds = t.olds /\ w.in = "kb"
            /\ (t.kind = "reindex" => t.left = linked) /\ (t.kind = "reset" => t.left = {})
        BY <2>1, <3>4, <4>1 DEF WholeStage, Others, Same
      <4>4. Others(w, row, linked, {})
        BY <3>1, <3>3, <3>4, <4>1, <4>3 DEF Others, Away, Shown, InWhole
      <4>5. WholeStage(w, linked, {})
        BY <3>1, <3>4, <4>3 DEF WholeStage
      <4> QED  BY <3>1, <3>4, <4>2, <4>3, <4>4, <4>5
               DEF Arrives, Stage, InOwn, InBase, InDone, InLeave
    <3> HIDE DEF t
    <3> QED  BY <1>1, <2>1, <2>2, <3>1, <3>2, <3>4, CalmGoto DEF Steps, Base!Works, t
  <2> QED  BY <1>4, <2>2, NotCalm DEF Base!DropIndex
<1>5. CASE Base!UnlinkAll(r)
  <2>1. t.pc = "unlinkAll" /\ row' = row /\ own' = own /\ linked' = {} /\ vectors' = vectors
        /\ Base!Goto(r, "idle") /\ Base!Works
    BY <1>5 DEF Base!UnlinkAll
  <2>2. ASSUME NEW w, w.kind = t.kind, w.pc = "idle",
               Tidy(row, linked, own, vectors), Stage(t, row, linked, own, vectors)
        PROVE  Arrives(w, row, {}, own, vectors)
    <3>1. vectors = {}
      BY <1>3, <2>1, <2>2 DEF WholeStage
    <3> QED  BY <2>2, <3>1 DEF Arrives, AllShown, Shown, EntriesOf, Tidy, Fitting
  <2> HIDE DEF t
  <2> QED  BY <1>1, <2>1, <2>2, CalmGoto DEF Base!Works, t
<1>6. CASE Base!Pick(r)
  <2>1. t.pc = "pick" /\ row' = row /\ own' = own /\ linked' = linked /\ vectors' = vectors
        /\ Base!Works
    BY <1>6 DEF Base!Pick, Base!stores
  <2>2. CASE t.left = {} /\ Base!Goto(r, "idle")
    <3>1. ASSUME NEW w, w.kind = t.kind, w.pc = "idle",
                 Tidy(row, linked, own, vectors), Stage(t, row, linked, own, vectors)
          PROVE  Arrives(w, row, linked, own, vectors)
      <4>1. AllShown(row, linked, vectors)
        BY <1>3, <2>1, <2>2, <3>1 DEF Others, Away, AllShown
      <4> QED  BY <3>1, <4>1 DEF Arrives
    <3> HIDE DEF t
    <3> QED  BY <1>1, <2>1, <2>2, <3>1, CalmGoto DEF Base!Works, t
  <2>3. ASSUME NEW f \in t.left,
               req' = [req EXCEPT ![r].pc = "read", ![r].file = f, ![r].left = @ \ {f}]
        PROVE  CalmInv'
    <3> DEFINE rest == t.left \ {f}
               w == [t EXCEPT !.pc = "read", !.file = f, !.left = rest]
    <3>1. "read" \in Steps /\ f \in Files /\ rest \in SUBSET Files
      BY <1>1, <2>3 DEF Steps
    <3>2. req' = [req EXCEPT ![r].pc = "read", ![r].file = f, ![r].left = rest]
      BY <1>2, <2>3
    <3>3. t.left = rest \cup {f} /\ f \notin rest
      BY <2>3
    <3> HIDE DEF rest
    <3>4. req' = [req EXCEPT ![r] = w]
      BY <1>2, <3>2
    <3>5. w \in Serving /\ w.pc = "read" /\ w.kind = t.kind /\ w.olds = t.olds /\ w.file = f
          /\ w.left = rest /\ w.in = t.in
      BY <1>1, <3>1 DEF Serving
    <3> HIDE DEF w
    <3>6. ASSUME Tidy(row, linked, own, vectors), Stage(t, row, linked, own, vectors)
          PROVE  Arrives(w, row, linked, own, vectors)
      <4>1. t.kind = "reindex" /\ t.in = "kb" /\ Others(t, row, linked, vectors)
        BY <1>3, <2>1, <3>6 DEF WholeStage
      <4>2. Others(w, row, linked, vectors)
        BY <2>1, <3>3, <3>5, <4>1 DEF Others, Away, InWhole
      <4>3. f \in linked /\ EntriesOf(vectors, f) = {}
        BY <2>1, <2>3, <4>1 DEF Others
      <4>4. Lives(row, f)
        BY <3>1, <3>6, <4>3 DEF Tidy, Fitting
      <4>5. BaseStage(w, row, linked, own, vectors)
        BY <3>5, <4>1, <4>3, <4>4 DEF BaseStage, Serves
      <4> QED  BY <3>5, <3>6, <4>1, <4>2, <4>5
               DEF Arrives, Stage, InOwn, InDone, InLeave, InWhole
    <3> QED  BY <1>1, <1>2, <2>1, <3>4, <3>5, <3>6, CalmStep DEF Base!Works
  <2> QED  BY <1>6, <2>2, <2>3 DEF Base!Pick
<1> QED  BY <1>4, <1>5, <1>6

\* A batch spoils, and a fault ends the calm.
LEMMA CalmSpoilt ==
  ASSUME KnowledgeInv, CalmInv, NEW r \in Requests,
         Base!BatchInsert(r) \/ Base!BatchRow(r) \/ Base!ReadFails(r) \/ Base!Die(r)
  PROVE  CalmInv'
<1>1. CASE Base!ReadFails(r) \/ Base!Die(r)
  BY <1>1, NotCalm DEF Base!ReadFails, Base!Die
<1>2. CASE Base!BatchInsert(r) \/ Base!BatchRow(r)
  <2>1. req[r].pc \in {"batchInsert", "batchRow"} /\ (Base!Works \/ Base!Fails)
    BY <1>2 DEF Base!BatchInsert, Base!BatchRow, Base!At
  <2>2. req[r].kind \in Base!Spoiling /\ req[r].pc # "idle"
    BY <2>1 DEF KnowledgeInv, Paths, Path, Base!Spoiling
  <2>3. PICK goal \in {"batchRow", "idle", "link"} : Base!Goto(r, goal)
    BY <1>2 DEF Base!BatchInsert, Base!BatchRow
  <2>4. calm' => calm
    BY <2>1 DEF Base!Works, Base!Fails
  <2> QED  BY <2>2, <2>3, <2>4, CalmGoto DEF Steps
<1> QED  BY <1>1, <1>2
-----------------------------------------------------------------------------
\* No two files that are in the knowledge base at the beginning hold one text.
OneOfEachText == \A f, g \in Listed : FirstContent[f] = FirstContent[g] => f = g

LEMMA InitCalm ==
  ASSUME OneOfEachText, Base!Init
  PROVE  CalmInv
<1> USE DEF Base!Init
<1>1. \A r \in Requests : req[r].pc = "idle"
  BY DEF Requests, Base!Idle
<1>2. \A f \in Files : row[f] = Base!Unborn \/ \E c \in Contents : row[f] = Base!Processed(c)
  OBVIOUS
<1>3. \A c : /\ Base!Processed(c).is = "there" /\ Base!Processed(c).content = c
             /\ Base!Processed(c).hash = c
  BY DEF Base!Processed, Base!Row
<1>4. \A f \in Files : Fitting(f, row, linked, own)
  <2> TAKE f \in Files
  <2>1. own[f] = IF Lives(row, f) THEN {row[f].content} ELSE {}
    BY DEF Lives, Base!There
  <2>2. f \in linked => Lives(row, f)
    BY <1>3 DEF Lives
  <2>3. row[f] = Base!Unborn => ~Lives(row, f)
    BY DEF Lives, Base!Unborn
  <2> QED  BY <2>1, <2>2, <2>3 DEF Fitting
<1>5. \A e \in vectors : e.of \in Listed /\ e.text = FirstContent[e.of] /\ e.hash = e.text
  BY DEF Base!Entry
<1>6. Distinct(vectors)
  BY <1>5 DEF Distinct, OneOfEachText
<1>7. AllShown(row, linked, vectors)
  <2> SUFFICES ASSUME NEW f \in Files PROVE Shown(f, row, linked, vectors)
    BY DEF AllShown
  <2>1. CASE f \notin Listed
    BY <1>5, <2>1 DEF Shown, EntriesOf
  <2>2. CASE f \in Listed
    <3>1. \A e \in EntriesOf(vectors, f) : e.text = FirstContent[f]
      BY <1>5 DEF EntriesOf
    <3>2. Base!Entry(f, 0, FirstContent[f], FirstContent[f]) \in EntriesOf(vectors, f)
      BY <2>2 DEF EntriesOf, Base!Entry
    <3>3. Base!Entry(f, 0, FirstContent[f], FirstContent[f]).text = FirstContent[f]
      BY DEF Base!Entry
    <3>4. TextsOf(vectors, f) = {FirstContent[f]}
      BY <3>1, <3>2, <3>3 DEF TextsOf
    <3> QED  BY <1>3, <2>2, <3>4 DEF Shown
  <2> QED  BY <2>1, <2>2
<1> QED  BY <1>1, <1>4, <1>6, <1>7 DEF CalmInv, Tidy

LEMMA NextCalm ==
  ASSUME KnowledgeInv, CalmInv, Base!Next
  PROVE  CalmInv'
<1>1. \A r \in Requests, f \in Files, c \in Contents :
        \/ Base!Add(r, f) \/ Base!Batch(r, f) \/ Base!Readd(r, f) \/ Base!Remove(r, f)
        \/ Base!Delete(r, f) \/ Base!Upload(r, f, c) \/ Base!UpdateContent(r, f, c)
        \/ Base!Reset(r) \/ Base!Reindex(r)
        => CalmInv'
  BY CalmBegins
<1>2. \A r \in Requests :
        \/ Base!Read(r) \/ Base!ReadOwn(r) \/ Base!Check(r)
        \/ Base!DropOwn(r) \/ Base!Write(r) \/ Base!Insert(r)
        \/ Base!WriteStatus(r) \/ Base!WriteHash(r)
        => CalmInv'
  BY CalmReads, CalmWrites
<1>3. \A r \in Requests :
        \/ Base!Link(r) \/ Base!ListBases(r) \/ Base!ReadOlds(r) \/ Base!Sweep(r) \/ Base!Clear(r)
        \/ Base!Unlink(r) \/ Base!DropFile(r) \/ Base!DropHash(r) \/ Base!DiscardOwn(r)
        \/ Base!DeleteRow(r) \/ Base!DropRest(r)
        => CalmInv'
  BY CalmLinks, CalmLeaves
<1>4. \A r \in Requests :
        \/ Base!DropIndex(r) \/ Base!UnlinkAll(r) \/ Base!Pick(r)
        \/ Base!BatchInsert(r) \/ Base!BatchRow(r) \/ Base!ReadFails(r) \/ Base!Die(r)
        => CalmInv'
  BY CalmWholes, CalmSpoilt
<1>5. Contents # {} /\ Files # {}
  BY KnowledgeAssumption
<1> QED  BY <1>1, <1>2, <1>3, <1>4, <1>5 DEF Base!Next, Requests

LEMMA CalmStays ==
  ASSUME CalmInv, UNCHANGED knowledge
  PROVE  CalmInv'
<1>1. Plain' = Plain /\ Base!Quiet' = Base!Quiet
  BY DEF knowledge, Plain, Base!Quiet, Base!Over
<1> QED  BY <1>1 DEF CalmInv, knowledge

LEMMA CalmHolds ==
  ASSUME OneOfEachText
  PROVE  DocumentsSpec => []CalmInv
<1>1. DocumentsInit => CalmInv
  BY InitCalm DEF DocumentsInit
<1>2. KnowledgeInv /\ CalmInv /\ [DocumentsNext]_<<part, vars, knowledge>> => CalmInv'
  <2>1. ASSUME KnowledgeInv, CalmInv, DocumentsNext PROVE CalmInv'
    BY <2>1, NextCalm, CalmStays DEF DocumentsNext
  <2>2. ASSUME CalmInv, UNCHANGED <<part, vars, knowledge>> PROVE CalmInv'
    BY <2>2, CalmStays
  <2> QED  BY <2>1, <2>2
<1> QED  BY <1>1, <1>2, KnowledgeHolds, PTL DEF DocumentsSpec

(* Requests one after the other, without a fault, leave in the collection   *)
(* of a knowledge base the present content of every linked file that was    *)
(* processed, and nothing of any other file: what process_file, the sweep   *)
(* of old entries and the deletions by file and by hash leave behind is     *)
(* right after any number of requests, in any order, when no batch and no   *)
(* retry of a file whose update failed is among them.                       *)
THEOREM IndexStaysCurrent ==
  ASSUME OneOfEachText
  PROVE  DocumentsSpec => []IndexIsCurrent
<1>1. KnowledgeInv /\ CalmInv => IndexIsCurrent
  <2> SUFFICES ASSUME KnowledgeInv, CalmInv, calm, Base!Quiet, Plain
               PROVE  /\ \A f \in linked : Base!There(f) /\ row[f].status = "completed" =>
                             {e.text : e \in Base!Of(f)} = {row[f].content}
                      /\ \A f \in Files \ linked : Base!Of(f) = {}
    BY DEF IndexIsCurrent, Base!IndexIsCurrent, Plain, Requests
  <2>1. AllShown(row, linked, vectors)
    BY DEF CalmInv
  <2>2. linked \subseteq Files
    BY DEF KnowledgeInv, KnowledgeType
  <2>3. \A f : Base!Of(f) = EntriesOf(vectors, f)
    BY DEF Base!Of, EntriesOf
  <2> QED  BY <2>1, <2>2, <2>3 DEF AllShown, Shown, TextsOf, Base!There
<1> QED  BY <1>1, KnowledgeHolds, CalmHolds, PTL
=============================================================================
