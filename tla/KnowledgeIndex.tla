--------------------------- MODULE KnowledgeIndex ---------------------------
(***************************************************************************)
(* The files of one knowledge base and its vector collection: the routes   *)
(* of routers/knowledge.py and routers/files.py over process_file and      *)
(* save_docs_to_vector_db (routers/retrieval.py).  The rows are in SQL and *)
(* the vectors in another store; no transaction spans the two, and every   *)
(* call on either is a step of its own.                                    *)
(*                                                                         *)
(* A content stands for a text, for its hash and for the chunks it is cut  *)
(* into.  Access checks pass, and embedding is not bypassed.               *)
(***************************************************************************)
EXTENDS Naturals, FiniteSets

CONSTANTS
    Files, Contents,
    Listed,        \* files that are in the knowledge base at the beginning
    FirstContent,  \* and what is in each
    Blank,         \* no text, or no hash
    Kinds,         \* the requests that are made
    MaxRequests, MaxRacing, MaxInFlight, MaxFaults   \* bounds

VARIABLES
    row,     \* the row of each file
    linked,  \* files with a knowledge_file row
    own,     \* the collection file-{id} of each file: the texts in it
    index,   \* the collection of the knowledge base: [of, by, text, hash]
    req,     \* the requests, by number
    calm,    \* no two requests overlapped, nothing failed
    faults

stores == <<row, linked, own, index>>
vars == <<stores, req, calm, faults>>

Requests == 1..MaxRequests
AllKinds == {"attach", "upload", "add", "retry", "batch", "readd", "content", "empty",
             "remove", "discard", "delete", "reset", "reindex"}
Edits == {"content", "empty"} \* updates of the content, the second with ''

Unborn == [is |-> "unborn"]    \* not uploaded yet
Gone == [is |-> "gone"]
Row(content, hash, status) ==
    [is |-> "there", content |-> content, hash |-> hash, status |-> status]
Processed(c) == Row(c, c, "completed")
There(f) == row[f].is = "there"

Entry(f, r, text, hash) == [of |-> f, by |-> r, text |-> text, hash |-> hash]
Of(f) == {e \in index : e.of = f}

Idle == [kind |-> "none", pc |-> "idle"]
Started(r) == req[r].kind # "none"
Over(r) == req[r].pc = "idle"
Quiet == \A r \in Requests : Over(r)

TypeOK ==
    /\ row \in [Files -> {Unborn, Gone} \cup
           {Row(c, h, s) : c \in Contents \cup {Blank}, h \in Contents \cup {Blank},
                           s \in {"pending", "completed", "failed"}}]
    /\ linked \subseteq Files
    /\ own \in [Files -> SUBSET Contents]
    /\ \A e \in index : /\ e.of \in Files /\ e.by \in 0..MaxRequests
                        /\ e.text \in Contents /\ e.hash \in Contents \cup {Blank}
    /\ \A r \in Requests : req[r].kind \in AllKinds \cup {"none"}
    /\ calm \in BOOLEAN /\ faults \in 0..MaxFaults

Init ==
    /\ row \in [Files -> {Unborn} \cup {Processed(c) : c \in Contents}]
    /\ \A f \in Listed : row[f] = Processed(FirstContent[f])
    /\ linked = Listed
    /\ own = [f \in Files |-> IF There(f) THEN {row[f].content} ELSE {}]
    /\ index = {Entry(f, 0, FirstContent[f], FirstContent[f]) : f \in Listed}
    /\ req = [r \in Requests |-> Idle]
    /\ calm = TRUE /\ faults = 0
-----------------------------------------------------------------------------
(* What a request holds: the file it is about, where process_file is to    *)
(* put the vectors ("own" or "kb"), the text it was given or has read, its *)
(* chunks, the hash of the row it read, whether the processing succeeded,  *)
(* the entries to sweep and the files still to reindex.                    *)
At(r, at) == req[r].pc = at
File(r) == req[r].file
Goto(r, at) ==
    req' = [req EXCEPT ![r] = IF at = "idle" THEN [kind |-> @.kind, pc |-> "idle"]
                              ELSE [@ EXCEPT !.pc = at]]
Works == UNCHANGED <<calm, faults>>
Fails == faults < MaxFaults /\ faults' = faults + 1 /\ calm' = FALSE

\* A request that may still begin.  The first MaxRacing may overlap and fail.
Upcoming == {r \in Requests : ~Started(r) /\ \A q \in 1..(r - 1) : Started(q)}
MayStart(r) ==
    /\ r \in Upcoming
    /\ r > MaxRacing => calm /\ Quiet
    /\ Cardinality({q \in Requests : ~Over(q)}) < MaxInFlight

Begin(r, kind, f, at, in, text) ==
    /\ MayStart(r) /\ kind \in Kinds
    /\ req' = [req EXCEPT ![r] =
           [kind |-> kind, pc |-> at, file |-> f, in |-> in, text |-> text, docs |-> {},
            hash |-> IF There(f) THEN row[f].hash ELSE Blank,
            ok |-> FALSE, olds |-> {},
            left |-> IF kind = "reindex" THEN {g \in linked : There(g)} ELSE {}]]
    /\ calm' = (calm /\ Quiet)
    /\ UNCHANGED faults

\* upload_file_handler, of a file for the chat or for the knowledge base.
Upload(r, f, c) ==
    /\ row[f] = Unborn
    /\ \E kind \in {"attach", "upload"} : Begin(r, kind, f, "read", "own", c)
    /\ row' = [row EXCEPT ![f] = Row(Blank, Blank, "pending")]
    /\ UNCHANGED <<linked, own, index>>

\* Whether the file is linked is not asked.  It is a retry for a linked file
\* that is not processed, whose last update failed.
Add(r, f) ==
    /\ There(f)
    /\ Begin(r, IF f \in linked /\ row[f].status # "completed" THEN "retry" ELSE "add",
             f, "read", "kb", Blank)
    /\ UNCHANGED stores

\* Several files at once: the ones that are linked are left out.
Batch(r, f) ==
    /\ There(f) /\ f \notin linked
    /\ Begin(r, "batch", f, "batchInsert", "kb", row[f].content)
    /\ UNCHANGED stores

Readd(r, f) ==
    /\ There(f) /\ f \in linked
    /\ Begin(r, "readd", f, "clear", "kb", Blank) /\ UNCHANGED stores

\* An empty content counts as none: c is then what the loader, whose settings may
\* have changed, makes of the stored file.
UpdateContent(r, f, c) ==
    /\ There(f)
    /\ \E kind \in Edits : Begin(r, kind, f, "read", "own", c)
    /\ UNCHANGED stores

\* With delete_file = FALSE and TRUE.
Remove(r, f) ==
    /\ There(f) /\ f \in linked
    /\ \E kind \in {"remove", "discard"} : Begin(r, kind, f, "unlink", "kb", Blank)
    /\ UNCHANGED stores

Delete(r, f) ==
    /\ There(f)
    /\ Begin(r, "delete", f, IF f \in linked THEN "unlink" ELSE "deleteRow", "kb", Blank)
    /\ UNCHANGED stores

\* These are about no file.
Any == CHOOSE f \in Files : TRUE
Reset(r) == Begin(r, "reset", Any, "dropIndex", "kb", Blank) /\ UNCHANGED stores
Reindex(r) == Begin(r, "reindex", Any, "dropIndex", "kb", Blank) /\ UNCHANGED stores
-----------------------------------------------------------------------------
(* process_file *)

\* Mutant: nothing removes the entries of the old content.
CallerLeavesOld(r, ok) ==
    CASE req[r].kind \in {"add", "retry"} /\ ok -> "link"
      [] req[r].kind = "upload" /\ req[r].in = "own" /\ ok -> "link"
      [] req[r].kind \in Edits /\ req[r].in = "own" -> "list"
      [] req[r].kind = "reindex" -> "pick"
      [] OTHER -> "idle"

\* Where the caller goes on when it has returned (ok) or raised.
Caller(r, ok) ==
    CASE req[r].kind \in {"add", "retry"} /\ ok -> "link"
      [] req[r].kind = "upload" /\ req[r].in = "own" /\ ok -> "link"
      [] req[r].kind \in Edits /\ req[r].in = "own" -> "list"
      [] req[r].kind \in Edits /\ req[r].in = "kb" /\ ok -> "sweep"
      [] req[r].kind = "reindex" -> "pick"
      [] OTHER -> "idle"

\* The row: without one it raises, and no status is written.
Read(r) ==
    /\ At(r, "read")
    /\ IF ~There(File(r)) THEN Goto(r, Caller(r, FALSE))
       ELSE req' = [req EXCEPT
                ![r].pc = IF req[r].in = "kb" THEN "own"
                          ELSE IF req[r].kind = "content" THEN "dropOwn" ELSE "write",
                ![r].text = IF req[r].in = "kb" THEN row[File(r)].content ELSE @,
                ![r].docs = {req[r].text}]
    /\ Works /\ UNCHANGED stores

\* A stored file that cannot be loaded.
ReadFails(r) ==
    /\ At(r, "read") /\ req[r].in = "own" /\ req[r].kind # "content" /\ There(File(r))
    /\ req' = [req EXCEPT ![r].pc = "status", ![r].ok = FALSE]
    /\ Fails /\ UNCHANGED stores

\* Given a new content; an error is ignored.
DropOwn(r) ==
    /\ At(r, "dropOwn") /\ Goto(r, "write")
    /\ \/ Works /\ own' = [own EXCEPT ![File(r)] = {}]
       \/ Fails /\ UNCHANGED own
    /\ UNCHANGED <<row, linked, index>>

\* For a knowledge base: the chunks the file has already, or else its text.
ReadOwn(r) ==
    /\ At(r, "own")
    /\ req' = [req EXCEPT ![r].pc = "write",
           ![r].docs = IF own[File(r)] # {} THEN own[File(r)] ELSE {req[r].text}]
    /\ Works /\ UNCHANGED stores

Write(r) ==
    /\ At(r, "write") /\ Goto(r, "check")
    /\ row' = IF There(File(r)) THEN [row EXCEPT ![File(r)].content = req[r].text] ELSE row
    /\ Works /\ UNCHANGED <<linked, own, index>>

\* save_docs_to_vector_db: the hash may be there, of the same file or of
\* another (of several entries the query returns any first) ...
Twins(r) == {e \in index : e.hash = req[r].text}
Unique(r) == Twins(r) = {} \/ \E e \in Twins(r) : e.of = File(r)
Duplicate(r) == \E e \in Twins(r) : e.of # File(r)

\* ... and only a knowledge base adds to a collection that is there.
Check(r) ==
    /\ At(r, "check")
    /\ \/ /\ req[r].docs = {Blank} \/ (req[r].in = "kb" /\ Duplicate(r))
          /\ req' = [req EXCEPT ![r].pc = "status", ![r].ok = FALSE]
       \/ /\ req[r].docs # {Blank} /\ (req[r].in = "kb" => Unique(r))
          /\ req' = [req EXCEPT ![r].ok = TRUE,
                 ![r].pc = IF req[r].in = "own" /\ own[File(r)] # {} THEN "status"
                           ELSE "insert"]
    /\ Works /\ UNCHANGED stores

\* After the embedding, which may fail.
Insert(r) ==
    /\ At(r, "insert")
    /\ \/ /\ Works /\ Goto(r, "status")
          /\ IF req[r].in = "own"
             THEN own' = [own EXCEPT ![File(r)] = @ \cup req[r].docs] /\ UNCHANGED index
             ELSE index' = index \cup {Entry(File(r), r, t, req[r].text) : t \in req[r].docs}
                  /\ UNCHANGED own
       \/ /\ Fails /\ req' = [req EXCEPT ![r].pc = "status", ![r].ok = FALSE]
          /\ UNCHANGED <<own, index>>
    /\ UNCHANGED <<row, linked>>

\* The outcome is written, the status first and then the hash.
WriteStatus(r) ==
    /\ At(r, "status") /\ Goto(r, "hash")
    /\ row' = IF ~There(File(r)) THEN row
              ELSE [row EXCEPT ![File(r)].status = IF req[r].ok THEN "completed" ELSE "failed"]
    /\ Works /\ UNCHANGED <<linked, own, index>>

WriteHash(r) ==
    /\ At(r, "hash") /\ Goto(r, Caller(r, req[r].ok))
    /\ row' = IF ~There(File(r)) THEN row
              ELSE [row EXCEPT ![File(r)].hash = IF req[r].ok THEN req[r].text ELSE Blank]
    /\ Works /\ UNCHANGED <<linked, own, index>>
-----------------------------------------------------------------------------
(* The routes *)

\* A row of a file that is gone is refused by PostgreSQL only.  An uploaded
\* file is processed for the knowledge base once it is linked.
Link(r) ==
    /\ At(r, "link")
    /\ linked' = linked \cup {File(r)} \/ (~There(File(r)) /\ UNCHANGED linked)
    /\ IF req[r].kind = "upload"
       THEN req' = [req EXCEPT ![r].pc = "read", ![r].in = "kb"]
       ELSE Goto(r, "idle")
    /\ Works /\ UNCHANGED <<row, own, index>>

\* process_files_batch looks for no duplicate and stores no hash.
BatchInsert(r) ==
    /\ At(r, "batchInsert")
    /\ \/ /\ req[r].text # Blank /\ Works /\ Goto(r, "batchRow")
          /\ index' = index \cup {Entry(File(r), r, req[r].text, Blank)}
       \/ req[r].text # Blank /\ Fails /\ Goto(r, "idle") /\ UNCHANGED index
       \/ req[r].text = Blank /\ Works /\ Goto(r, "idle") /\ UNCHANGED index
    /\ UNCHANGED <<row, linked, own>>

BatchRow(r) ==
    /\ At(r, "batchRow") /\ Goto(r, "link")
    /\ row' = IF ~There(File(r)) THEN row
              ELSE [row EXCEPT ![File(r)] = Row(req[r].text, req[r].text, @.status)]
    /\ Works /\ UNCHANGED <<linked, own, index>>

\* A new content goes to the knowledge bases of the file, even when its own
\* processing failed: the entries there now go when the new ones are in.
ListBases(r) ==
    /\ At(r, "list") /\ Goto(r, IF File(r) \in linked THEN "olds" ELSE "idle")
    /\ Works /\ UNCHANGED stores

ReadOlds(r) ==
    /\ At(r, "olds")
    /\ req' = [req EXCEPT ![r].pc = "read", ![r].in = "kb", ![r].olds = Of(File(r))]
    /\ Works /\ UNCHANGED stores

\* Mutant: all entries of the file, by its id, as the other routes do.
SweepByFile(r) ==
    /\ At(r, "sweep") /\ Goto(r, "idle")
    /\ Works /\ index' = index \ Of(File(r))
    /\ UNCHANGED <<row, linked, own>>

Sweep(r) ==
    /\ At(r, "sweep") /\ Goto(r, "idle")
    /\ \/ Works /\ index' = index \ req[r].olds
       \/ Fails /\ UNCHANGED index
    /\ UNCHANGED <<row, linked, own>>

Clear(r) ==
    /\ At(r, "clear")
    /\ \/ Works /\ index' = index \ Of(File(r)) /\ Goto(r, "read")
       \/ Fails /\ UNCHANGED index /\ Goto(r, "idle")
    /\ UNCHANGED <<row, linked, own>>

Unlink(r) ==
    /\ At(r, "unlink") /\ Goto(r, "dropFile")
    /\ linked' = linked \ {File(r)}
    /\ Works /\ UNCHANGED <<row, own, index>>

Unlisted(r) == CASE req[r].kind = "remove" -> "idle" [] req[r].kind = "discard" -> "discardOwn"
                 [] OTHER -> "deleteRow"

\* By file_id and then by hash; an error in the first skips the second.
DropFile(r) ==
    /\ At(r, "dropFile")
    /\ \/ Works /\ index' = index \ Of(File(r)) /\ Goto(r, "dropHash")
       \/ Fails /\ UNCHANGED index /\ Goto(r, Unlisted(r))
    /\ UNCHANGED <<row, linked, own>>

DropHash(r) ==
    /\ At(r, "dropHash") /\ Goto(r, Unlisted(r))
    /\ \/ Works /\ index' = {e \in index : req[r].hash = Blank \/ e.hash # req[r].hash}
       \/ Fails /\ UNCHANGED index
    /\ UNCHANGED <<row, linked, own>>

DiscardOwn(r) ==
    /\ At(r, "discardOwn") /\ Goto(r, "deleteRow")
    /\ \/ Works /\ own' = [own EXCEPT ![File(r)] = {}]
       \/ Fails /\ UNCHANGED own
    /\ UNCHANGED <<row, linked, index>>

\* The foreign key cascades on PostgreSQL only.
DeleteRow(r) ==
    /\ At(r, "deleteRow") /\ Goto(r, IF req[r].kind = "delete" THEN "dropRest" ELSE "idle")
    /\ row' = [row EXCEPT ![File(r)] = Gone]
    /\ linked' \in {linked, linked \ {File(r)}}
    /\ Works /\ UNCHANGED <<own, index>>

\* A delete without ids and filter: some vector stores delete all, some nothing.
DropRest(r) ==
    /\ At(r, "dropRest") /\ Goto(r, "idle")
    /\ \E rest \in {own[File(r)], {}} : own' = [own EXCEPT ![File(r)] = rest]
    /\ Works /\ UNCHANGED <<row, linked, index>>

\* Errors: a reset goes on, and a reindexing leaves the knowledge base alone.
DropIndex(r) ==
    /\ At(r, "dropIndex")
    /\ \/ /\ Works /\ index' = {}
          /\ Goto(r, IF req[r].kind = "reset" THEN "unlinkAll" ELSE "pick")
       \/ /\ Fails /\ UNCHANGED index
          /\ Goto(r, IF req[r].kind = "reset" THEN "unlinkAll" ELSE "idle")
    /\ UNCHANGED <<row, linked, own>>

UnlinkAll(r) ==
    /\ At(r, "unlinkAll") /\ Goto(r, "idle")
    /\ linked' = {}
    /\ Works /\ UNCHANGED <<row, own, index>>

\* The next file to reindex; one that fails does not stop the others.
Pick(r) ==
    /\ At(r, "pick")
    /\ \/ req[r].left = {} /\ Goto(r, "idle")
       \/ \E f \in req[r].left :
             req' = [req EXCEPT ![r].pc = "read", ![r].file = f, ![r].left = @ \ {f}]
    /\ Works /\ UNCHANGED stores

\* The process dies with the request.
Die(r) == ~Over(r) /\ Goto(r, "idle") /\ Fails /\ UNCHANGED stores

Next ==
    \/ \E r \in Requests, f \in Files :
          \/ Add(r, f) \/ Batch(r, f) \/ Readd(r, f) \/ Remove(r, f) \/ Delete(r, f)
          \/ \E c \in Contents : Upload(r, f, c) \/ UpdateContent(r, f, c)
    \/ \E r \in Requests :
          \/ Reset(r) \/ Reindex(r)
          \/ Read(r) \/ ReadFails(r) \/ DropOwn(r) \/ ReadOwn(r) \/ Write(r) \/ Check(r)
          \/ Insert(r) \/ WriteStatus(r) \/ WriteHash(r)
          \/ Link(r) \/ BatchInsert(r) \/ BatchRow(r) \/ ListBases(r) \/ ReadOlds(r)
          \/ Sweep(r) \/ Clear(r) \/ Unlink(r) \/ DropFile(r) \/ DropHash(r)
          \/ DiscardOwn(r) \/ DeleteRow(r) \/ DropRest(r) \/ DropIndex(r) \/ UnlinkAll(r)
          \/ Pick(r) \/ Die(r)

Spec == Init /\ [][Next]_vars
-----------------------------------------------------------------------------
(* Properties *)

\* An update of the content keeps a file searchable: the new entries are added
\* before the old ones go ("so a failed reindex keeps the KB usable"), and
\* updates at the same time do not delete one another's, whatever fails.
Removing == {"readd", "remove", "discard", "delete", "reset", "reindex"}
UsableWhileUpdated ==
    (\A r \in Requests : req[r].kind \notin Removing) => \A f \in Listed : Of(f) # {}

\* Requests one after the other, and without a fault, leave the collection with
\* the present content of every file whose processing succeeded, and with
\* nothing of a file that is not in the knowledge base.  Three kinds of requests
\* break it: batches look for no duplicates, and a removal then takes the entries
\* of both files; a retry clears nothing, so that the entries of the content
\* before an update that failed stay beside the new ones; an update with an empty
\* content gives the row the text of the stored file, but its own collection is
\* there already and keeps its chunks, which then go to the knowledge base too.
Spoiling == {"batch", "retry", "empty"}
IndexIsCurrent ==
    calm /\ Quiet /\ (\A r \in Requests : req[r].kind \notin Spoiling) =>
        /\ \A f \in linked : There(f) /\ row[f].status = "completed" =>
               {e.text : e \in Of(f)} = {row[f].content}
        /\ \A f \in Files \ linked : Of(f) = {}
=============================================================================
