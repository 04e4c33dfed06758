--------------------------- MODULE DirectoryTree ----------------------------
(***************************************************************************)
(* The directories of one knowledge base (models/knowledge.py, with the    *)
(* checks of routers/knowledge.py), on SQLite, the default database: one   *)
(* writer at a time, a SELECT sees what is committed, and foreign keys are *)
(* not enforced, since nothing sets PRAGMA foreign_keys (internal/db.py).  *)
(***************************************************************************)
CONSTANTS
    Dirs, Files,
    Root,              \* parent_id or directory_id is null
    NoRow,             \* there is no such row
    Movers, Deleters, Filers  \* requests that move or delete a directory, or move a file

VARIABLES
    parent,  \* parent_id of each directory
    place,   \* directory_id of each file
    fresh,   \* ids not used yet
    move,    \* of each mover: what goes where, and how far its walk is
    del,     \* of each deleter: the directory, its parent, what happens to files
    filing   \* of each filer: which file goes where

treeVars == <<parent, place, fresh, move, del, filing>>

Rows == {d \in Dirs : parent[d] # NoRow}
Known == (Dirs \ fresh) \cup {Root}    \* what a browser may name, deleted or not
Free == [at |-> "free"]

Init ==
    /\ parent = [d \in Dirs |-> NoRow]
    /\ place = [f \in Files |-> Root]
    /\ fresh = Dirs
    /\ move = [m \in Movers |-> Free]
    /\ del = [x \in Deleters |-> Free]
    /\ filing = [v \in Filers |-> Free]
-----------------------------------------------------------------------------
\* create_directory: the parent is not looked up.
Create(d, p) ==
    /\ d \in fresh /\ p \in Known
    /\ fresh' = fresh \ {d}
    /\ parent' = [parent EXCEPT ![d] = p]
    /\ UNCHANGED <<place, move, del, filing>>

\* update_directory: the directory is there; move_directory walks up from the
\* new parent.
MoveBegin(m, d, to) ==
    /\ move[m] = Free /\ d \in Rows /\ to \in Known
    /\ move' = [move EXCEPT ![m] = [at |-> "walk", dir |-> d, to |-> to, cur |-> to, seen |-> {}]]
    /\ UNCHANGED <<parent, place, fresh, del, filing>>

Walking(m) == move[m].at = "walk" /\ move[m].cur \in Dirs \ move[m].seen

\* Mutant: the walk looks at the ancestors of the new parent only.
MeetsItselfAbove(m) == move[m].cur = move[m].dir /\ move[m].seen # {}

MeetsItself(m) == move[m].cur = move[m].dir

MoveRefused(m) ==
    /\ Walking(m) /\ MeetsItself(m)
    /\ move' = [move EXCEPT ![m] = Free]
    /\ UNCHANGED <<parent, place, fresh, del, filing>>

MoveWalk(m) ==
    /\ Walking(m) /\ ~MeetsItself(m)
    /\ move' = [move EXCEPT ![m].seen = @ \cup {move[m].cur}, ![m].cur = parent[move[m].cur]]
    /\ UNCHANGED <<parent, place, fresh, del, filing>>

\* The UPDATE, of a row that may be gone by now.
MoveUpdate(m) ==
    /\ move[m].at = "walk" /\ ~Walking(m)
    /\ parent' = IF move[m].dir \in Rows
                 THEN [parent EXCEPT ![move[m].dir] = move[m].to] ELSE parent
    /\ move' = [move EXCEPT ![m] = Free]
    /\ UNCHANGED <<place, fresh, del, filing>>
-----------------------------------------------------------------------------
\* delete_directory: the row is read for its parent ...
DeleteLoad(x, d, keep) ==
    /\ del[x] = Free /\ d \in Rows
    /\ del' = [del EXCEPT ![x] = [at |-> "commit", dir |-> d, up |-> parent[d], keep |-> keep]]
    /\ UNCHANGED <<parent, place, fresh, move, filing>>

Subtree(d) ==
    {e \in Dirs : \A T \in SUBSET Dirs :
        d \in T /\ (\A c \in Dirs : parent[c] \in T => c \in T) => e \in T}

\* ... and in one transaction the files of all directories below it go to that
\* parent, or are deleted, and the row goes, alone.  In a cycle the recursion
\* ends in an error, and the transaction is rolled back.
DeleteCommit(x) ==
    LET d == del[x].dir IN
    /\ del[x].at = "commit"
    /\ IF parent[d] \in Subtree(d) THEN UNCHANGED <<parent, place>>
       ELSE /\ parent' = [parent EXCEPT ![d] = NoRow]
            /\ place' = [f \in Files |-> IF place[f] \notin Subtree(d) THEN place[f]
                                         ELSE IF del[x].keep THEN del[x].up ELSE NoRow]
    /\ del' = [del EXCEPT ![x] = Free]
    /\ UNCHANGED <<fresh, move, filing>>

\* move_file_in_knowledge: the file and the directory are there ...
FileCheck(v, f, to) ==
    /\ filing[v] = Free /\ place[f] # NoRow /\ to \in Rows \cup {Root}
    /\ filing' = [filing EXCEPT ![v] = [at |-> "update", file |-> f, to |-> to]]
    /\ UNCHANGED <<parent, place, fresh, move, del>>

\* ... and the row is updated, if it still is.
FileUpdate(v) ==
    /\ filing[v].at = "update"
    /\ place' = IF place[filing[v].file] = NoRow THEN place
                ELSE [place EXCEPT ![filing[v].file] = filing[v].to]
    /\ filing' = [filing EXCEPT ![v] = Free]
    /\ UNCHANGED <<parent, fresh, move, del>>

Next ==
    \/ \E d \in Dirs, p \in Dirs \cup {Root} : Create(d, p)
    \/ \E m \in Movers : \/ \E d \in Dirs, to \in Dirs \cup {Root} : MoveBegin(m, d, to)
                         \/ MoveRefused(m) \/ MoveWalk(m) \/ MoveUpdate(m)
    \/ \E x \in Deleters : \/ \E d \in Dirs, keep \in BOOLEAN : DeleteLoad(x, d, keep)
                           \/ DeleteCommit(x)
    \/ \E v \in Filers : \/ \E f \in Files, to \in Dirs \cup {Root} : FileCheck(v, f, to)
                         \/ FileUpdate(v)

Spec == Init /\ [][Next]_treeVars
-----------------------------------------------------------------------------
Nodes == Dirs \cup {Root, NoRow}

TypeOK ==
    /\ parent \in [Dirs -> Nodes]
    /\ place \in [Files -> Nodes]
    /\ fresh \subseteq Dirs
    /\ \A m \in Movers : move[m] = Free \/ move[m] \in
           [at : {"walk"}, dir : Dirs, to : Dirs \cup {Root}, cur : Nodes, seen : SUBSET Dirs]
    /\ \A x \in Deleters : del[x] = Free \/ del[x] \in
           [at : {"commit"}, dir : Dirs, up : Nodes \ {NoRow}, keep : BOOLEAN]
    /\ \A v \in Filers : filing[v] = Free \/ filing[v] \in
           [at : {"update"}, file : Files, to : Dirs \cup {Root}]

\* move_directory, "Move a directory to a new parent, with cycle detection":
\* while no two directories are moved at the same time, no directory is below
\* itself, although the walk and the update are separate transactions and
\* directories are created and deleted in between.  (A set of directories that
\* contains all their parents has a cycle.)
NoCycle == \A S \in SUBSET Dirs : S = {} \/ \E d \in S : parent[d] \notin S
=============================================================================
