---------------------------- MODULE MCDocuments -----------------------------
(***************************************************************************)
(* Small instances for TLC: two sessions and four edits of a note; two     *)
(* files, of which one is in the knowledge base, with two contents.        *)
(***************************************************************************)
EXTENDS Documents

CONSTANTS s1, s2, u1, u2, u3, u4, f1, f2, c1, c2

\* Who makes which edit.
LastByOther == [u \in {u1, u2, u3, u4} |-> IF u = u4 THEN s2 ELSE s1]

\* What is in the file of the knowledge base.
FirstContents == [f \in {f1} |-> c1]
=============================================================================
