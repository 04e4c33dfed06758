------------------------------ MODULE Documents -----------------------------
(***************************************************************************)
(* A note that is edited together and the files of a knowledge base. They  *)
(* share no state, so a behaviour exercises one of them, which `part`      *)
(* names, and the other does not move.                                     *)
(***************************************************************************)
EXTENDS YdocDocument

CONSTANTS
    \* KnowledgeIndex
    Files, Contents, Listed, FirstContent, Blank, Kinds,
    MaxRequests, MaxRacing, MaxAtOnce, MaxFaults

VARIABLES part, row, linked, own, vectors, req, calm, faults
knowledge == <<row, linked, own, vectors, req, calm, faults>>

Base == INSTANCE KnowledgeIndex WITH MaxInFlight <- MaxAtOnce, index <- vectors

\* The files of the knowledge base have a content each, which is some text.
ASSUME KnowledgeAssumption ==
    /\ Listed \subseteq Files /\ Files # {}
    /\ FirstContent \in [Listed -> Contents] /\ Contents # {} /\ Blank \notin Contents
    /\ Kinds \subseteq Base!AllKinds
    /\ MaxRequests \in Nat /\ MaxFaults \in Nat

\* The part that does not run starts in one state only.
DocumentsInit ==
    /\ part \in {"note", "knowledge"}
    /\ Init
    /\ Base!Init /\ (part = "knowledge" \/ \A f \in Files \ Listed : row[f] = Base!Unborn)

DocumentsNext ==
    /\ UNCHANGED part
    /\ \/ part = "note" /\ Next /\ UNCHANGED knowledge
       \/ part = "knowledge" /\ Base!Next /\ UNCHANGED vars

DocumentsSpec == DocumentsInit /\ [][DocumentsNext]_<<part, vars, knowledge>>
-----------------------------------------------------------------------------
\* The types of the note's variables, and of the knowledge base's.
DocumentsTypeOK == TypeOK /\ (part = "knowledge" => Base!TypeOK)

\* An update of its content never makes a file unsearchable (Base).
UsableWhileUpdated == part = "knowledge" => Base!UsableWhileUpdated

\* Requests that do not overlap leave every file with its present content (Base).
IndexIsCurrent == part = "knowledge" => Base!IndexIsCurrent
=============================================================================
