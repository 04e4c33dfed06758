----------------------------- MODULE MCServices -----------------------------
(***************************************************************************)
(* Small instances for TLC: an event and two workers, one of which may     *)
(* die; two processes with a session each; two requests and two logins for *)
(* OAuth sessions; three processes and three lists of models; three        *)
(* directories and a request of each kind; two processes that check a      *)
(* limit of two in four seconds; two tool calls and one continuation;      *)
(* processes slower than their lock.                                       *)
(***************************************************************************)
EXTENDS Services, TLC

CONSTANTS p1, p2, s1, s2, r1, r2, l1, l2, n1, n2, n3

\* The process of each session.
HomeOfTwo == (s1 :> p1) @@ (s2 :> p2)

\* Nothing, and two lists that differ.
ThreeLists == {{}, {n1, n2}, {n1, n3}}

\* The requests are alike and so are the logins.
Symmetry == Permutations({r1, r2}) \cup Permutations({l1, l2})
=============================================================================
