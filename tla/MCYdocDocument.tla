--------------------------- MODULE MCYdocDocument ---------------------------
(* Model values for TLC: who makes which edit.                              *)
EXTENDS YdocDocument

CONSTANTS s1, s2, u1, u2, u3, u4, u5, u6

SixByOne == [u \in {u1, u2, u3, u4, u5, u6} |-> s1]
=============================================================================
