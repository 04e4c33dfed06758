--------------------------- MODULE MCTaskRegistry ---------------------------
(* Model values for TLC.  Fan-out: one request creates the tasks of two     *)
(* models.  Two requests: the same chat is used through two instances.      *)
EXTENDS TaskRegistry, TLC

CONSTANTS i1, i2, c1, r1, r2, t1, t2

HomeOfOne    == [r \in {r1} |-> i1]
ChatOfOne    == [r \in {r1} |-> c1]
FanOutTasks  == [t \in {t1, t2} |-> r1]
LoneTask     == [t \in {t1} |-> r1]

HomeOfTwo    == [r \in {r1, r2} |-> IF r = r1 THEN i1 ELSE i2]
ChatOfTwo    == [r \in {r1, r2} |-> c1]
OneTaskEach  == [t \in {t1, t2} |-> IF t = t1 THEN r1 ELSE r2]

\* The instances are alike, together with the request and the task of each.
Swap == (i1 :> i2) @@ (i2 :> i1) @@ (r1 :> r2) @@ (r2 :> r1) @@ (t1 :> t2) @@ (t2 :> t1)
InstanceSymmetry ==
    {p \in Permutations(DOMAIN Swap) : p = Swap \/ p = [v \in DOMAIN Swap |-> v]}
=============================================================================
