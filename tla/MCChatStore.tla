---------------------------- MODULE MCChatStore ----------------------------
(* A chat of one exchange and the turn a browser may send next.            *)
EXTENDS ChatStore

Exchange == [order |-> <<1, 2>>, current |-> 2,
             msg |-> (1 :> Message(None, <<2>>, TRUE)) @@ (2 :> Message(1, <<>>, TRUE))]

WholeOrNone == {{1, 2}, {}}
\* The jobs are alike.
JobSymmetry == Permutations(Jobs)

OneModel == {[user |-> 3, replies |-> <<4>>]}
=============================================================================
