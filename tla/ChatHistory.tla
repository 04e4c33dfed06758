---------------------------- MODULE ChatHistory ----------------------------
(* The message tree of a chat, and what models/chats.py does with it.      *)
(*                                                                         *)
(* A history is the "history" object of the chat document: `msg` maps the  *)
(* identifiers to the messages, `order` is the order of the dictionary and *)
(* `current` the selected message. Of a message the model keeps parentId,  *)
(* childrenIds and whether its text is complete. Identifiers are natural   *)
(* numbers in the order of creation, so they also stand for timestamps.    *)
EXTENDS Integers, SequencesExt

CONSTANT None                         \* no parent, no selected message

Known(h) == DOMAIN h.msg

(* The entries of `new` in front of those of `old`: {**old, **new}.         *)
Over(new, old) ==
    [x \in DOMAIN new \cup DOMAIN old |-> IF x \in DOMAIN new THEN new[x] ELSE old[x]]

(* The elements of a list that are in a set. *)
Sublist(s, T) ==
    LET f[i \in 0..Len(s)] ==
            IF i = 0 THEN <<>> ELSE IF s[i] \in T THEN Append(f[i - 1], s[i]) ELSE f[i - 1]
    IN  f[Len(s)]

Message(parent, children, done) == [parent |-> parent, children |-> children, done |-> done]

(* childrenIds without the identifiers the dictionary does not have. *)
Listed(h, m) == Sublist(h.msg[m].children, Known(h))

Born(msg, p) == {m \in DOMAIN msg : msg[m].parent = p}

Roots(h) == Sublist(h.order, Born(h.msg, None))

----------------------------------------------------------------------------
(* From `start`, the last child of the last child ..., as long as there is *)
(* one; no message is visited twice in a tree.                             *)
LastLeaf(h, start) ==
    LET Step(m) == IF m \in Known(h) /\ h.msg[m].children # <<>>
                   THEN Last(h.msg[m].children) ELSE m
        walk[n \in 0..Len(h.order)] == IF n = 0 THEN start ELSE Step(walk[n - 1])
    IN  walk[Len(h.order)]

DeletedWith(h, m) == {m} \cup Range(Listed(h, m))

Grandchildren(h, m) ==
    FlattenSeq([i \in DOMAIN Listed(h, m) |-> Listed(h, Listed(h, m)[i])])

(* Mutant: the grandchildren keep their parent. *)
NotMoved(h, m) ==
    LET gone == DeletedWith(h, m)
        Rest(x) == [h.msg[x] EXCEPT
                      !.children = IF x = h.msg[m].parent
                                   THEN Sublist(@, Range(@) \ {m}) \o Grandchildren(h, m)
                                   ELSE @]
    IN  [h EXCEPT !.order = Sublist(@, Known(h) \ gone),
                  !.msg   = [x \in Known(h) \ gone |-> Rest(x)]]

(* The message goes with its children; its grandchildren move to its       *)
(* parent.                                                                 *)
Without(h, m) ==
    LET gone   == DeletedWith(h, m)
        moved  == Grandchildren(h, m)
        parent == h.msg[m].parent
        Rest(x) == [h.msg[x] EXCEPT
                      !.parent   = IF x \in Range(moved) THEN parent ELSE @,
                      !.children = IF x = parent
                                   THEN Sublist(@, Range(@) \ {m}) \o moved ELSE @]
    IN  [h EXCEPT !.order = Sublist(@, Known(h) \ gone),
                  !.msg   = [x \in Known(h) \ gone |-> Rest(x)]]

(* Mutant: the selection is not changed. *)
StillSelected(left, parent) == left.current

(* After a deletion the last leaf under the parent is selected. *)
SelectedBelow(left, parent) ==
    LET below == IF parent = None THEN Roots(left)
                 ELSE IF parent \in Known(left) THEN left.msg[parent].children ELSE <<>>
        leaf  == IF below = <<>> THEN parent ELSE LastLeaf(left, Last(below))
    IN  IF leaf \in Known(left) THEN leaf ELSE None

DeleteMessage(h, m) ==
    LET left == Without(h, m)
    IN  [left EXCEPT !.current = SelectedBelow(left, h.msg[m].parent)]

----------------------------------------------------------------------------
(* Mutant: the incoming messages are appended, known or not. *)
MergeAppends(existing, incoming) ==
    [order   |-> existing.order \o incoming.order,
     msg     |-> Over(incoming.msg, existing.msg),
     current |-> incoming.current]

(* The union of two histories, where the incoming message wins; childrenIds *)
(* are recomputed from the parents.                                        *)
MergeHistory(existing, incoming) ==
    LET msg   == Over(incoming.msg, existing.msg)
        order == existing.order \o Sublist(incoming.order, Known(incoming) \ Known(existing))
    IN  [order   |-> order,
         msg     |-> [m \in DOMAIN msg |-> [msg[m] EXCEPT !.children = Sublist(order, Born(msg, m))]],
         current |-> IF incoming.current \in DOMAIN msg THEN incoming.current
                     ELSE IF existing.current \in DOMAIN msg THEN existing.current
                     ELSE None]

----------------------------------------------------------------------------
(* Writing the fields `data` of a message. A message that the history does *)
(* not have is inserted: a parent that is not given is looked for among    *)
(* the childrenIds, whose list is left alone.                              *)
ListedBy(h, m) ==
    LET by == Sublist(h.order, {p \in Known(h) : m \in Range(h.msg[p].children)})
    IN  IF by = <<>> THEN None ELSE Head(by)

Inserted(h, m, data) ==
    LET full == Over(data, Message(None, <<>>, FALSE))
    IN  [full EXCEPT !.parent = IF @ = None THEN ListedBy(h, m) ELSE @]

UpsertMessage(h, m, data) ==
    IF m \in Known(h)
    THEN [h EXCEPT !.msg[m] = Over(data, @), !.current = m]
    ELSE [order   |-> Append(h.order, m),
          msg     |-> [x \in Known(h) \cup {m} |->
                         IF x = m THEN Inserted(h, m, data) ELSE h.msg[x]],
          current |-> m]

----------------------------------------------------------------------------
(* What every reading of a chat repairs: a selected message that does not  *)
(* exist is replaced by the newest leaf.                                   *)
RepairCurrent(h) ==
    LET leaves == {m \in Known(h) : h.msg[m].children = <<>>}
    IN  IF h.current \in Known(h) \/ leaves = {} THEN h
        ELSE [h EXCEPT !.current = Max(leaves)]

(* The parents that messages name and the map does not have. *)
Unresolved(msg) == {msg[m].parent : m \in DOMAIN msg} \ (DOMAIN msg \cup {None})
=============================================================================
