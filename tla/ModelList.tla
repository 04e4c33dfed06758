----------------------------- MODULE ModelList ------------------------------
(***************************************************************************)
(* request.app.state.MODELS: the Redis hash in which every server process  *)
(* stores the list of models it has put together, with RedisDict.set of    *)
(* socket/utils.py, as get_all_models of utils/models.py calls it.  The    *)
(* calls of a set are separate round trips, and the processes interleave.  *)
(* An entry is its model's name: the values are left out.                  *)
(***************************************************************************)
CONSTANTS
    Writers,   \* server processes
    Lists,     \* the sets of models that get_all_models may come up with
    Unknown    \* no signature

VARIABLES
    hash,      \* the models in the Redis hash
    signature, \* of each process: _last_signature, the list it wrote last
    setting,   \* of each process: where its set is, which list, what it removes
    alone      \* processes that use a dictionary of their own since an error

modelVars == <<hash, signature, setting, alone>>

Nothing == [at |-> "idle", list |-> {}, remove |-> {}]

Init ==
    /\ hash = {}
    /\ signature = [p \in Writers |-> Unknown]
    /\ setting = [p \in Writers |-> Nothing]
    /\ alone = {}
-----------------------------------------------------------------------------
Begins(p) == p \notin alone /\ setting[p] = Nothing
EndSet(p) == setting' = [setting EXCEPT ![p] = Nothing]
Sign(p, list) == signature' = [signature EXCEPT ![p] = list]

\* Mutant: the signature stays.
ClearKeepsSignature(p) ==
    /\ Begins(p) /\ {} \in Lists
    /\ hash' = {}
    /\ UNCHANGED <<signature, setting, alone>>

\* No model at all: the hash is deleted.
Clear(p) ==
    /\ Begins(p) /\ {} \in Lists
    /\ hash' = {}
    /\ Sign(p, Unknown)
    /\ UNCHANGED <<setting, alone>>

\* Mutant: the hash is deleted first, as an earlier version did.
ReadKeysDeletes(p) ==
    /\ Begins(p)
    /\ \E list \in Lists \ {{}, signature[p]} :
        setting' = [setting EXCEPT ![p] = [at |-> "hset", list |-> list, remove |-> {}]]
    /\ hash' = {}
    /\ UNCHANGED <<signature, alone>>

\* A list other than the last one of this process (else nothing is written):
\* HKEYS;
ReadKeys(p) ==
    /\ Begins(p)
    /\ \E list \in Lists \ {{}, signature[p]} :
        setting' = [setting EXCEPT ![p] =
                        [at |-> "hset", list |-> list, remove |-> hash \ list]]
    /\ UNCHANGED <<hash, signature, alone>>

\* HSET of the new entries, and the end of it if none is stale;
WriteEntries(p) ==
    /\ setting[p].at = "hset"
    /\ hash' = hash \cup setting[p].list
    /\ IF setting[p].remove = {} THEN Sign(p, setting[p].list) /\ EndSet(p)
       ELSE setting' = [setting EXCEPT ![p].at = "hdel"] /\ UNCHANGED signature
    /\ UNCHANGED alone

\* HDEL of the keys that were stale when they were read.
RemoveEntries(p) ==
    /\ setting[p].at = "hdel"
    /\ hash' = hash \ setting[p].remove
    /\ Sign(p, setting[p].list) /\ EndSet(p)
    /\ UNCHANGED alone

\* A call fails: get_all_models replaces the shared dictionary by a plain one,
\* for as long as the process lives.
SetFails(p) ==
    /\ setting[p] # Nothing
    /\ EndSet(p)
    /\ alone' = alone \cup {p}
    /\ UNCHANGED <<hash, signature>>

Restart(p) ==
    /\ EndSet(p) /\ Sign(p, Unknown)
    /\ alone' = alone \ {p}
    /\ UNCHANGED hash

Next == \E p \in Writers :
    \/ Clear(p) \/ ReadKeys(p) \/ WriteEntries(p) \/ RemoveEntries(p)
    \/ SetFails(p) \/ Restart(p)

Spec == Init /\ [][Next]_modelVars
-----------------------------------------------------------------------------
TypeOK ==
    LET Models == UNION Lists IN
    /\ hash \subseteq Models
    /\ signature \in [Writers -> Lists \cup {Unknown}]
    /\ setting \in [Writers -> [at : {"idle", "hset", "hdel"}, list : Lists \cup {{}},
                                remove : SUBSET Models]]
    /\ alone \subseteq Writers

\* "We never DELETE the whole hash -- this eliminates the race window where
\* concurrent readers would see an empty models dict": a model that every
\* process lists leaves the hash only when a process has no model at all.
Common == {m \in UNION Lists : \A list \in Lists : list = {} \/ m \in list}
CommonStays == [][Common \cap hash \subseteq hash' \/ \E p \in Writers : Clear(p)]_modelVars

\* When all the processes have agreed on a list again, the hash is that list, and
\* the signatures that then suppress every further write are right to do so.
Agreed(list) == 
    alone = {} /\ \A p \in Writers : setting[p] = Nothing /\ signature[p] = list
AgreedIsStored == \A list \in Lists : Agreed(list) => hash = list
=============================================================================
