-------------------------- MODULE AutomationClaim ---------------------------
(***************************************************************************)
(* Automations: the rows of models/automations.py, the first half of       *)
(* scheduler_worker_loop and the runs it starts (utils/automations.py),    *)
(* and the edits of routers/automations.py and tools/builtin.py.           *)
(*                                                                         *)
(* Every instance runs a worker.  A worker selects the rows that are due,  *)
(* computes their next occurrences, commits, and starts one task per row.  *)
(* On PostgreSQL the rows it has selected stay locked until it commits     *)
(* (FOR UPDATE SKIP LOCKED); on other databases nothing locks them.        *)
(*                                                                         *)
(* A rule is the set of its occurrences on the clock on the wall, which    *)
(* for a rule without DTSTART depends on the moment it is asked.  A zone   *)
(* puts that clock forward or back at most once in the model's time.       *)
(*                                                                         *)
(* An UPDATE of the ORM writes the columns whose value differs from the    *)
(* one loaded, and no other.                                               *)
(***************************************************************************)
EXTENDS Integers, FiniteSets, FiniteSetsExt

CONSTANTS
    Automations,
    Workers,     \* server processes, each with its worker loop
    Editors,     \* requests or tool calls that edit an automation once
    Rules,       \* recurrence rules: the occurrences as seen at each moment
    Zones,       \* UTC offsets: [before, after, change], the moment of the change
    Dial,        \* the last time on the clock that a rule may name
    Horizon,     \* bound on time
    Limit,       \* how many rows a claim takes
    SkipLocked,  \* the dialect is postgresql
    MaxAgain,    \* bound on claims that leave their row due
    MaxManual,   \* bound on runs started by hand
    MaxFaults,   \* bound on crashes and errors
    Unborn, Gone \* the row does not exist yet, or no longer

Times == 1..Horizon + 1
Never == Horizon + 1 \* NULL: no occurrence, never due

ASSUME ClaimConstants ==
    /\ IsFiniteSet(Workers)
    /\ Rules \subseteq [1..Horizon -> SUBSET (0..Dial)]
    /\ Zones \subseteq [before : Nat, after : Nat, change : Int]
    /\ Dial \in Nat
    /\ Horizon \in Nat \ {0}
    /\ Limit \in Nat \ {0}
    /\ SkipLocked \in BOOLEAN
    /\ MaxAgain \in Nat
    /\ MaxManual \in Nat
    /\ MaxFaults \in Nat

VARIABLES
    now,
    row,       \* the table: [active, rule, next] of each automation
    pc,        \* of each worker
    batch,     \* what each worker has selected: [rule, was, next, again] per row;
               \* again is history: next was computed in an hour that comes twice
    running,   \* execute_automation tasks of each worker and automation
    runs,      \* rows of automation_run
    editPc, edit, loaded, \* each edit: where it is, its form, the row it loaded
    manual, faults,
    claimed,   \* history: the last occurrence claimed since the last edit
    issued,    \* history: runs that were claimed or started by hand
    lost,      \* history: runs that died with their process or were never started
    unwritten, \* history: runs that ended without a row
    doubled,   \* history: runs that ended with two rows
    wiped      \* history: automations whose runs have been deleted

rowVars  == <<row, claimed>>
workVars == <<pc, batch>>
endVars  == <<unwritten, doubled>>
runVars  == <<running, runs, issued, lost, wiped, endVars>>
editVars == <<editPc, edit, loaded>>
vars == <<now, rowVars, workVars, runVars, editVars, manual, faults>>

RowType == [active : BOOLEAN, rule : Rules, next : Times]

ASSUME NoRowConstants == {Unborn, Gone} \cap RowType = {}

Exists(a) == row[a] \notin {Unborn, Gone}
Kinds == {"update", "toggle", "delete"}
Forms == [kind : Kinds, of : Automations, active : BOOLEAN, rule : Rules, next : Times]
NoForm == [kind |-> "none"]
NoBatch == [a \in {} |-> 0]
Taken == [rule : Rules, was : Times, next : Times, again : BOOLEAN]

TypeOK ==
    /\ now \in 1..Horizon
    /\ row \in [Automations -> RowType \cup {Unborn, Gone}]
    /\ pc \in [Workers -> {"idle", "selected", "computed", "committed", "polled", "down"}]
    /\ \A w \in Workers :
        /\ DOMAIN batch[w] \subseteq Automations
        /\ \A a \in DOMAIN batch[w] : batch[w][a] \in Taken
    /\ running \in [Workers -> [Automations -> Nat]]
    /\ {runs, issued, lost, unwritten, doubled} \subseteq [Automations -> Nat]
    /\ editPc \in [Editors -> {"new", "begun", "loaded", "done"}]
    /\ edit \in [Editors -> Forms \cup {NoForm}]
    /\ loaded \in [Editors -> RowType \cup {Unborn}]
    /\ claimed \in [Automations -> 0..Horizon + 1]
    /\ wiped \in SUBSET Automations
    /\ manual \in 0..MaxManual /\ faults \in 0..MaxFaults

-----------------------------------------------------------------------------
\* datetime.now(zone).replace(tzinfo=None): what the clock shows.
Wall(z, t) == t + (IF t < z.change THEN z.before ELSE z.after)

\* dt.replace(tzinfo=zone).timestamp() with fold = 0: a time that the clock shows
\* twice is its first showing, one that it skips counts from the old offset.
Instant(z, x) ==
    IF x < z.change + z.before \/ x < z.change + z.after THEN x - z.before ELSE x - z.after

\* The clock has been put back and shows a time that it has shown before.
Again(z, t) == z.change <= t /\ t + z.after < z.change + z.before

\* A moment before the model's time is due at once, one after it never.
InTime(t) == IF t < 1 THEN 1 ELSE IF t > Horizon THEN Never ELSE t

Later(rule, z, t) == {o \in rule[t] : o > Wall(z, t)}

\* Mutant: the time on the clock is taken for the moment.
AfterOnTheDial(rule, z, t) == IF Later(rule, z, t) = {} THEN Never ELSE Min(Later(rule, z, t))

\* next_run_ns at moment t: the next occurrence on the clock of zone z, or None.
After(rule, z, t) ==
    IF Later(rule, z, t) = {} THEN Never ELSE InTime(Instant(z, Min(Later(rule, z, t))))

Init ==
    /\ now = 1
    /\ row \in [Automations -> {Unborn} \cup
                  {[active |-> TRUE, rule |-> r, next |-> After(r, z, 1)] : r \in Rules, z \in Zones}]
    /\ pc = [w \in Workers |-> "idle"]
    /\ batch = [w \in Workers |-> NoBatch]
    /\ running = [w \in Workers |-> [a \in Automations |-> 0]]
    /\ runs = [a \in Automations |-> 0]
    /\ editPc = [e \in Editors |-> "new"]
    /\ edit = [e \in Editors |-> NoForm]
    /\ loaded = [e \in Editors |-> Unborn]
    /\ manual = 0 /\ faults = 0
    /\ claimed = [a \in Automations |-> 0]
    /\ issued = runs /\ lost = runs /\ unwritten = runs /\ doubled = runs
    /\ wiped = {}

\* Mutant: without FOR UPDATE.
NotLocked(a) == FALSE

\* FOR UPDATE: the row belongs to the transaction of a worker.
LockedBy(w, a) == SkipLocked /\ pc[w] \in {"selected", "computed"} /\ a \in DOMAIN batch[w]
Locked(a) == \E w \in Workers : LockedBy(w, a)

Due(a) == Exists(a) /\ row[a].active /\ row[a].next <= now

\* Mutant: SELECT of due rows whoever has locked them.
OldestUnlocked(S) ==
    /\ S \subseteq {a \in Automations : Due(a)}
    /\ Cardinality(S) <= Limit
    /\ \A a \in Automations \ S : Due(a) => Cardinality(S) = Limit

\* SELECT of the due rows that nobody has locked, the oldest first.
Oldest(S) ==
    /\ S \subseteq {a \in Automations : Due(a) /\ ~Locked(a)}
    /\ Cardinality(S) <= Limit
    /\ \A a \in Automations \ S : Due(a) /\ ~Locked(a) =>
        Cardinality(S) = Limit /\ \A b \in S : row[b].next <= row[a].next

ClaimSelect(w) ==
    /\ pc[w] = "idle"
    /\ \E S \in SUBSET Automations :
        /\ Oldest(S)
        /\ batch' = [batch EXCEPT ![w] =
            [a \in S |-> [rule |-> row[a].rule, was |-> row[a].next, next |-> Never, again |-> FALSE]]]
        /\ pc' = [pc EXCEPT ![w] = IF S = {} THEN "polled" ELSE "selected"]
    /\ UNCHANGED <<now, rowVars, runVars, editVars, manual, faults>>

\* After the query for the time zones of the users: next_run_ns of every row.
ClaimCompute(w) ==
    /\ pc[w] = "selected"
    /\ \E zone \in [DOMAIN batch[w] -> Zones] :
        /\ \A a \in DOMAIN batch[w] :
            After(batch[w][a].rule, zone[a], now) <= now => issued[a] < MaxAgain
        /\ batch' = [batch EXCEPT ![w] = [a \in DOMAIN batch[w] |->
            [batch[w][a] EXCEPT !.next = After(batch[w][a].rule, zone[a], now), !.again = Again(zone[a], now)]]]
    /\ pc' = [pc EXCEPT ![w] = "computed"]
    /\ UNCHANGED <<now, rowVars, runVars, editVars, manual, faults>>

\* COMMIT: last_run_at and next_run_at are written.
ClaimCommit(w) ==
    /\ pc[w] = "computed"
    /\ \A a \in DOMAIN batch[w] : Exists(a)
    /\ LET mine == DOMAIN batch[w] IN
        /\ row' = [a \in Automations |->
            IF a \in mine THEN [row[a] EXCEPT !.next = batch[w][a].next] ELSE row[a]]
        /\ claimed' = [a \in Automations |-> IF a \notin mine THEN claimed[a]
                        ELSE IF batch[w][a].again THEN 0 ELSE batch[w][a].was]
        /\ issued' = [a \in Automations |-> IF a \in mine THEN issued[a] + 1 ELSE issued[a]]
    /\ pc' = [pc EXCEPT ![w] = "committed"]
    /\ UNCHANGED <<now, batch, running, runs, lost, wiped, endVars, editVars, manual, faults>>

\* Rolled back and logged: a row has been deleted in the meantime (StaleDataError),
\* or the database fails.
ClaimFails(w) ==
    /\ pc[w] \in {"selected", "computed"}
    /\ \/ pc[w] = "computed" /\ (\E a \in DOMAIN batch[w] : ~Exists(a)) /\ UNCHANGED faults
       \/ faults < MaxFaults /\ faults' = faults + 1
    /\ batch' = [batch EXCEPT ![w] = NoBatch]
    /\ pc' = [pc EXCEPT ![w] = "polled"]
    /\ UNCHANGED <<now, rowVars, runVars, editVars, manual>>

\* claim_due has committed, but raises or its session cannot be closed: the rows
\* have moved on and no run is started.
ClaimDropped(w) ==
    /\ pc[w] = "committed"
    /\ faults < MaxFaults
    /\ faults' = faults + 1
    /\ lost' = [a \in Automations |-> IF a \in DOMAIN batch[w] THEN lost[a] + 1 ELSE lost[a]]
    /\ batch' = [batch EXCEPT ![w] = NoBatch]
    /\ pc' = [pc EXCEPT ![w] = "polled"]
    /\ UNCHANGED <<now, rowVars, running, runs, issued, wiped, endVars, editVars, manual>>

\* Mutant: the runs start before the claim is committed.
StartRunsFirst(w) ==
    /\ pc[w] = "computed"
    /\ running' = [running EXCEPT ![w] =
        [a \in Automations |-> IF a \in DOMAIN batch[w] THEN @[a] + 1 ELSE @[a]]]
    /\ pc' = [pc EXCEPT ![w] = "polled"]
    /\ UNCHANGED <<now, rowVars, batch, runs, issued, lost, wiped, endVars, editVars, manual, faults>>

\* claim_due has returned: create_task(execute_automation) for every row.
StartRuns(w) ==
    /\ pc[w] = "committed"
    /\ running' = [running EXCEPT ![w] =
        [a \in Automations |-> IF a \in DOMAIN batch[w] THEN @[a] + 1 ELSE @[a]]]
    /\ batch' = [batch EXCEPT ![w] = NoBatch]
    /\ pc' = [pc EXCEPT ![w] = "polled"]
    /\ UNCHANGED <<now, rowVars, runs, issued, lost, wiped, endVars, editVars, manual, faults>>

\* Mutant: the worker awaits the runs it has started.
NextRoundWaiting(w) ==
    /\ pc[w] = "polled"
    /\ \A a \in Automations : running[w][a] = 0
    /\ pc' = [pc EXCEPT ![w] = "idle"]
    /\ UNCHANGED <<now, rowVars, batch, runVars, editVars, manual, faults>>

\* The rest of the round (calendar alerts) and asyncio.sleep.
NextRound(w) ==
    /\ pc[w] = "polled"
    /\ pc' = [pc EXCEPT ![w] = "idle"]
    /\ UNCHANGED <<now, rowVars, batch, runVars, editVars, manual, faults>>

\* execute_automation ends, with a chat or an error: _record_run commits its row.
EndRun(w, a) ==
    /\ running[w][a] > 0
    /\ running' = [running EXCEPT ![w][a] = @ - 1]
    /\ runs' = [runs EXCEPT ![a] = @ + 1]
    /\ UNCHANGED <<now, rowVars, workVars, issued, lost, wiped, endVars, editVars, manual, faults>>

\* _record_run raises after its COMMIT, or publish_event does: the except clause
\* records the run once more.  (A crash in between leaves what EndRun leaves.)
EndRunTwice(w, a) ==
    /\ running[w][a] > 0
    /\ faults < MaxFaults
    /\ faults' = faults + 1
    /\ running' = [running EXCEPT ![w][a] = @ - 1]
    /\ runs' = [runs EXCEPT ![a] = @ + 2]
    /\ doubled' = [doubled EXCEPT ![a] = @ + 1]
    /\ UNCHANGED <<now, rowVars, workVars, issued, lost, wiped, unwritten, editVars, manual>>

\* Neither the success nor, in the except clause, the error can be recorded.
EndRunUnwritten(w, a) ==
    /\ running[w][a] > 0
    /\ faults < MaxFaults
    /\ faults' = faults + 1
    /\ running' = [running EXCEPT ![w][a] = @ - 1]
    /\ unwritten' = [unwritten EXCEPT ![a] = @ + 1]
    /\ UNCHANGED <<now, rowVars, workVars, runs, issued, lost, wiped, doubled, editVars, manual>>

\* The process dies: its transaction is rolled back, its tasks are gone.
Crash(w) ==
    /\ pc[w] # "down"
    /\ faults < MaxFaults
    /\ faults' = faults + 1
    /\ lost' = [a \in Automations |-> lost[a] + running[w][a]
                + (IF pc[w] = "committed" /\ a \in DOMAIN batch[w] THEN 1 ELSE 0)]
    /\ running' = [running EXCEPT ![w] = [a \in Automations |-> 0]]
    /\ batch' = [batch EXCEPT ![w] = NoBatch]
    /\ pc' = [pc EXCEPT ![w] = "down"]
    /\ UNCHANGED <<now, rowVars, runs, issued, wiped, endVars, editVars, manual>>

Restart(w) ==
    /\ pc[w] = "down"
    /\ pc' = [pc EXCEPT ![w] = "idle"]
    /\ UNCHANGED <<now, rowVars, batch, runVars, editVars, manual, faults>>
-----------------------------------------------------------------------------
\* POST /create: the row with its first occurrence.
Create(a) ==
    /\ row[a] = Unborn
    /\ \E r \in Rules, z \in Zones, on \in BOOLEAN :
        /\ Later(r, z, now) # {}
        /\ row' = [row EXCEPT ![a] = [active |-> on, rule |-> r, next |-> After(r, z, now)]]
    /\ UNCHANGED <<now, claimed, workVars, runVars, editVars, manual, faults>>

\* POST /run.
RunNow(w, a) ==
    /\ pc[w] # "down"
    /\ Exists(a)
    /\ manual < MaxManual
    /\ manual' = manual + 1
    /\ running' = [running EXCEPT ![w][a] = @ + 1]
    /\ issued' = [issued EXCEPT ![a] = @ + 1]
    /\ UNCHANGED <<now, rowVars, workVars, runs, lost, wiped, endVars, editVars, faults>>

\* The handler has read the row and computed next_run_at.
Begin(e, form) ==
    /\ editPc[e] = "new"
    /\ Exists(form.of)
    /\ editPc' = [editPc EXCEPT ![e] = "begun"]
    /\ edit' = [edit EXCEPT ![e] = form]

\* POST /update (any rule that has an occurrence left) and the tool
\* update_automation (which may keep the rule and keeps is_active).
BeginUpdate(e) ==
    /\ \E a \in Automations, r \in Rules, z \in Zones, on \in BOOLEAN :
        /\ Exists(a)
        /\ Later(r, z, now) # {} \/ (r = row[a].rule /\ on = row[a].active)
        /\ Begin(e, [kind |-> "update", of |-> a, active |-> on, rule |-> r, next |-> After(r, z, now)])
    /\ UNCHANGED <<now, rowVars, workVars, runVars, loaded, manual, faults>>

\* POST /toggle and the tool toggle_automation.
BeginToggle(e) ==
    /\ \E a \in Automations, z \in Zones :
        /\ Exists(a)
        /\ Begin(e, [kind |-> "toggle", of |-> a, active |-> row[a].active,
                     rule |-> row[a].rule, next |-> After(row[a].rule, z, now)])
    /\ UNCHANGED <<now, rowVars, workVars, runVars, loaded, manual, faults>>

\* DELETE: the runs first.
BeginDelete(e) ==
    /\ \E a \in Automations :
        /\ Exists(a)
        /\ Begin(e, [kind |-> "delete", of |-> a, active |-> FALSE,
                     rule |-> row[a].rule, next |-> Never])
        /\ runs' = [runs EXCEPT ![a] = 0]
        /\ wiped' = wiped \cup {a}
    /\ UNCHANGED <<now, rowVars, workVars, running, issued, lost, endVars, loaded, manual, faults>>

EditDone(e) ==
    /\ editPc' = [editPc EXCEPT ![e] = "done"]
    /\ edit' = [edit EXCEPT ![e] = NoForm]
    /\ loaded' = [loaded EXCEPT ![e] = Unborn]

\* db.get of update_by_id and toggle.
Load(e) ==
    /\ editPc[e] = "begun"
    /\ edit[e].kind # "delete"
    /\ LET a == edit[e].of IN
        IF Exists(a)
        THEN /\ editPc' = [editPc EXCEPT ![e] = "loaded"]
             /\ loaded' = [loaded EXCEPT ![e] = row[a]]
             /\ UNCHANGED edit
        ELSE EditDone(e)
    /\ UNCHANGED <<now, rowVars, workVars, runVars, manual, faults>>

\* The attributes that update_by_id or toggle sets on the loaded row.
Edited(e) ==
    LET form == edit[e]
        on == IF form.kind = "toggle" THEN ~loaded[e].active ELSE form.active
    IN [active |-> on,
        rule   |-> IF form.kind = "toggle" THEN loaded[e].rule ELSE form.rule,
        next   |-> IF form.kind = "toggle" /\ ~on THEN Never ELSE form.next]

\* UPDATE of the columns that changed; it waits for a row lock.
Save(e) ==
    /\ editPc[e] = "loaded"
    /\ LET a == edit[e].of
           Written(f) == IF Edited(e)[f] # loaded[e][f] THEN Edited(e)[f] ELSE row[a][f]
       IN /\ ~Locked(a)
          /\ row' = [row EXCEPT ![a] =
              IF Exists(a)
              THEN [active |-> Written("active"), rule |-> Written("rule"), next |-> Written("next")] ELSE @]
          /\ claimed' = [claimed EXCEPT ![a] = 0]
    /\ EditDone(e)
    /\ UNCHANGED <<now, workVars, runVars, manual, faults>>

DeleteRow(e) ==
    /\ editPc[e] = "begun"
    /\ edit[e].kind = "delete"
    /\ ~Locked(edit[e].of)
    /\ row' = [row EXCEPT ![edit[e].of] = Gone]
    /\ claimed' = [claimed EXCEPT ![edit[e].of] = 0]
    /\ EditDone(e)
    /\ UNCHANGED <<now, workVars, runVars, manual, faults>>

Tick ==
    /\ now < Horizon
    /\ now' = now + 1
    /\ UNCHANGED <<rowVars, workVars, runVars, editVars, manual, faults>>

Claiming(w) ==
    \/ ClaimSelect(w) \/ ClaimCompute(w) \/ ClaimCommit(w) \/ ClaimFails(w) \/ ClaimDropped(w)
    \/ StartRuns(w) \/ NextRound(w)
Running(w, a) == EndRun(w, a) \/ EndRunTwice(w, a) \/ EndRunUnwritten(w, a) \/ RunNow(w, a)
Editing(e) == BeginUpdate(e) \/ BeginToggle(e) \/ BeginDelete(e) \/ Load(e) \/ Save(e) \/ DeleteRow(e)

Next ==
    \/ \E w \in Workers : Claiming(w) \/ Crash(w) \/ Restart(w)
    \/ \E w \in Workers, a \in Automations : Running(w, a)
    \/ \E a \in Automations : Create(a)
    \/ \E e \in Editors : Editing(e)
    \/ Tick

Spec == Init /\ [][Next]_vars

\* The event loop goes on, the database answers, and so do the webhooks of the
\* calendar's alerts, which a round awaits; a process that died is started again.
Fairness ==
    /\ WF_vars(Tick)
    /\ \A w \in Workers : WF_vars(Claiming(w)) /\ WF_vars(Restart(w))

FairSpec == Spec /\ Fairness
-----------------------------------------------------------------------------
\* "Atomically claim due automations ... so the row can never be double-claimed":
\* the schedule of AutomationSchedule, whatever edits and crashes happen, which
\* an hour that comes twice starts afresh.
Schedule == INSTANCE AutomationSchedule WITH
    active <- {a \in Automations : Exists(a) /\ row[a].active},
    next   <- [a \in Automations |-> IF Exists(a) THEN row[a].next ELSE Never],
    again  <- {a \in Automations : \E w \in Workers :
                  pc[w] = "computed" /\ a \in DOMAIN batch[w] /\ batch[w][a].again}
ClaimsFollowSchedule == Schedule!Spec

\* What a worker commits was computed from the row as it still is: it has not
\* been paused and its rule has not been changed since it was selected.
ClaimsAreCurrent ==
    [][\A w \in Workers : ClaimCommit(w) =>
        \A a \in DOMAIN batch[w] : row[a].active /\ row[a].rule = batch[w][a].rule]_vars

\* No run is forgotten and none happens twice: a run that was claimed or asked
\* for is about to start, under way, recorded, died with its process or was
\* dropped with its claim.  A row too few or too many takes an error of its own.
Starting(a) == Cardinality({w \in Workers : pc[w] = "committed" /\ a \in DOMAIN batch[w]})
UnderWay(a) == Cardinality(UNION {{w} \X (1..running[w][a]) : w \in Workers})
RunsAccounted ==
    \A a \in Automations \ wiped :
        /\ issued[a] + doubled[a] = Starting(a) + UnderWay(a) + runs[a] + unwritten[a] + lost[a]
        /\ doubled[a] + unwritten[a] <= faults

\* Whatever is due is claimed in the end, or edited so that it is not due.
DueIsClaimed == \A a \in Automations : Due(a) ~> ~Due(a)
=============================================================================
