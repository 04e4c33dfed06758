--------------------------- MODULE CalendarAlert ----------------------------
(***************************************************************************)
(* _check_calendar_alerts of utils/automations.py, the second half of the  *)
(* scheduler's round, with the methods of models/calendar.py it calls and  *)
(* the edits of routers/calendar.py.                                       *)
(*                                                                         *)
(* A worker scans for events about to start, emits an alert for one whose  *)
(* meta has no alerted_at, and merges alerted_at into the meta it then     *)
(* loads.  Every other writer of meta does the same with its own keys.     *)
(*                                                                         *)
(* One event is followed.  The others that a round alerts, one after the   *)
(* other and each with its webhook, are the time that it takes before and  *)
(* after its turn, and the exceptions that end the round before it.        *)
(***************************************************************************)
EXTENDS Naturals

CONSTANTS
    Workers,     \* server processes, each with its scheduler loop
    Mortal,      \* those that may die
    Poll,        \* SCHEDULER_POLL_INTERVAL
    Jitter,      \* the random part of the sleep
    Grace,       \* grace_ns: how long after its start an event is still found
    Lookahead,   \* CALENDAR_ALERT_LOOKAHEAD_MINUTES
    MaxStall,    \* how late a worker may wake up and have claimed automations
    MaxRound,    \* how long the alerts of a round may take, webhooks and all
    Starts,      \* values of start_at
    Leads,       \* values of meta.alert_minutes, beside Default and Silent
    NoRow,       \* nothing is loaded
    Default, Silent, \* alert_minutes is not set; it is negative
    Moves,       \* an edit may move the event
    Horizon,     \* bound on time
    MaxEdits     \* bound on edits

VARIABLES
    now,
    event,     \* the row: [start, lead, alerted, cancelled, there]
    alertPc,   \* of each worker
    timer,     \* ticks until its asyncio.sleep is over
    budget,    \* ticks until its sleep, or the round, must have ended
    found,     \* the start of the event as the scan has read it
    loadedLead, \* alert_minutes in the meta that update_event_by_id has loaded
    userPc, form, loaded, \* an edit: where it is, what it sets, the row it loaded
    edits,
    failed,    \* history: workers a round of which failed after the event's start
    written,   \* history: when an edit was last committed
    alerted    \* history: the starts of which the user was alerted

loopVars == <<alertPc, timer, budget, found, loadedLead>>
userVars == <<userPc, form, loaded, edits>>
vars == <<now, event, loopVars, userVars, failed, written, alerted>>

Events == [start : Starts, lead : Leads \cup {Default, Silent}, alerted : BOOLEAN,
           cancelled : BOOLEAN, there : BOOLEAN]

TypeOK ==
    /\ now \in 0..Horizon
    /\ event \in Events
    /\ {loaded, form} \subseteq Events \cup {NoRow}
    /\ alertPc \in [Workers -> {"sleep", "alert", "mark", "marking", "rest", "down"}]
    /\ {timer, budget} \subseteq [Workers -> Nat]
    /\ found \in [Workers -> Starts]
    /\ loadedLead \in [Workers -> Leads \cup {Default, Silent, NoRow}]
    /\ userPc \in {"idle", "loaded"}
    /\ edits \in 0..MaxEdits
    /\ failed \subseteq Workers
    /\ written \in 0..Horizon
    /\ alerted \subseteq Starts

Init ==
    /\ now = 0
    /\ event \in [start : Starts, lead : Leads \cup {Default, Silent}, alerted : {FALSE},
                  cancelled : {FALSE}, there : {TRUE}]
    /\ alertPc = [w \in Workers |-> "sleep"]
    /\ timer \in [Workers -> 0..Poll + Jitter]
    /\ budget = [w \in Workers |-> timer[w] + MaxStall]
    /\ found = [w \in Workers |-> event.start]
    /\ loadedLead = [w \in Workers |-> NoRow]
    /\ userPc = "idle" /\ form = NoRow /\ loaded = NoRow /\ edits = 0
    /\ failed = {}
    /\ written = 0
    /\ alerted = {}
-----------------------------------------------------------------------------
GoTo(w, l, ticks, most) ==
    /\ alertPc' = [alertPc EXCEPT ![w] = l]
    /\ timer' = [timer EXCEPT ![w] = ticks]
    /\ budget' = [budget EXCEPT ![w] = most]

\* asyncio.sleep(SCHEDULER_POLL_INTERVAL + random.uniform(0, 2))
Sleep(w) == \E j \in 0..Jitter : GoTo(w, "sleep", Poll + j, Poll + j + MaxStall)

\* The next step of the round; its time goes on.
GoOn(w, l) ==
    /\ alertPc' = [alertPc EXCEPT ![w] = l]
    /\ UNCHANGED <<timer, budget>>

\* Mutant: no grace window.
UpcomingStrictly ==
    /\ event.there /\ ~event.cancelled /\ event.lead # Silent
    /\ now <= event.start
    /\ event.start <= now + (IF event.lead = Default THEN Lookahead ELSE event.lead)

\* get_upcoming_events.  (The hour of the SQL filter is the user interface's
\* largest alert_minutes.)
Upcoming ==
    /\ event.there /\ ~event.cancelled /\ event.lead # Silent
    /\ now <= event.start + Grace
    /\ event.start <= now + (IF event.lead = Default THEN Lookahead ELSE event.lead)

\* The sleep is over, the automations have been claimed: the scan.
Scan(w) ==
    /\ alertPc[w] = "sleep"
    /\ timer[w] = 0
    /\ IF Upcoming /\ ~event.alerted
       THEN GoTo(w, "alert", 0, MaxRound) /\ found' = [found EXCEPT ![w] = event.start]
       ELSE GoTo(w, "rest", 0, MaxRound) /\ UNCHANGED found
    /\ UNCHANGED <<now, event, loadedLead, userVars, failed, written, alerted>>

\* The round ends early, and is only logged: Config.get or the query raises, or the
\* calendar is switched off; or an emit raises, for this event or for one before it.
RoundFails(w) ==
    /\ \/ alertPc[w] = "sleep" /\ timer[w] = 0
       \/ alertPc[w] = "alert"
    /\ Sleep(w)
    /\ failed' = IF now > event.start THEN failed \cup {w} ELSE failed
    /\ UNCHANGED <<now, event, found, loadedLead, userVars, written, alerted>>

\* The events before it are done: sio.emit(calendar:alert) to the user.
Alert(w) ==
    /\ alertPc[w] = "alert"
    /\ alerted' = alerted \cup {found[w]}
    /\ GoOn(w, "mark")
    /\ UNCHANGED <<now, event, found, loadedLead, userVars, failed, written>>

\* update_event_by_id(meta = {alerted_at}) loads the row ...
MarkLoad(w) ==
    /\ alertPc[w] = "mark"
    /\ loadedLead' = [loadedLead EXCEPT ![w] = IF event.there THEN event.lead ELSE NoRow]
    /\ GoOn(w, IF event.there THEN "marking" ELSE "rest")
    /\ UNCHANGED <<now, event, found, userVars, failed, written, alerted>>

\* ... and writes the merged meta back.
MarkWrite(w) ==
    /\ alertPc[w] = "marking"
    /\ event.there
    /\ event' = [event EXCEPT !.alerted = TRUE, !.lead = loadedLead[w]]
    /\ loadedLead' = [loadedLead EXCEPT ![w] = NoRow]
    /\ GoOn(w, "rest")
    /\ UNCHANGED <<now, found, userVars, failed, written, alerted>>

\* The database fails, or the event has been deleted: only logged.
MarkFails(w) ==
    /\ alertPc[w] \in {"mark", "marking"}
    /\ loadedLead' = [loadedLead EXCEPT ![w] = NoRow]
    /\ GoOn(w, "rest")
    /\ UNCHANGED <<now, event, found, userVars, failed, written, alerted>>

\* The webhook of the user and the other events have been seen to, or one of these
\* has ended the round.
Notify(w) ==
    /\ alertPc[w] = "rest"
    /\ Sleep(w)
    /\ UNCHANGED <<now, event, found, loadedLead, userVars, failed, written, alerted>>

Die(w) ==
    /\ w \in Mortal
    /\ alertPc[w] # "down"
    /\ loadedLead' = [loadedLead EXCEPT ![w] = NoRow]
    /\ GoTo(w, "down", 0, 0)
    /\ UNCHANGED <<now, event, found, userVars, failed, written, alerted>>

Restart(w) ==
    /\ alertPc[w] = "down"
    /\ GoTo(w, "sleep", 0, MaxStall)
    /\ UNCHANGED <<now, event, found, loadedLead, userVars, failed, written, alerted>>
-----------------------------------------------------------------------------
\* update_event_by_id for a request: the row is loaded ...
EditLoad ==
    /\ userPc = "idle"
    /\ edits < MaxEdits
    /\ event.there
    /\ \E lead \in Leads \cup {Silent}, off \in BOOLEAN, s \in Starts :
        /\ s # event.start => Moves /\ s > now
        /\ form' = [event EXCEPT !.start = s, !.lead = lead, !.cancelled = off]
    /\ loaded' = event
    /\ edits' = edits + 1
    /\ userPc' = "loaded"
    /\ UNCHANGED <<now, event, loopVars, failed, written, alerted>>

\* ... and the columns that changed are written; meta is one column, merged
\* from the meta that was loaded.
EditWrite ==
    /\ userPc = "loaded"
    /\ userPc' = "idle"
    /\ event' = IF ~event.there THEN event ELSE [event EXCEPT
            !.start     = IF form.start # loaded.start THEN form.start ELSE @,
            !.cancelled = IF form.cancelled # loaded.cancelled THEN form.cancelled ELSE @,
            !.lead      = IF form.lead # loaded.lead THEN form.lead ELSE @,
            !.alerted   = IF form.lead # loaded.lead THEN loaded.alerted ELSE @]
    /\ failed' = IF event'.start # event.start THEN {} ELSE failed
    /\ written' = now
    /\ form' = NoRow /\ loaded' = NoRow
    /\ UNCHANGED <<now, loopVars, edits, alerted>>

Delete ==
    /\ event.there
    /\ edits < MaxEdits
    /\ edits' = edits + 1
    /\ event' = [event EXCEPT !.there = FALSE]
    /\ UNCHANGED <<now, loopVars, userPc, form, loaded, failed, written, alerted>>

Minus1(n) == IF n > 0 THEN n - 1 ELSE 0

Tick ==
    /\ now < Horizon
    /\ \A w \in Workers : alertPc[w] # "down" => budget[w] > 0
    /\ now' = now + 1
    /\ timer' = [w \in Workers |-> Minus1(timer[w])]
    /\ budget' = [w \in Workers |-> Minus1(budget[w])]
    /\ UNCHANGED <<event, alertPc, found, loadedLead, userVars, failed, written, alerted>>

Step(w) ==
    \/ Scan(w) \/ RoundFails(w) \/ Alert(w) \/ MarkLoad(w) \/ MarkWrite(w) \/ MarkFails(w) \/ Notify(w)
    \/ Die(w) \/ Restart(w)

Next == (\E w \in Workers : Step(w)) \/ EditLoad \/ EditWrite \/ Delete \/ Tick

Spec == Init /\ [][Next]_vars
-----------------------------------------------------------------------------
\* "This ensures 'At time of event' alerts are not missed when the scheduler
\* polls a few seconds after the event's exact start" (models/calendar.py): while
\* one instance stays up and no round of it fails after the start of an event that
\* has not been edited since then, its user is alerted, at the latest by a round
\* that begins at the end of the grace window.
NotMissed ==
    /\ event.there /\ ~event.cancelled /\ event.lead # Silent
    /\ written <= event.start
    /\ ~(Workers \subseteq Mortal \cup failed)
    /\ now > event.start + Grace + MaxRound
    => event.start \in alerted
=============================================================================
