------------------------------ MODULE Schedules ------------------------------
(***************************************************************************)
(* The timers of scheduled playlists: the table playlist_schedules, the    *)
(* jobs the scheduler keeps in memory for its rows (playlists/scheduler.py)*)
(* the admin's edits of both (routes/admin_schedules.py), the pre-fire     *)
(* lock read from the table, and a purchase that asks for the locks        *)
(* (routes/queue.py).  fire_schedule is reduced to what these see of it:   *)
(* the refunds, the clear, the event lock, the mark; ScheduleFire has it   *)
(* in full.                                                                *)
(*                                                                         *)
(* A schedule is also the name of its timed task: the scheduler runs one   *)
(* instance per job.  An edit is one request of an admin.  Time is a       *)
(* counter; no call and no fire takes longer than Longest.                 *)
(***************************************************************************)
EXTENDS Integers

CONSTANTS
  Ids,        \* schedules, and their timed tasks
  Rules,      \* the recurrence rules that admins give, of RuleKinds
  Edits,      \* requests of admins
  Buyer,      \* a purchase
  Nobody,
  Period,     \* of a recurrence
  Until,      \* when a rule with an end ends
  Span,       \* how far after its anchor the last time of a rule with a count is
  PreFire,    \* pre_fire_lock_minutes
  Longest,    \* bound: how long a request or a fire may take
  MaxTime,    \* bound: the clock stops here
  Horizon,    \* bound: the latest time an admin sets
  Faults,     \* {"clear_failed"} or {}
  Overlap,    \* whether edits of two admins may overlap
  MaxRestarts

\* A one-off, or a rule nobody can parse; a rule without end; UNTIL; COUNT.
RuleKinds == {"none", "endless", "until", "count"}

ASSUME SchedulesAssumption ==
  /\ Rules \subseteq RuleKinds /\ Ids \cap Edits = {} /\ Buyer \notin Ids \cup Edits
  /\ Nobody \notin Ids \cup Edits
  /\ {Period, Until, Span, PreFire, Longest, MaxTime, Horizon, MaxRestarts} \subseteq Nat
  /\ 0 < Longest /\ Longest < Period /\ Overlap \in BOOLEAN /\ Faults \subseteq {"clear_failed"}

VARIABLES
  now,
  rows,      \* table playlist_schedules
  timer,     \* APScheduler: when the job of a schedule is to run
  event,     \* is_event_lock_active
  lock,      \* who holds fire.py's _queue_lock
  task,      \* of each task: place, schedule, start, the time it will write
  paid,      \* what became of the purchase
  occurred,  \* of each schedule: the times it was fired by its timer
  quiet,     \* no admin has interfered
  late,      \* history: schedules given a time that was over before its job was armed
  missed,    \* history: schedules whose timed fire broke off at its clear
  up, loading, restarts

service == <<up, loading, restarts>>
lapses == <<late, missed>>
scheduleVars == <<now, rows, timer, event, lock, task, paid, occurred, quiet, lapses, service>>

Tasks == Ids \cup Edits
None == -1
NoRow == [fireAt |-> None, rule |-> "none", active |-> FALSE, lockOff |-> FALSE]
Deleted == [NoRow EXCEPT !.lockOff = TRUE]   \* ids are not used again
ScheduleRow(t, k) == [fireAt |-> t, rule |-> k, active |-> TRUE, lockOff |-> FALSE]
Exists(r) == r.fireAt # None
TaskAt(label, i) == [pc |-> label, at |-> i, since |-> now, next |-> 0]
IdleTask == [pc |-> "idle", at |-> Nobody, since |-> 0, next |-> 0]
Done == [IdleTask EXCEPT !.pc = "done"]

\* What an update may set: a time to come or gone, the rule, the switch.
Bodies == [fireAt : 0 .. Horizon \cup {None}, rule : Rules \cup {"kept"}, active : {{TRUE}, {FALSE}, {}}]

SchedRow == [fireAt : Nat, rule : RuleKinds, active : BOOLEAN, lockOff : BOOLEAN]

Firing == {"list", "clear", "load", "mark"}
TaskLabels == Firing \cup {"idle", "fire", "reread", "write", "put", "rearm", "advance",
                      "delete", "unlock", "asked", "buying", "done"}

SchedulesType ==
  /\ now \in 0 .. MaxTime
  /\ rows \in [Ids -> SchedRow \cup {NoRow, Deleted}]
  /\ timer \in [Ids -> Nat \cup {None}]
  /\ event \in BOOLEAN /\ quiet \in BOOLEAN /\ late \subseteq Ids /\ missed \subseteq Ids
  /\ lock \in Tasks \cup {Nobody}
  /\ task \in [Tasks \cup {Buyer} -> [pc : TaskLabels, at : Ids \cup {Nobody}, since : Nat, next : Nat]]
  /\ paid \in {"none", "on", "refunded", "lost_early", "lost_late"}
  /\ occurred \in [Ids -> SUBSET Nat]
  /\ up \in {"up", "loading", "down"} /\ loading \subseteq Ids /\ restarts \in 0 .. MaxRestarts
  /\ \A p \in Tasks : lock = p <=> task[p].pc \in Firing
-----------------------------------------------------------------------------
\* Mutant: an occurrence of the very moment counts as one after it.
NextAfter_NotStrict(t, after) ==
  IF t >= after THEN t ELSE t + Period * ((after - t) \div Period + 1)

\* A recurrence rule anchored at t: its first occurrence after a time.
NextAfter(t, after) ==
  IF t > after THEN t ELSE t + Period * ((after - t) \div Period + 1)

\* The rule gives an occurrence after a time: it has not run out before, a
\* count being counted from the anchor.
Reaches(r, t) ==
  \/ r.rule = "endless"
  \/ r.rule = "until" /\ t <= Until
  \/ r.rule = "count" /\ t <= r.fireAt + Span
Comes(r, after) == Reaches(r, NextAfter(r.fireAt, after))

\* Mutant: the window opens a moment after its first.
InWindow_Late(r) ==
  /\ Exists(r) /\ r.active /\ ~r.lockOff
  /\ r.fireAt - PreFire < now /\ now < r.fireAt

InWindow(r) == /\ Exists(r) /\ r.active /\ ~r.lockOff
               /\ r.fireAt - PreFire <= now /\ now < r.fireAt

PreFireLocked == \E i \in Ids : InWindow(rows[i])

SchedulesInit ==
  /\ now = 0 /\ event = FALSE /\ lock = Nobody /\ paid = "none" /\ quiet = TRUE
  /\ rows \in [Ids -> {ScheduleRow(t, k) : t \in PreFire + 1 .. Horizon, k \in Rules} \cup {NoRow}]
  /\ timer = [i \in Ids |-> rows[i].fireAt]
  /\ task = [p \in Tasks \cup {Buyer} |-> IdleTask]
  /\ occurred = [i \in Ids |-> {}] /\ late = {} /\ missed = {}
  /\ up = "up" /\ loading = {} /\ restarts = 0

In(p, label) == task[p].pc = label
TaskGoto(p, label) == task' = [task EXCEPT ![p].pc = label]
EndTask(p) == task' = [task EXCEPT ![p] = IF p \in Ids THEN IdleTask ELSE Done]
TaskBusy(p) == task[p].pc \notin {"idle", "done"}
Written(i, fields) == IF Exists(rows[i]) THEN [rows EXCEPT ![i] = fields] ELSE rows
Advanced(i, t) == Written(i, [rows[i] EXCEPT !.fireAt = t, !.lockOff = FALSE])
-----------------------------------------------------------------------------
\* APScheduler starts a job on time, drops one found late by more than its
\* grace of a second, and drops one whose previous run has not ended.
Due(i) ==
  /\ up # "down" /\ timer[i] # None /\ timer[i] <= now
  /\ timer' = [timer EXCEPT ![i] = None]
  /\ task' = IF timer[i] = now /\ ~TaskBusy(i) THEN [task EXCEPT ![i] = TaskAt("fire", i)] ELSE task
  /\ UNCHANGED <<now, rows, event, lock, paid, occurred, quiet, lapses, service>>

\* fire_schedule: the lock and the row of the schedule.  Neither it nor its
\* caller looks at is_active.
Enter(p) ==
  /\ In(p, "fire") /\ lock = Nobody
  /\ IF Exists(rows[task[p].at])
     THEN TaskGoto(p, "list") /\ lock' = p
     ELSE EndTask(p) /\ UNCHANGED lock
  /\ UNCHANGED <<now, rows, timer, event, paid, occurred, quiet, lapses, service>>

\* The paid items found in the table are refunded.
List(p) ==
  /\ In(p, "list") /\ TaskGoto(p, "clear")
  /\ paid' = IF paid = "on" THEN "refunded" ELSE paid
  /\ UNCHANGED <<now, rows, timer, event, lock, occurred, quiet, lapses, service>>

\* A clear that fails ends the fire, and a timed task with it.
ClearList(p) ==
  /\ In(p, "clear")
  /\ \/ /\ TaskGoto(p, "load") /\ UNCHANGED <<lock, missed>>
        /\ paid' = IF paid # "on" THEN paid
                   ELSE IF task[Buyer].since < task[p].since THEN "lost_early" ELSE "lost_late"
     \/ /\ "clear_failed" \in Faults
        /\ EndTask(p) /\ lock' = Nobody /\ UNCHANGED paid
        /\ missed' = missed \cup ({p} \cap Ids)
  /\ UNCHANGED <<now, rows, timer, event, occurred, quiet, late, service>>

\* The items are on the playlist; set_active_schedule.
Activate(p) ==
  /\ In(p, "load") /\ TaskGoto(p, "mark") /\ event' = TRUE
  /\ occurred' = IF p \in Ids THEN [occurred EXCEPT ![p] = @ \cup {task[p].since}] ELSE occurred
  /\ UNCHANGED <<now, rows, timer, lock, paid, quiet, lapses, service>>

\* Mutant: the lock is not released.
Mark_LockKept(p) ==
  /\ In(p, "mark")
  /\ IF p \in Ids THEN TaskGoto(p, "reread") ELSE EndTask(p)
  /\ UNCHANGED <<now, rows, timer, event, lock, paid, occurred, quiet, lapses, service>>

\* The fallback and mark_schedule_fired, a column nobody reads.
Mark(p) ==
  /\ In(p, "mark") /\ lock' = Nobody
  /\ IF p \in Ids THEN TaskGoto(p, "reread") ELSE EndTask(p)
  /\ UNCHANGED <<now, rows, timer, event, paid, occurred, quiet, lapses, service>>

\* _reschedule_if_recurring: read the row, then write the next occurrence, if
\* the rule gives one, and arm it.
Reread(i) ==
  /\ In(i, "reread")
  /\ IF rows[i].active /\ Comes(rows[i], rows[i].fireAt)
     THEN task' = [task EXCEPT ![i].pc = "write", ![i].next = NextAfter(rows[i].fireAt, rows[i].fireAt)]
     ELSE EndTask(i)
  /\ UNCHANGED <<now, rows, timer, event, lock, paid, occurred, quiet, lapses, service>>

Write(i) ==
  /\ In(i, "write") /\ EndTask(i)
  /\ rows' = Advanced(i, task[i].next)
  /\ timer' = [timer EXCEPT ![i] = task[i].next]
  /\ late' = IF task[i].next > now THEN late \ {i} ELSE late
  /\ missed' = missed \ {i}
  /\ UNCHANGED <<now, event, lock, paid, occurred, quiet, service>>
-----------------------------------------------------------------------------
\* A request of an admin, the next of those there may be: one after another
\* unless they may overlap.
BeginTask(e, record) ==
  /\ up = "up" /\ In(e, "idle") /\ e = CHOOSE d \in Edits : In(d, "idle")
  /\ (Overlap \/ \A d \in Edits : ~TaskBusy(d))
  /\ task' = [task EXCEPT ![e] = record] /\ quiet' = FALSE
  /\ UNCHANGED <<now, lock, paid, occurred, missed, service>>

\* The row is on and its job added whatever the time is: the job for a time
\* that is over is found late (Due), and the row stays on without one.
CreateSchedule(e, i, t, k) ==
  /\ BeginTask(e, Done) /\ rows[i] = NoRow
  /\ rows' = [rows EXCEPT ![i] = ScheduleRow(t, k)]
  /\ timer' = [timer EXCEPT ![i] = t]
  /\ late' = IF t < now THEN late \cup {i} ELSE late
  /\ UNCHANGED event

Update(e, i) == BeginTask(e, TaskAt("put", i)) /\ Exists(rows[i]) /\ UNCHANGED <<rows, timer, event, late>>

Put(e, b) ==
  /\ In(e, "put") /\ TaskGoto(e, "rearm")
  /\ LET r == rows[task[e].at]
     IN  rows' = Written(task[e].at,
                   [r EXCEPT !.fireAt = IF b.fireAt = None THEN @ ELSE b.fireAt,
                             !.rule = IF b.rule = "kept" THEN @ ELSE b.rule,
                             !.active = IF b.active = {} THEN @ ELSE TRUE \in b.active])
  /\ late' = IF b.fireAt \in 0 .. now THEN late \cup {task[e].at} ELSE late
  /\ UNCHANGED <<now, timer, event, lock, paid, occurred, quiet, missed, service>>

\* Mutant: a job that is armed is left alone.
Rearm_Kept(e) ==
  /\ In(e, "rearm") /\ EndTask(e)
  /\ LET i == task[e].at
         r == rows[i]
     IN  timer' = IF r.active /\ r.fireAt > now /\ timer[i] = None
                 THEN [timer EXCEPT ![i] = r.fireAt] ELSE timer
  /\ UNCHANGED <<now, rows, event, lock, paid, occurred, quiet, lapses, service>>

\* The row is read again and the job goes; a row switched on gets one for its
\* time if that is to come, for its next occurrence if its rule gives one.
\* What was over or broke off before is made good, unless a fire is under way.
Rearm(e) ==
  /\ In(e, "rearm")
  /\ LET i == task[e].at
         r == rows[i]
     IN  /\ timer' = [timer EXCEPT ![i] = IF r.active /\ r.fireAt > now THEN r.fireAt ELSE None]
         /\ IF r.active /\ r.fireAt <= now /\ Comes(r, now)
            THEN task' = [task EXCEPT ![e].pc = "advance", ![e].next = NextAfter(r.fireAt, now)]
            ELSE EndTask(e)
         /\ late' = IF TaskBusy(i) THEN late ELSE late \ {i}
         /\ missed' = missed \ {i}
  /\ UNCHANGED <<now, rows, event, lock, paid, occurred, quiet, service>>

\* An occurrence that came due meanwhile is written and gets no job.
Advance(e) ==
  /\ In(e, "advance") /\ EndTask(e)
  /\ rows' = Advanced(task[e].at, task[e].next)
  /\ IF task[e].next > now THEN timer' = [timer EXCEPT ![task[e].at] = task[e].next] /\ UNCHANGED late
     ELSE late' = late \cup {task[e].at} /\ UNCHANGED timer
  /\ UNCHANGED <<now, event, lock, paid, occurred, quiet, missed, service>>

\* The job goes first, then the row.
DeleteSchedule(e, i) ==
  /\ BeginTask(e, TaskAt("delete", i)) /\ Exists(rows[i])
  /\ timer' = [timer EXCEPT ![i] = None]
  /\ UNCHANGED <<rows, event, late>>

DeleteRow(e) ==
  /\ In(e, "delete") /\ EndTask(e)
  /\ rows' = [rows EXCEPT ![task[e].at] = Deleted]
  /\ UNCHANGED <<now, timer, event, lock, paid, occurred, quiet, lapses, service>>

FireNow(e, i) == BeginTask(e, TaskAt("fire", i)) /\ Exists(rows[i]) /\ UNCHANGED <<rows, timer, event, late>>

\* "End lockout now": the lock of the event, then every open pre-fire window.
Unlock(e) == BeginTask(e, TaskAt("unlock", Nobody)) /\ event' = FALSE /\ UNCHANGED <<rows, timer, late>>

Unlocking(e) ==
  /\ In(e, "unlock") /\ EndTask(e)
  /\ rows' = [i \in Ids |-> IF InWindow(rows[i]) THEN [rows[i] EXCEPT !.lockOff = TRUE] ELSE rows[i]]
  /\ UNCHANGED <<now, timer, event, lock, paid, occurred, quiet, lapses, service>>
-----------------------------------------------------------------------------
\* A purchase asks for the pre-fire lock, then for the event's, then buys.
Ask ==
  /\ up = "up" /\ In(Buyer, "idle")
  /\ task' = [task EXCEPT ![Buyer] = IF PreFireLocked THEN Done ELSE TaskAt("asked", Nobody)]
  /\ UNCHANGED <<now, rows, timer, event, lock, paid, occurred, quiet, lapses, service>>

AskAgain ==
  /\ In(Buyer, "asked")
  /\ IF event THEN EndTask(Buyer) ELSE TaskGoto(Buyer, "buying")
  /\ UNCHANGED <<now, rows, timer, event, lock, paid, occurred, quiet, lapses, service>>

Buy ==
  /\ In(Buyer, "buying") /\ TaskGoto(Buyer, "done") /\ paid' = "on"
  /\ UNCHANGED <<now, rows, timer, event, lock, occurred, quiet, lapses, service>>

\* The event's last item plays, or its time is over (ScheduleFire).
EventOver ==
  /\ event /\ event' = FALSE
  /\ UNCHANGED <<now, rows, timer, lock, task, paid, occurred, quiet, lapses, service>>

\* Time passes while every task has begun less than Longest ago and no job is
\* due.  Start-up is taken to need no time.
Tick ==
  /\ now < MaxTime /\ up # "loading" /\ now' = now + 1
  /\ \A p \in Tasks \cup {Buyer} : TaskBusy(p) => now < task[p].since + Longest
  /\ up = "up" => \A i \in Ids : timer[i] = None \/ timer[i] > now
  /\ UNCHANGED <<rows, timer, event, lock, task, paid, occurred, quiet, lapses, service>>

\* Nobody works at the schedule.
Settled(i) == ~TaskBusy(i) /\ \A e \in Edits : task[e].at = i => ~TaskBusy(e)

\* The service stops: jobs and tasks are memory, the tables stay.
Stop ==
  /\ up = "up" /\ restarts < MaxRestarts
  /\ up' = "down" /\ restarts' = restarts + 1 /\ lock' = Nobody
  /\ timer' = [i \in Ids |-> None]
  /\ task' = [p \in Tasks \cup {Buyer} |->
                IF ~TaskBusy(p) THEN task[p] ELSE IF p \in Ids THEN IdleTask ELSE Done]
  /\ UNCHANGED <<now, rows, event, paid, occurred, quiet, lapses, loading>>

\* _load_schedules: all rows at once, then one after the other.
Boot ==
  /\ up = "down" /\ up' = "loading"
  /\ loading' = {i \in Ids : rows[i].active}
  /\ late' = {} /\ missed' = {}
  /\ UNCHANGED <<now, rows, timer, event, lock, task, paid, occurred, quiet, restarts>>

\* Mutant: a missed occurrence is written on and not armed.
LoadOne_NotArmed(i) ==
  /\ up = "loading" /\ i \in loading /\ loading' = loading \ {i}
  /\ IF rows[i].fireAt > now
     THEN timer' = [timer EXCEPT ![i] = rows[i].fireAt] /\ UNCHANGED rows
     ELSE /\ rows' = IF Comes(rows[i], now) THEN Advanced(i, NextAfter(rows[i].fireAt, now)) ELSE rows
          /\ UNCHANGED timer
  /\ UNCHANGED <<now, event, lock, task, paid, occurred, quiet, lapses, up, restarts>>

LoadOne(i) ==
  /\ up = "loading" /\ i \in loading /\ loading' = loading \ {i}
  /\ LET next == NextAfter(rows[i].fireAt, now)
     IN  IF rows[i].fireAt > now \/ Comes(rows[i], now)
         THEN /\ timer' = [timer EXCEPT ![i] = next]
              /\ rows' = IF rows[i].fireAt > now THEN rows ELSE Advanced(i, next)
         ELSE UNCHANGED <<rows, timer>>
  /\ UNCHANGED <<now, event, lock, task, paid, occurred, quiet, lapses, up, restarts>>

Loaded ==
  /\ up = "loading" /\ loading = {} /\ up' = "up"
  /\ UNCHANGED <<now, rows, timer, event, lock, task, paid, occurred, quiet, lapses, loading, restarts>>
-----------------------------------------------------------------------------
Edit(e) ==
  \/ \E i \in Ids : \/ \E t \in 0 .. Horizon, k \in Rules : CreateSchedule(e, i, t, k)
                    \/ Update(e, i) \/ DeleteSchedule(e, i) \/ FireNow(e, i)
  \/ \E b \in Bodies : Put(e, b)
  \/ Rearm(e) \/ Advance(e) \/ DeleteRow(e) \/ Unlock(e) \/ Unlocking(e)

SchedulesNext ==
  \/ \E i \in Ids : Due(i) \/ Reread(i) \/ Write(i) \/ LoadOne(i)
  \/ \E p \in Tasks : Enter(p) \/ List(p) \/ ClearList(p) \/ Activate(p) \/ Mark(p)
  \/ \E e \in Edits : Edit(e)
  \/ Ask \/ AskAgain \/ Buy \/ EventOver \/ Tick \/ Stop \/ Boot \/ Loaded

SchedulesSpec == SchedulesInit /\ [][SchedulesNext]_scheduleVars
-----------------------------------------------------------------------------
\* A schedule with a time to come has its job for that time, whatever edits,
\* fires and restarts came before: the queue is never closed for an event that
\* will not start.
FutureArmed ==
  up = "up" => \A i \in Ids : rows[i].active /\ rows[i].fireAt > now /\ Settled(i)
                               => timer[i] = rows[i].fireAt

\* A schedule that is switched on and whose rule has an occurrence to come has
\* its next one armed, except while it is being fired or edited.  Three things
\* leave it on without a job until it is next edited or the service restarts:
\* a time that was over when an admin gave it, an occurrence that came due
\* before an edit had armed it, and a timed fire that broke off at its clear.
RecurringArmed ==
  up = "up" => \A i \in Ids : /\ Exists(rows[i]) /\ rows[i].active /\ Settled(i) /\ Comes(rows[i], now)
                              /\ i \notin late \cup missed
                              => timer[i] # None

\* No occurrence is fired twice by the timer, unless an admin set the schedule
\* back to a time that was over while it was firing.
FiredOnce ==
  [][\A i \in Ids : Activate(i) /\ i \notin late => task[i].since \notin occurred[i]]_scheduleVars

\* What the pre-fire lock is for: unless an admin interferes, a purchase let in
\* before an event was due is over and listed when the event's fire lists what
\* to refund, so that the clear does not take it away unpaid.
EarlyPurchaseRefunded == quiet => paid # "lost_early"

\* What holds between an edit, a fire and a restart.
SchedulesSafe == SchedulesType /\ FutureArmed /\ RecurringArmed /\ EarlyPurchaseRefunded
=============================================================================
