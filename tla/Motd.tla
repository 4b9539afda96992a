-------------------------------- MODULE Motd --------------------------------
(***************************************************************************)
(* The message of the day on the channel: the automation that keeps it in  *)
(* step with the schedules (motd/automation.py, motd/composer.py), the job *)
(* that publishes it (jobs/motd_publish.py) behind the one-run-per-name    *)
(* guard of jobs/manager.py, and the pruning of its history.               *)
(*                                                                         *)
(* An html is what it was made of: a composition key and a week.  A key is *)
(* the revisions of the master and of the fragment of the one zone there   *)
(* is.  Time is a counter; a week lasts Week; a tick, a pruning, the       *)
(* INSERT of a job's run and what follows its backup take less than a      *)
(* unit.  After Calm the world leaves the channel alone.                   *)
(***************************************************************************)
EXTENDS MotdSchedule

CONSTANTS
  Masters, Fragments, Nothing,
  Zone, Whole,  \* the scopes: the zone's, the message's
  Edited,       \* bound: the templates admins save
  Tables,       \* bound: what admins schedule
  Runs,         \* bound: job runs at a time
  Automation, Admin,  \* who asks for a run
  Week, Retry, Retention,
  MaxTime, Calm,
  MaxChanges, MaxCalls, MaxPrunes,  \* bounds; a change is also a crash or a lost answer
  Overlap,      \* whether a request may come during the INSERT of another's run
  Faults        \* of "failed", "lost" and "cut"

ASSUME MotdAssumption ==
  /\ {Week, Retry, Retention, MaxTime, Calm, MaxChanges, MaxCalls, MaxPrunes} \subseteq Nat
  /\ Week > 0 /\ Calm + Retry <= MaxTime /\ Nothing \notin Fragments /\ Zone # Whole
  /\ Scopes = {Zone, Whole} /\ Faults \subseteq {"failed", "lost", "cut"} /\ Automation # Admin /\ Overlap \in BOOLEAN

VARIABLES
  now,
  table,      \* table motd_schedules
  dflt, cur,  \* of the templates: the default, the current revisions
  enabled,    \* motd.automation_enabled
  channel,    \* what viewers see
  pubs,       \* table motd_publications
  backups,    \* files under output_dir/backups
  running,    \* the name motd_publish is in JobManager._running
  run,        \* the job runs
  tick,       \* the automation's tick: place, key it resolved
  last,       \* _last_attempt
  prune,      \* the pruning job
  changes, calls, prunes,
  taint       \* what has gone wrong that the code does not answer for

content == <<table, dflt, cur, enabled>>
shown == <<channel, pubs, backups>>
motdWork == <<running, run, tick, last>>
history == <<prune, prunes>>
motdVars == <<now, content, shown, motdWork, history, changes, calls, taint>>

None == -1
Free == [pc |-> "free", by |-> Nothing, ahead |-> 0, week |-> 0, key |-> <<>>, backup |-> None]
Idle == [pc |-> "idle", key |-> <<>>, at |-> None]

\* resolve_composition: the winning master, the default if none, and the
\* winning fragment.
Pick(scope) == {o.s.template : o \in ActiveAt(table, now, scope)}
DueKey == LET m == IF Pick(Whole) = {} THEN dflt ELSE CHOOSE t \in Pick(Whole) : TRUE
           f == IF Pick(Zone) = {} THEN Nothing ELSE CHOOSE t \in Pick(Zone) : TRUE
       IN <<m, cur[m], f, IF f = Nothing THEN 0 ELSE cur[f]>>

ThisWeek == now \div Week

\* get_latest_motd_publication.
Newest == {p \in pubs : \A q \in pubs : q.n <= p.n}

\* Mutant: what was tried last counts as shown.
Decides_OnAttempt(key) ==
  /\ key # last.key
  /\ ~(last.key = key /\ last.at + Retry > now)

Decides(key) ==
  /\ \A p \in Newest : p.key # key
  /\ ~(last.key = key /\ last.at + Retry > now)

MotdInit ==
  /\ now = 0 /\ table \in Tables /\ dflt \in Masters /\ cur = [t \in Masters \cup Fragments |-> 1]
  /\ enabled = TRUE /\ channel = [key |-> <<>>, week |-> 0]
  /\ pubs = {} /\ backups = {} /\ running = FALSE
  /\ run = [r \in Runs |-> Free] /\ tick = Idle /\ last = Idle /\ prune = [pc |-> "idle", keep |-> {}, cutoff |-> 0]
  /\ changes = 0 /\ calls = 0 /\ prunes = 0 /\ taint = {}

At(r, pc) == run[r].pc = pc
Goto(r, pc) == run' = [run EXCEPT ![r].pc = pc]
Busy == {r \in Runs : run[r].pc \notin {"free", "start"}}
-----------------------------------------------------------------------------
\* Mutant: nothing is refused.
Ask_Twice(r, by, ahead) ==
  /\ At(r, "free") /\ \A q \in Runs : q < r => ~At(q, "free")
  /\ run' = [run EXCEPT ![r] = [Free EXCEPT !.pc = "start", !.by = by, !.ahead = ahead]]

\* JobManager.run up to its await; a name that is running is refused.
Ask(r, by, ahead) ==
  /\ Overlap \/ \A q \in Runs : ~At(q, "start")
  /\ IF running THEN run' = run
     ELSE /\ At(r, "free") /\ \A q \in Runs : q < r => ~At(q, "free")
          /\ run' = [run EXCEPT ![r] = [Free EXCEPT !.pc = "start", !.by = by, !.ahead = ahead]]

\* The rest of it: the task is entered.
Start(r) ==
  /\ At(r, "start") /\ Goto(r, "build") /\ running' = TRUE
  /\ UNCHANGED <<now, content, shown, tick, last, history, changes, calls, taint>>

\* tick, once the sleep is over and the previous one has returned: the
\* switch, the guard, the composition.
TickRead ==
  /\ tick.pc = "idle" /\ \A r \in Runs : ~(At(r, "start") /\ run[r].by = Automation)
  /\ enabled /\ ~running
  /\ tick' = [tick EXCEPT !.pc = "compare", !.key = DueKey]
  /\ UNCHANGED <<now, content, shown, running, run, last, history, changes, calls, taint>>

\* Mutant: a change is published for the week that is on, always.
Ahead_Never == 0

\* An early debut of next week stays.
Ahead == IF \E p \in Newest : p.week = ThisWeek + 1 THEN 1 ELSE 0

TickCompare ==
  /\ tick.pc = "compare" /\ tick' = Idle
  /\ IF Decides(tick.key)
     THEN /\ last' = [Idle EXCEPT !.key = tick.key, !.at = now]
          /\ \E r \in Runs : Ask(r, Automation, Ahead)
     ELSE UNCHANGED <<last, run>>
  /\ UNCHANGED <<now, content, shown, running, history, changes, calls, taint>>

\* publish_now, or the weekly schedule of the job.
Publish ==
  /\ calls < MaxCalls /\ now <= Calm /\ calls' = calls + 1
  /\ \E r \in Runs, ahead \in {0, 1} : Ask(r, Admin, ahead)
  /\ UNCHANGED <<now, content, shown, running, tick, last, history, changes, taint>>
-----------------------------------------------------------------------------
\* motd_publish_job: the week is named first, the slots are built meanwhile.
Build(r) ==
  /\ At(r, "build")
  /\ run' = [run EXCEPT ![r].pc = "resolve", ![r].week = ThisWeek + run[r].ahead]
  /\ UNCHANGED <<now, content, shown, running, tick, last, history, changes, calls, taint>>

\* The composition is resolved again and rendered.
Resolve(r) ==
  /\ At(r, "resolve")
  /\ run' = [run EXCEPT ![r].pc = "backup", ![r].key = DueKey]
  /\ UNCHANGED <<now, content, shown, running, tick, last, history, changes, calls, taint>>

\* The live message is kept before it is replaced.
Backup(r) ==
  /\ At(r, "backup")
  /\ backups' = backups \cup {now}
  /\ run' = [run EXCEPT ![r].pc = "send", ![r].backup = now]
  /\ UNCHANGED <<now, content, channel, pubs, running, tick, last, history, changes, calls, taint>>

\* Mutant: the publication is recorded before the channel has answered.
Send_RecordsFirst(r) ==
  /\ At(r, "send") /\ Goto(r, "record")
  /\ pubs' = pubs \cup {[n |-> Max({p.n : p \in pubs} \cup {0}) + 1, key |-> run[r].key, week |-> run[r].week,
                         at |-> now, backup |-> run[r].backup]}
  /\ channel' \in {channel, [key |-> run[r].key, week |-> run[r].week]}
  /\ UNCHANGED <<now, content, backups, running, tick, last, history, changes, calls, taint>>

\* set_motd: the channel takes it, and the answer may be lost.
Send(r) ==
  /\ At(r, "send")
  /\ channel' = [key |-> run[r].key, week |-> run[r].week]
  /\ \/ Goto(r, "record") /\ UNCHANGED <<running, taint, changes>>
     \/ /\ "lost" \in Faults /\ now <= Calm /\ changes < MaxChanges /\ changes' = changes + 1
        /\ taint' = taint \cup {"lost"}
        /\ run' = [run EXCEPT ![r] = Free] /\ running' = FALSE
  /\ UNCHANGED <<now, content, pubs, backups, tick, last, history, calls>>

\* add_motd_publication, and the end of the run.
Record(r) ==
  /\ At(r, "record")
  /\ pubs' = pubs \cup {[n |-> Max({p.n : p \in pubs} \cup {0}) + 1, key |-> run[r].key, week |-> run[r].week,
                         at |-> now, backup |-> run[r].backup]}
  /\ run' = [run EXCEPT ![r] = Free] /\ running' = FALSE
  /\ UNCHANGED <<now, content, channel, backups, tick, last, history, changes, calls, taint>>

\* The build, the render, the backup or set_motd fails: nothing is published.
Fail(r) ==
  /\ "failed" \in Faults /\ now <= Calm
  /\ run[r].pc \in {"build", "resolve", "backup", "send"}
  /\ run' = [run EXCEPT ![r] = Free] /\ running' = FALSE
  /\ UNCHANGED <<now, content, shown, tick, last, history, changes, calls, taint>>
-----------------------------------------------------------------------------
\* motd_retention_prune_job: the newest publication is looked up, the older
\* ones go, then the files.
PruneAsk ==
  /\ prune.pc = "idle" /\ prunes < MaxPrunes /\ now >= Retention /\ prunes' = prunes + 1
  /\ prune' = [pc |-> "rows", keep |-> Newest, cutoff |-> now - Retention]
  /\ UNCHANGED <<now, content, shown, motdWork, changes, calls, taint>>

\* Mutant: the newest goes with the others.
PruneRows_All ==
  /\ prune.pc = "rows" /\ prune' = [prune EXCEPT !.pc = "files"]
  /\ pubs' = {p \in pubs : p.at >= prune.cutoff}
  /\ UNCHANGED <<now, content, channel, backups, motdWork, prunes, changes, calls, taint>>

PruneRows ==
  /\ prune.pc = "rows" /\ prune' = [prune EXCEPT !.pc = "files"]
  /\ pubs' = {p \in pubs : p.at >= prune.cutoff \/ p \in prune.keep}
  /\ UNCHANGED <<now, content, channel, backups, motdWork, prunes, changes, calls, taint>>

PruneFiles ==
  /\ prune.pc = "files" /\ prune' = [prune EXCEPT !.pc = "idle", !.keep = {}]
  /\ backups' = {b \in backups : b >= prune.cutoff \/ \E p \in prune.keep : p.backup = b}
  /\ UNCHANGED <<now, content, channel, pubs, motdWork, prunes, changes, calls, taint>>
-----------------------------------------------------------------------------
\* A save, a new default, a change of the schedules, the switch.
Edit ==
  /\ changes < MaxChanges /\ now <= Calm /\ changes' = changes + 1
  /\ \/ \E t \in Edited : cur' = [cur EXCEPT ![t] = @ + 1] /\ UNCHANGED <<table, dflt, enabled>>
     \/ dflt' \in Masters \ {dflt} /\ UNCHANGED <<table, cur, enabled>>
     \/ table' \in Tables \ {table} /\ UNCHANGED <<dflt, cur, enabled>>
     \/ enabled' = ~enabled /\ UNCHANGED <<table, dflt, cur>>
  /\ UNCHANGED <<now, shown, motdWork, history, calls, taint>>

Clock ==
  /\ now < MaxTime /\ tick.pc = "idle" /\ prune.pc = "idle"
  /\ \A r \in Runs : run[r].pc \notin {"start", "send", "record"}
  /\ now' = now + 1
  /\ taint' = IF (now + 1) % Week = 0 /\ \E r \in Runs : At(r, "build") /\ run[r].by = Automation /\ run[r].ahead = 1
              THEN taint \cup {"turned"} ELSE taint
  /\ UNCHANGED <<content, shown, motdWork, history, changes, calls>>

\* The service dies and starts again; what it was doing is gone.
Crash ==
  /\ "cut" \in Faults /\ now <= Calm /\ changes < MaxChanges /\ changes' = changes + 1
  /\ taint' = IF \E r \in Runs : At(r, "record") THEN taint \cup {"cut"} ELSE taint
  /\ run' = [r \in Runs |-> Free] /\ running' = FALSE /\ tick' = Idle /\ last' = Idle
  /\ prune' = [prune EXCEPT !.pc = "idle", !.keep = {}]
  /\ UNCHANGED <<now, content, shown, prunes, calls>>
-----------------------------------------------------------------------------
Job(r) == Start(r) \/ Build(r) \/ Resolve(r) \/ Backup(r) \/ Send(r) \/ Record(r)
Ticks == TickRead \/ TickCompare
MotdNext ==
  \/ Ticks \/ Publish \/ Edit \/ Clock \/ Crash
  \/ \E r \in Runs : Job(r) \/ Fail(r)
  \/ PruneAsk \/ PruneRows \/ PruneFiles

\* The loop ticks, a run goes on, time passes between two ticks.
MotdFairness == /\ WF_motdVars(TickRead) /\ WF_motdVars(TickCompare) /\ SF_motdVars(Clock)
            /\ WF_motdVars(PruneRows \/ PruneFiles)
            /\ \A r \in Runs : WF_motdVars(Job(r))
MotdSpec == MotdInit /\ [][MotdNext]_motdVars /\ MotdFairness
-----------------------------------------------------------------------------
MotdType ==
  /\ now \in 0 .. MaxTime /\ dflt \in Masters /\ enabled \in BOOLEAN /\ running \in BOOLEAN
  /\ tick.pc \in {"idle", "compare"} /\ prune.pc \in {"idle", "rows", "files"}
  /\ \A r \in Runs : run[r].pc \in {"free", "start", "build", "resolve", "backup", "send", "record"}
  /\ taint \subseteq {"lost", "cut", "turned"}
  /\ Busy # {} => running

\* The newest publication is what the channel shows, unless a run is between
\* the two, an answer was lost or a crash fell between the channel and the
\* row.  The automation compares with nothing else.
InSync ==
  taint \cap {"lost", "cut"} = {} /\ (\A r \in Runs : ~At(r, "record"))
    => \A p \in Newest : channel = [key |-> p.key, week |-> p.week]

\* Pruning never takes the publication the automation compares with, nor the
\* copy of what it replaced, whatever is published meanwhile.
BaselineKept ==
  /\ channel.key # <<>> /\ taint = {} /\ (\A r \in Runs : ~At(r, "record")) => pubs # {}
  /\ \A p \in Newest : p.backup \in backups

\* What the channel shows, what the history says of it, and what is kept of it.
MotdSafe == MotdType /\ InSync /\ BaselineKept

\* The automation changes the composition, never the week: it does not undo
\* an early debut, nor run ahead of it, unless the week turned between its
\* decision and the job.
WeekKept ==
  [][\A r \in Runs : At(r, "send") /\ run[r].by = Automation /\ channel' # channel /\ taint = {}
       => channel.week <= channel'.week /\ channel'.week <= Max({channel.week, ThisWeek})]_motdVars

\* In the end the channel shows what the schedules and templates say.
Converges == <>[](enabled /\ taint = {} => channel.key = DueKey)
=============================================================================
