------------------------------ MODULE JobManager ------------------------------
(***************************************************************************)
(* jobs/manager.py: JobManager.run, _execute and stop, the job_runs table  *)
(* they write, and what a restart does to it.  A job's own function is     *)
(* left to the module that extends this one: it runs while task[r] is      *)
(* "work" and ends by naming an outcome.                                   *)
(*                                                                         *)
(* A run is its row number.  run() awaits the INSERT of the row before it  *)
(* enters the task in _running: "start" is that await.                     *)
(***************************************************************************)
EXTENDS Integers, Sequences

CONSTANTS
  Jobs,       \* the registered names
  NoRun,
  MaxCalls,   \* bound: calls of run() by admins and the scheduler
  MaxBoots    \* bound: how often the service is started again

\* A call may make one more call from its job function, a boot makes one.
RunIds == 1 .. 2 * MaxCalls + MaxBoots
Outcomes == {"completed", "failed", "cancelled"}

ASSUME JobManagerAssumption == NoRun \notin RunIds /\ MaxCalls \in Nat /\ MaxBoots \in Nat

VARIABLES
  service,     \* "up", "stopping" or "down"
  boots,
  rows,        \* job_runs
  running,     \* _running: the run entered for each name
  task,        \* where each run's coroutine is
  caller,      \* the run whose job function awaits run(), if one does
  cancelled    \* the tasks stop() has cancelled and waits for

jobvars == <<service, boots, rows, running, task, caller, cancelled>>

JobsType ==
  /\ service \in {"up", "stopping", "down"} /\ boots \in 0 .. MaxBoots
  /\ rows \in Seq([job : Jobs, status : {"running", "interrupted"} \cup Outcomes])
  /\ running \in [Jobs -> Nat \cup {NoRun}]
  /\ task \in [RunIds -> {"none", "start", "work", "ended"} \cup Outcomes]
  /\ caller \in [RunIds -> RunIds \cup {NoRun}]
  /\ cancelled \subseteq Nat

JobsInit ==
  /\ service = "up" /\ boots = 0
  /\ rows = <<>>
  /\ running = [n \in Jobs |-> NoRun]
  /\ task = [r \in RunIds |-> "none"]
  /\ caller = [r \in RunIds |-> NoRun]
  /\ cancelled = {}

Job(r) == rows[r].job

\* The coroutine of r goes on in its job function, no cancellation pending.
Works(r, n) == task[r] = "work" /\ Job(r) = n /\ r \notin cancelled

\* run() up to its await, for a name that is not in _running.
Enter(n, by) ==
  LET r == Len(rows) + 1
  IN  /\ running[n] = NoRun
      /\ rows' = Append(rows, [job |-> n, status |-> "running"])
      /\ task' = [task EXCEPT ![r] = "start"]
      /\ caller' = [caller EXCEPT ![r] = by]
      /\ UNCHANGED <<service, boots, running, cancelled>>

Call(n) == service # "down" /\ Len(rows) < MaxCalls /\ Enter(n, NoRun)

\* The rest of run(), and of the job function that called it.
Begin(r) ==
  /\ task[r] = "start" /\ caller[r] \notin cancelled
  /\ running' = [running EXCEPT ![Job(r)] = r]
  /\ task' = [x \in RunIds |-> IF x = r THEN "work"
                               ELSE IF x = caller[r] THEN "completed" ELSE task[x]]
  /\ caller' = [caller EXCEPT ![r] = NoRun]
  /\ UNCHANGED <<service, boots, rows, cancelled>>

\* _running.pop(name): whatever run the name has now.
Left(r) ==
  /\ running' = [running EXCEPT ![Job(r)] = NoRun]
  /\ task' = [task EXCEPT ![r] = "ended"]

\* Mutant of Finish: a failure is not written.
Finish_FailureKept(r) ==
  /\ task[r] \in Outcomes /\ (r \in cancelled => task[r] = "cancelled")
  /\ rows' = [rows EXCEPT ![r].status = IF task[r] = "failed" THEN "running" ELSE task[r]]
  /\ Left(r)
  /\ UNCHANGED <<service, boots, caller, cancelled>>

\* finish_job_run and the finally clause.
Finish(r) ==
  /\ task[r] \in Outcomes /\ (r \in cancelled => task[r] = "cancelled")
  /\ rows' = [rows EXCEPT ![r].status = task[r]]
  /\ Left(r)
  /\ UNCHANGED <<service, boots, caller, cancelled>>

\* CancelledError while the outcome is being written.
InterruptFinish(r) ==
  /\ r \in cancelled
  /\ \/ task[r] = "completed" /\ task' = [task EXCEPT ![r] = "cancelled"]
        /\ UNCHANGED <<rows, running>>
     \/ task[r] = "failed" /\ Left(r)
        /\ rows' \in {rows, [rows EXCEPT ![r].status = "failed"]}
  /\ UNCHANGED <<service, boots, caller, cancelled>>

\* CancelledError in a job function that awaits the run() it called: the row
\* is written and its task is never created.
InterruptCall(r) ==
  /\ r \in cancelled /\ task[r] = "work"
  /\ \E c \in RunIds : caller[c] = r
  /\ task' = [x \in RunIds |-> IF x = r THEN "cancelled"
                               ELSE IF caller[x] = r THEN "ended" ELSE task[x]]
  /\ caller' = [x \in RunIds |-> IF caller[x] = r THEN NoRun ELSE caller[x]]
  /\ UNCHANGED <<service, boots, rows, running, cancelled>>

\* stop(): cancel what _running holds, then gather it.
Stop ==
  /\ service = "up" /\ service' = "stopping" /\ boots < MaxBoots
  /\ cancelled' = {running[n] : n \in Jobs} \ {NoRun}
  /\ UNCHANGED <<boots, rows, running, task, caller>>

\* The process ends, in order once the cancelled tasks have ended, or at once.
Down ==
  /\ service # "down" /\ service' = "down"
  /\ running' = [n \in Jobs |-> NoRun]
  /\ task' = [r \in RunIds |-> IF task[r] = "none" THEN "none" ELSE "ended"]
  /\ caller' = [r \in RunIds |-> NoRun]
  /\ cancelled' = {}
  /\ UNCHANGED <<boots, rows>>

Close == service = "stopping" /\ (\A r \in cancelled : task[r] = "ended") /\ Down
Crash == boots < MaxBoots /\ Down

\* Mutant of Reconciled: the rows are left as they are.
Reconciled_Nothing == rows

\* reconcile_orphaned_job_runs.
Reconciled ==
  [r \in DOMAIN rows |-> IF rows[r].status = "running"
                         THEN [rows[r] EXCEPT !.status = "interrupted"] ELSE rows[r]]
=============================================================================
